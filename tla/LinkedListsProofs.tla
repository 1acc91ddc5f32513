------------------------- MODULE LinkedListsProofs -------------------------
(***************************************************************************)
(* Proofs about the linear lists, for every memory of nodes and every      *)
(* number of lists.                                                        *)
(*                                                                         *)
(* The nodes of a list l are at[l][1], at[l][2], ... in the order its calls *)
(* keep, at[l][i] is Null for every other number i, and len[l] counts the  *)
(* nodes.  The invariant says that there are such at and len which the     *)
(* pointers, the headers and the running loop agree with.                  *)
(***************************************************************************)
EXTENDS LinkedLists, FiniteSetTheorems, SequenceTheorems, WellFoundedInduction, TLAPS

USE NodesAssumption, KindsAssumption

(* at and len describe the lists, and nodes are the nodes they hold, each of
   them once. *)
Cells(at, len) ==
    /\ at \in [Lists -> [Nat -> Nodes \cup {Null}]]
    /\ len \in [Lists -> Nat]
    /\ \A l \in Lists, i \in Nat : at[l][i] \in Nodes <=> 1 <= i /\ i <= len[l]

Covers(at, nodes) ==
    /\ \A n \in nodes : \E l \in Lists, i \in Nat : at[l][i] = n
    /\ \A l \in Lists, i \in Nat : at[l][i] \in Nodes => at[l][i] \in nodes

Apart(at) ==
    \A l, m \in Lists, i, j \in Nat :
        at[l][i] \in Nodes /\ at[l][i] = at[m][j] => l = m /\ i = j

Owns(at, len, nodes) ==
    Cells(at, len) /\ Covers(at, nodes) /\ Apart(at) /\ nodes \subseteq Nodes

(* A list with node n put at place p, without the node at place p, and with
   its first k nodes turned around. *)
Inserted(s, p, n) == [i \in Nat |-> IF i < p THEN s[i] ELSE IF i = p THEN n ELSE s[i - 1]]
Removed(s, p)     == [i \in Nat |-> IF i < p THEN s[i] ELSE s[i + 1]]
Turned(s, k)      == [i \in Nat |-> IF 1 <= i /\ i <= k THEN s[k + 1 - i] ELSE s[i]]

(* A list that takes in a new node. *)
LEMMA OwnsMore ==
    ASSUME NEW at, NEW len, NEW nodes, Owns(at, len, nodes),
           NEW l \in Lists, NEW p \in Nat, 1 <= p, p <= len[l] + 1,
           NEW n \in Nodes \ nodes
    PROVE  Owns([at EXCEPT ![l] = Inserted(@, p, n)], [len EXCEPT ![l] = @ + 1],
                nodes \cup {n})
<1> DEFINE a == [at EXCEPT ![l] = Inserted(@, p, n)]
           b == [len EXCEPT ![l] = @ + 1]
<1> USE DEF Owns, Cells
<1>1. a \in [Lists -> [Nat -> Nodes \cup {Null}]] BY DEF Inserted
<1>2. b \in [Lists -> Nat] OBVIOUS
<1>3. \A i \in Nat : a[l][i] = IF i < p THEN at[l][i] ELSE IF i = p THEN n ELSE at[l][i - 1]
  BY DEF Inserted
<1>4. \A m \in Lists \ {l} : a[m] = at[m] OBVIOUS
<1>5. b[l] = len[l] + 1 /\ \A m \in Lists \ {l} : b[m] = len[m] OBVIOUS
<1> HIDE DEF a, b
<1>6. \A m \in Lists, i \in Nat : a[m][i] \in Nodes <=> 1 <= i /\ i <= b[m]
  BY <1>3, <1>4, <1>5
<1>7. \A m \in Lists, i \in Nat :
         a[m][i] \in Nodes => a[m][i] \in nodes \cup {n}
  <2> SUFFICES ASSUME NEW m \in Lists, NEW i \in Nat, a[m][i] \in Nodes
               PROVE  a[m][i] \in nodes \cup {n}
    OBVIOUS
  <2>1. \A j \in Nat : at[m][j] \in Nodes => at[m][j] \in nodes BY DEF Covers
  <2>2. a[m][i] = n \/ \E j \in Nat : a[m][i] = at[m][j]
    <3>1. m # l => a[m][i] = at[m][i] BY <1>4
    <3>2. m = l /\ i > p => i - 1 \in Nat /\ a[m][i] = at[l][i - 1] BY <1>3
    <3>3. m = l /\ i < p => a[m][i] = at[l][i] BY <1>3
    <3>4. m = l /\ i = p => a[m][i] = n BY <1>3
    <3> QED BY <3>1, <3>2, <3>3, <3>4
  <2> QED BY <2>1, <2>2
<1>8. \A x \in nodes \cup {n} : \E m \in Lists, i \in Nat : a[m][i] = x
  <2> SUFFICES ASSUME NEW x \in nodes PROVE \E m \in Lists, i \in Nat : a[m][i] = x
    BY <1>3
  <2>1. PICK m \in Lists, i \in Nat : at[m][i] = x BY DEF Covers
  <2>2. CASE m # l BY <2>1, <2>2, <1>4
  <2>3. CASE m = l /\ i < p BY <2>1, <2>3, <1>3
  <2>4. CASE m = l /\ i >= p
    <3>1. a[l][i + 1] = at[l][i] BY <2>4, <1>3
    <3> QED BY <3>1, <2>1, <2>4
  <2> QED BY <2>2, <2>3, <2>4
<1>9. Apart(a)
  <2> SUFFICES ASSUME NEW k \in Lists, NEW m \in Lists, NEW i \in Nat, NEW j \in Nat,
                      a[k][i] \in Nodes, a[k][i] = a[m][j]
               PROVE  k = m /\ i = j
    BY DEF Apart
  <2> DEFINE from(q, r) == IF q = l /\ r > p THEN r - 1 ELSE r
  <2>1. ASSUME NEW q \in Lists, NEW r \in Nat, ~(q = l /\ r = p)
        PROVE  from(q, r) \in Nat /\ at[q][from(q, r)] = a[q][r]
    BY <2>1, <1>3, <1>4
  <2>2. ASSUME NEW q \in Lists, NEW r \in Nat PROVE a[q][r] = n <=> q = l /\ r = p
    <3>1. \A x \in Nat : at[q][x] # n BY DEF Covers
    <3> QED BY <3>1, <2>1, <1>3
  <2>3. CASE a[k][i] = n
    <3>1. k = l /\ i = p BY <2>2, <2>3, Zenon
    <3>2. m = l /\ j = p BY <2>2, <2>3, Zenon
    <3> QED BY <3>1, <3>2
  <2>4. CASE a[k][i] # n
    <3>1. ~(k = l /\ i = p) /\ ~(m = l /\ j = p) BY <2>2, <2>4, Zenon
    <3>2. at[k][from(k, i)] = at[m][from(m, j)] /\ at[k][from(k, i)] \in Nodes
      BY <2>1, <3>1
    <3>3. k = m /\ from(k, i) = from(m, j)
      <4> HIDE DEF from
      <4> QED BY <3>1, <3>2, <2>1 DEF Apart
    <3> QED BY <3>1, <3>3
  <2> QED BY <2>3, <2>4
<1>10. Owns(a, b, nodes \cup {n}) BY <1>1, <1>2, <1>6, <1>7, <1>8, <1>9 DEF Covers
<1> QED BY <1>10 DEF a, b

(* A list that gives a node back. *)
LEMMA OwnsLess ==
    ASSUME NEW at, NEW len, NEW nodes, Owns(at, len, nodes),
           NEW l \in Lists, NEW p \in Nat, 1 <= p, p <= len[l]
    PROVE  Owns([at EXCEPT ![l] = Removed(@, p)], [len EXCEPT ![l] = @ - 1],
                nodes \ {at[l][p]})
<1> DEFINE a == [at EXCEPT ![l] = Removed(@, p)]
           b == [len EXCEPT ![l] = @ - 1]
<1> USE DEF Owns, Cells
<1>1. a \in [Lists -> [Nat -> Nodes \cup {Null}]] BY DEF Removed
<1>2. b \in [Lists -> Nat] OBVIOUS
<1>3. \A i \in Nat : a[l][i] = IF i < p THEN at[l][i] ELSE at[l][i + 1]
  BY DEF Removed
<1>4. \A m \in Lists \ {l} : a[m] = at[m] OBVIOUS
<1>5. b[l] = len[l] - 1 /\ \A m \in Lists \ {l} : b[m] = len[m] OBVIOUS
<1> HIDE DEF a, b
<1> DEFINE from(q, r) == IF q = l /\ r >= p THEN r + 1 ELSE r
<1>56. ASSUME NEW q \in Lists, NEW r \in Nat
       PROVE  from(q, r) \in Nat /\ at[q][from(q, r)] = a[q][r] /\ ~(q = l /\ from(q, r) = p)
  BY <1>3, <1>4
<1> HIDE DEF from
<1>6. \A m \in Lists, i \in Nat : a[m][i] \in Nodes <=> 1 <= i /\ i <= b[m]
  BY <1>3, <1>4, <1>5
<1>7. \A m \in Lists, i \in Nat :
         a[m][i] \in Nodes => a[m][i] \in nodes \ {at[l][p]}
  <2> SUFFICES ASSUME NEW m \in Lists, NEW i \in Nat, a[m][i] \in Nodes
               PROVE  a[m][i] \in nodes \ {at[l][p]}
    OBVIOUS
  <2>1. /\ from(m, i) \in Nat
        /\ at[m][from(m, i)] = a[m][i]
        /\ ~(m = l /\ from(m, i) = p)
    BY <1>56
  <2>2. a[m][i] # at[l][p] BY <2>1 DEF Apart
  <2> QED BY <2>1, <2>2 DEF Covers
<1>8. \A x \in nodes \ {at[l][p]} : \E m \in Lists, i \in Nat : a[m][i] = x
  <2> SUFFICES ASSUME NEW x \in nodes, x # at[l][p]
               PROVE  \E m \in Lists, i \in Nat : a[m][i] = x
    OBVIOUS
  <2>1. PICK m \in Lists, i \in Nat : at[m][i] = x BY DEF Covers
  <2>2. CASE m # l BY <2>1, <2>2, <1>4
  <2>3. CASE m = l /\ i < p BY <2>1, <2>3, <1>3
  <2>4. CASE m = l /\ i > p
    <3>1. a[l][i - 1] = at[l][i] /\ i - 1 \in Nat BY <2>4, <1>3
    <3> QED BY <3>1, <2>1, <2>4
  <2> QED BY <2>1, <2>2, <2>3, <2>4
<1>9. Apart(a)
  <2> SUFFICES ASSUME NEW k \in Lists, NEW m \in Lists, NEW i \in Nat, NEW j \in Nat,
                      a[k][i] \in Nodes, a[k][i] = a[m][j]
               PROVE  k = m /\ i = j
    BY DEF Apart
  <2>1. from(k, i) \in Nat /\ at[k][from(k, i)] = a[k][i] BY <1>56
  <2>2. from(m, j) \in Nat /\ at[m][from(m, j)] = a[m][j] BY <1>56
  <2>3. k = m /\ from(k, i) = from(m, j) BY <2>1, <2>2 DEF Apart
  <2> QED BY <2>3, <1>56 DEF from
<1>10. Owns(a, b, nodes \ {at[l][p]})
  BY <1>1, <1>2, <1>6, <1>7, <1>8, <1>9 DEF Covers
<1> QED BY <1>10 DEF a, b

(* A list that is turned around. *)
LEMMA OwnsTurned ==
    ASSUME NEW at, NEW len, NEW nodes, Owns(at, len, nodes), NEW l \in Lists
    PROVE  Owns([at EXCEPT ![l] = Turned(@, len[l])], len, nodes)
<1> DEFINE a == [at EXCEPT ![l] = Turned(@, len[l])]
           k == len[l]
<1> USE DEF Owns, Cells
<1>0. k \in Nat OBVIOUS
<1>1. a \in [Lists -> [Nat -> Nodes \cup {Null}]] BY DEF Turned
<1>3. \A i \in Nat : a[l][i] = IF 1 <= i /\ i <= k THEN at[l][k + 1 - i] ELSE at[l][i]
  BY DEF Turned
<1>4. \A m \in Lists \ {l} : a[m] = at[m] OBVIOUS
<1> HIDE DEF a
<1>6. \A m \in Lists, i \in Nat : a[m][i] \in Nodes <=> 1 <= i /\ i <= len[m]
  BY <1>3, <1>4
<1>7. \A m \in Lists, i \in Nat : a[m][i] \in Nodes => a[m][i] \in nodes
  BY <1>3, <1>4 DEF Covers
<1>8. \A x \in nodes : \E m \in Lists, i \in Nat : a[m][i] = x
  <2> SUFFICES ASSUME NEW x \in nodes PROVE \E m \in Lists, i \in Nat : a[m][i] = x
    OBVIOUS
  <2>1. PICK m \in Lists, i \in Nat : at[m][i] = x BY DEF Covers
  <2>2. CASE m # l BY <2>1, <2>2, <1>4
  <2>3. CASE m = l
    <3>1. 1 <= i /\ i <= k BY <2>1, <2>3
    <3>2. k + 1 - i \in Nat /\ a[l][k + 1 - i] = at[l][i] BY <1>0, <1>3, <3>1
    <3> QED BY <3>2, <2>1, <2>3
  <2> QED BY <2>2, <2>3
<1>9. Apart(a)
  <2> SUFFICES ASSUME NEW q \in Lists, NEW m \in Lists, NEW i \in Nat, NEW j \in Nat,
                      a[q][i] \in Nodes, a[q][i] = a[m][j]
               PROVE  q = m /\ i = j
    BY DEF Apart
  <2>1. a[m][j] \in Nodes /\ 1 <= i /\ i <= len[q] /\ 1 <= j /\ j <= len[m]
    BY <1>6
  <2>2. CASE q # l /\ m # l BY <2>2, <1>4 DEF Apart
  <2>3. CASE q = l /\ m # l BY <2>1, <2>3, <1>3, <1>4 DEF Apart
  <2>4. CASE q # l /\ m = l BY <2>1, <2>4, <1>3, <1>4 DEF Apart
  <2>5. CASE q = l /\ m = l BY <2>1, <2>5, <1>0, <1>3 DEF Apart
  <2> QED BY <2>2, <2>3, <2>4, <2>5
<1>10. Owns(a, len, nodes) BY <1>1, <1>6, <1>7, <1>8, <1>9 DEF Covers
<1> QED BY <1>10 DEF a
-----------------------------------------------------------------------------
(* The next pointers lead from each node of a list to the one behind it. *)
Links(at) ==
    \A l \in Lists, i \in Nat :
        ~(pc = "reverse" /\ l = list) /\ at[l][i] \in Nodes =>
            next[at[l][i]] = at[l][i + 1]

(* first points to the first node; only a list without nodes that slist_init
   has not seen, or that slist_clear left, has no first pointer. *)
Heads(at, len) ==
    \A l \in Lists :
        ~(pc = "free" /\ l = list) =>
            \/ first[l] = at[l][1]
            \/ len[l] = 0 /\ l \in SLists /\ first[l] = Wild

(* size counts the nodes. *)
Sizes(len) ==
    \A l \in Lists :
        ~(pc = "free" /\ l = list) /\ ~(pc = "clone" /\ l = to) => size[l] = len[l]

(* last points to the last node, where it is used and slist_clone did not
   leave it. *)
Ends(at, len) ==
    /\ \A l \in Lists \ (Stacks \cup cloned) :
          /\ len[l] > 0
          /\ ~(pc \in {"reverse", "free"} /\ l = list)
          /\ ~(pc = "clone" /\ l = to)
          => last[l] = at[l][len[l]]
    /\ \A l \in Queues : len[l] = 0 => last[l] = Null

(* What the loop that runs has done so far. *)
Turning(at, len) ==
    \E k \in Nat :
        /\ 1 <= k /\ k <= len[list]
        /\ current = at[list][k]
        /\ prev = at[list][k - 1]
        /\ last[list] = at[list][1]
        /\ \A i \in Nat : at[list][i] \in Nodes =>
              next[at[list][i]] = IF i < k THEN at[list][i - 1] ELSE at[list][i + 1]

Loops(at, len) ==
    /\ pc \in {"idle", "take", "delete", "free"} => prev = Null
    /\ pc = "idle" => current = Null
    /\ pc = "take" => list \in Queues \cup Stacks /\ current = Null
    /\ pc = "delete" =>
          list \in SLists /\ (current = Null \/ \E i \in Nat : current = at[list][i])
    /\ pc = "reverse" => list \in SLists /\ Turning(at, len)
    /\ pc = "clone" =>
          /\ list \in SLists /\ to \in SLists /\ list # to
          /\ len[to] <= len[list]
          /\ current = at[list][len[to] + 1]
          /\ prev = at[to][len[to]]
    /\ pc = "free" => list \in SLists /\ current = at[list][1]

Shape(at, len) ==
    /\ Owns(at, len, live)
    /\ Links(at)
    /\ Heads(at, len)
    /\ Sizes(len)
    /\ Ends(at, len)
    /\ Loops(at, len)

Inv == TypeOK /\ (~astray => \E at, len : Shape(at, len))

(* Where the pointers of a list end. *)
LEMMA CellsEnd ==
    ASSUME NEW at, NEW len, Cells(at, len), NEW l \in Lists
    PROVE  /\ len[l] \in Nat
           /\ at[l][0] = Null /\ at[l][len[l] + 1] = Null
           /\ \A i \in Nat : i > len[l] => at[l][i] = Null
           /\ \A i \in 1 .. len[l] : at[l][i] \in Nodes
           /\ \A i \in Nat : at[l][i] \in Nodes \cup {Null}
           /\ Null \notin Nodes /\ Wild \notin Nodes
BY DEF Cells

(* A list holds no more nodes than there are. *)
LEMMA LenBound ==
    ASSUME NEW at, NEW len, NEW nodes, Owns(at, len, nodes), NEW l \in Lists
    PROVE  /\ IsFiniteSet(nodes) /\ Cardinality(nodes) \in Nat /\ M \in Nat
           /\ len[l] <= Cardinality(nodes) /\ Cardinality(nodes) <= M
           /\ nodes # Nodes => Cardinality(nodes) < M
<1>1. nodes \in SUBSET Nodes /\ IsFiniteSet(Nodes) BY DEF Owns
<1>2. /\ IsFiniteSet(nodes) /\ Cardinality(nodes) <= Cardinality(Nodes)
      /\ Cardinality(nodes) = Cardinality(Nodes) => nodes = Nodes
  BY <1>1, FS_Subset
<1>3. Cardinality(nodes) \in Nat /\ M \in Nat
  BY <1>1, <1>2, FS_CardinalityType DEF M
<1>4. len[l] \in Nat BY DEF Owns, Cells
<1>5. IsFiniteSet(1 .. len[l]) /\ Cardinality(1 .. len[l]) = len[l]
  <2>1. IsFiniteSet(1 .. len[l]) BY <1>4, FS_Interval
  <2>2. Cardinality(1 .. len[l]) = IF 1 > len[l] THEN 0 ELSE len[l] - 1 + 1
    BY <1>4, FS_Interval
  <2> QED BY <1>4, <2>1, <2>2
<1>6. len[l] <= Cardinality(nodes)
  <2> SUFFICES ASSUME len[l] > Cardinality(nodes) PROVE FALSE
    BY <1>3, <1>4
  <2> DEFINE f == [i \in 1 .. len[l] |-> at[l][i]]
  <2>1. f \in [1 .. len[l] -> nodes] BY <1>4 DEF Owns, Covers, Cells
  <2>2. \E x, y \in 1 .. len[l] : x # y /\ f[x] = f[y]
    <3> DEFINE S == 1 .. len[l]
    <3>1. Cardinality(nodes) < Cardinality(S) /\ IsFiniteSet(S) BY <1>5
    <3>2. f \in [S -> nodes] BY <2>1
    <3> HIDE DEF f, S
    <3>3. \E x, y \in S : x # y /\ f[x] = f[y] BY <1>2, <3>1, <3>2, FS_PigeonHole
    <3> QED BY <3>3 DEF S
  <2> QED BY <1>4, <2>2 DEF Owns, Apart, Cells
<1> QED BY <1>2, <1>3, <1>6 DEF M

(* Every set of natural numbers with an element has a least one. *)
LEMMA LeastNatural ==
    ASSUME NEW B, B \subseteq Nat, B # {}
    PROVE  \E x \in B : \A y \in B : x <= y
<1> DEFINE T == {0 .. x : x \in B}
<1>1. T \subseteq FiniteSubsetsOf(Nat)
  <2> SUFFICES ASSUME NEW x \in B PROVE 0 .. x \in FiniteSubsetsOf(Nat)
    OBVIOUS
  <2>1. IsFiniteSet(0 .. x)
    <3>1. x \in Int /\ 0 \in Int OBVIOUS
    <3> QED BY <3>1, FS_Interval, Zenon
  <2>2. 0 .. x \subseteq Nat OBVIOUS
  <2> QED BY <2>1, <2>2 DEF FiniteSubsetsOf
<1>2. IsWellFoundedOn(StrictSubsetOrdering(Nat), FiniteSubsetsOf(Nat))
  BY FS_StrictSubsetOrderingWellFounded
<1>3. T # {} OBVIOUS
<1>4. PICK t \in T : \A u \in T : <<u, t>> \notin StrictSubsetOrdering(Nat)
  <2> HIDE DEF T
  <2> QED BY <1>1, <1>2, <1>3, WFMin, Zenon
<1>5. PICK x \in B : t = 0 .. x OBVIOUS
<1>6. ASSUME NEW y \in B, y < x PROVE FALSE
  <2>1. 0 .. y \in T OBVIOUS
  <2>2. 0 .. y \subseteq 0 .. x /\ 0 .. y # 0 .. x
    <3>1. x \in 0 .. x /\ x \notin 0 .. y BY <1>6
    <3> QED BY <3>1, <1>6
  <2>3. 0 .. y \in SUBSET Nat /\ 0 .. x \in SUBSET Nat OBVIOUS
  <2>4. <<0 .. y, 0 .. x>> \in StrictSubsetOrdering(Nat)
    BY <2>2, <2>3, Zenon DEF StrictSubsetOrdering
  <2> QED BY <2>1, <2>4, <1>4, <1>5
<1> QED BY <1>6

(* The walk along the next pointers finds the list's nodes. *)
LEMMA ChainIsCells ==
    ASSUME TypeOK, pc = "idle", NEW at, NEW len, Shape(at, len), NEW l \in Lists
    PROVE  Chain(l) = [i \in 1 .. len[l] |-> at[l][i]]
<1> DEFINE walk == [n \in 1 .. M |-> IF first[l] = Wild THEN Wild ELSE at[l][n]]
           Walks(f) == f = [n \in 1 .. M |-> IF n = 1 THEN first[l] ELSE After[f[n - 1]]]
<1> USE DEF Shape, Owns
<1>1. M \in Nat /\ len[l] \in Nat /\ len[l] <= M BY LenBound, CellsEnd
<1>2. \/ first[l] = at[l][1] /\ first[l] # Wild
      \/ len[l] = 0 /\ first[l] = Wild
  BY CellsEnd DEF Heads
<1>3. ASSUME NEW n \in 1 .. M, n # 1, first[l] # Wild
      PROVE  After[at[l][n - 1]] = at[l][n]
  <2>1. n - 1 \in Nat /\ n \in Nat BY <1>3, <1>1
  <2>2. CASE at[l][n - 1] \in Nodes
    <3>1. at[l][n - 1] \in live BY <2>1, <2>2 DEF Covers
    <3>2. next[at[l][n - 1]] = at[l][(n - 1) + 1] BY <2>1, <2>2 DEF Links
    <3> QED BY <3>1, <3>2, <2>1, <2>2 DEF After, Pointers
  <2>3. CASE at[l][n - 1] \notin Nodes
    <3>1. n - 1 > len[l] /\ n > len[l] BY <1>1, <1>3, <2>1, <2>3, CellsEnd
    <3>2. at[l][n - 1] = Null /\ at[l][n] = Null BY <2>1, <3>1, CellsEnd
    <3> QED BY <3>2 DEF After, Pointers, TypeOK
  <2> QED BY <2>2, <2>3
<1>4. Walks(walk)
  <2>1. ASSUME NEW n \in 1 .. M
        PROVE  walk[n] = IF n = 1 THEN first[l] ELSE After[walk[n - 1]]
    <3>1. CASE n = 1 BY <3>1, <1>2
    <3>2. CASE n # 1 /\ first[l] # Wild
      <4>1. n - 1 \in 1 .. M BY <3>2, <1>1
      <4> QED BY <4>1, <3>2, <1>3
    <3>3. CASE n # 1 /\ first[l] = Wild
      <4>1. n - 1 \in 1 .. M BY <3>3, <1>1
      <4>2. After[Wild] = Wild BY DEF After, Pointers, TypeOK
      <4> QED BY <4>1, <4>2, <3>3
    <3> QED BY <3>1, <3>2, <3>3
  <2> QED BY <2>1
<1>5. ASSUME NEW f, Walks(f) PROVE f = walk
  <2> DEFINE B == {n \in 1 .. M : f[n] # walk[n]}
  <2> SUFFICES ASSUME B # {} PROVE FALSE
    BY <1>5
  <2>1. B \subseteq Nat BY <1>1
  <2>2. PICK n \in B : \A m \in B : n <= m
    <3> HIDE DEF B
    <3> QED BY <2>1, LeastNatural
  <2>3. n # 1 BY <1>4, <1>5
  <2>4. n - 1 \in 1 .. M /\ n - 1 \notin B BY <2>2, <2>3, <1>1
  <2>5. f[n - 1] = walk[n - 1] BY <2>4
  <2>6. f[n] = After[f[n - 1]] BY <1>5, <2>3
  <2>7. walk[n] = After[walk[n - 1]] BY <1>4, <2>3
  <2> QED BY <2>5, <2>6, <2>7
<1>6. (CHOOSE f : Walks(f)) = walk
  <2> HIDE DEF Walks, walk
  <2> QED BY <1>4, <1>5
<1>7. Chain(l) = [n \in {m \in 1 .. M : walk[m] \in live} |-> walk[n]]
  <2>1. Chain(l) = LET w == CHOOSE f : Walks(f)
                   IN  [n \in {m \in 1 .. M : w[m] \in live} |-> w[n]]
    BY DEF Chain
  <2> HIDE DEF Walks, walk
  <2> QED BY <2>1, <1>6
<1>8. \A n \in 1 .. M : walk[n] \in live <=> n <= len[l]
  <2> SUFFICES ASSUME NEW n \in 1 .. M PROVE walk[n] \in live <=> n <= len[l]
    OBVIOUS
  <2>1. n \in Nat /\ 1 <= n BY <1>1
  <2>2. Wild \notin live /\ live \subseteq Nodes BY DEF TypeOK
  <2> QED BY <1>2, <2>1, <2>2 DEF Cells, Covers
<1>9. {m \in 1 .. M : walk[m] \in live} = 1 .. len[l] BY <1>1, <1>8
<1>10. \A n \in 1 .. len[l] : walk[n] = at[l][n] BY <1>1, <1>2
<1> HIDE DEF walk
<1> QED BY <1>7, <1>9, <1>10

(* What the invariant needs to be said in terms of chains. *)
LEMMA ChainFacts ==
    ASSUME TypeOK, pc = "idle", NEW at, NEW len, Shape(at, len), NEW l \in Lists
    PROVE  /\ Chain(l) \in Seq(Nodes)
           /\ Len(Chain(l)) = len[l]
           /\ \A i \in 1 .. len[l] : Chain(l)[i] = at[l][i]
           /\ first[l] \in live <=> len[l] > 0
           /\ LastRight(l) <=> (len[l] > 0 => last[l] = at[l][len[l]])
<1> USE DEF Shape, Owns
<1>1. Chain(l) = [i \in 1 .. len[l] |-> at[l][i]] BY ChainIsCells
<1>2. len[l] \in Nat /\ \A i \in 1 .. len[l] : at[l][i] \in Nodes BY CellsEnd
<1>3. Chain(l) \in Seq(Nodes) /\ Len(Chain(l)) = len[l] BY <1>1, <1>2
<1>4. first[l] \in live <=> len[l] > 0
  <2>1. Wild \notin live /\ Null \notin live BY DEF TypeOK
  <2>2. CASE len[l] > 0
    <3>1. first[l] = at[l][1] /\ at[l][1] \in Nodes BY <1>2, <2>2 DEF Heads
    <3> QED BY <3>1, <2>2 DEF Covers
  <2>3. CASE len[l] = 0
    <3>1. at[l][1] = Null BY <2>3, CellsEnd
    <3> QED BY <3>1, <2>1, <2>3 DEF Heads
  <2> QED BY <1>2, <2>2, <2>3
<1>5. len[l] > 0 => Last(Chain(l)) = at[l][len[l]]
  BY <1>1, <1>2, <1>3 DEF Last
<1> QED BY <1>1, <1>3, <1>4, <1>5 DEF LastRight

(* A new node f is linked between two neighbours. *)
LEMMA InsertLinks ==
    ASSUME TypeOK, NEW at, NEW len, Owns(at, len, live), Links(at), pc # "reverse",
           pc' # "reverse",
           NEW l \in Lists, NEW p \in Nat, 1 <= p, p <= len[l] + 1,
           NEW f \in Nodes \ live,
           next' = [n \in Nodes |-> CASE n = f -> at[l][p]
                                      [] n = at[l][p - 1] -> f
                                      [] OTHER -> next[n]]
    PROVE  Links([at EXCEPT ![l] = Inserted(@, p, f)])'
<1> DEFINE a == [at EXCEPT ![l] = Inserted(@, p, f)]
<1>0. /\ at \in [Lists -> [Nat -> Nodes \cup {Null}]] /\ len[l] \in Nat
      /\ Apart(at) /\ Covers(at, live)
      /\ \A i \in Nat : at[l][i] \in Nodes <=> 1 <= i /\ i <= len[l]
  BY DEF Owns, Cells
<1>1. \A i \in Nat : a[l][i] = IF i < p THEN at[l][i] ELSE IF i = p THEN f ELSE at[l][i - 1]
  BY <1>0 DEF Inserted
<1>2. \A m \in Lists \ {l} : a[m] = at[m] BY <1>0
<1>3. f \notin live /\ \A m \in Lists, i \in Nat : at[m][i] # f BY <1>0 DEF Covers
<1>4. \A m \in Lists, i \in Nat : at[m][i] \in Nodes => next[at[m][i]] = at[m][i + 1]
  BY DEF Links
<1> HIDE DEF a
<1> SUFFICES ASSUME NEW m \in Lists, NEW i \in Nat, a[m][i] \in Nodes
             PROVE  next'[a[m][i]] = a[m][i + 1]
  BY DEF Links, a
<1>45. \A x \in Nodes : x # f /\ x # at[l][p - 1] => next'[x] = next[x]
  OBVIOUS
<1>5. CASE m # l
  <2>1. at[m][i] \in Nodes /\ a[m][i] = at[m][i] /\ a[m][i + 1] = at[m][i + 1]
    BY <1>2, <1>5
  <2>2. at[m][i] # at[l][p - 1] BY <1>0, <1>5, <2>1 DEF Apart
  <2>3. at[m][i] # f BY <1>3
  <2> QED BY <1>4, <1>45, <2>1, <2>2, <2>3
<1>6. CASE m = l /\ i < p - 1
  <2>1. a[l][i] = at[l][i] /\ a[l][i + 1] = at[l][i + 1] BY <1>1, <1>6
  <2>2. at[l][i] \in Nodes /\ p - 1 \in Nat /\ i # p - 1 BY <1>6, <2>1
  <2>3. at[l][i] # at[l][p - 1] BY <1>0, <2>2 DEF Apart
  <2>4. at[l][i] # f BY <1>3
  <2>5. next'[at[l][i]] = next[at[l][i]] BY <1>45, <2>2, <2>3, <2>4
  <2>6. next'[a[l][i]] = a[l][i + 1] BY <1>4, <2>1, <2>2, <2>5, Zenon
  <2> QED BY <1>6, <2>6, Zenon
<1>7. CASE m = l /\ i = p - 1
  <2>1. a[l][i] = at[l][p - 1] /\ a[l][i + 1] = f BY <1>1, <1>7
  <2> QED BY <1>3, <1>7, <2>1
<1>8. CASE m = l /\ i = p
  <2>1. a[l][i] = f /\ a[l][i + 1] = at[l][p]
    <3>1. i \in Nat /\ i + 1 \in Nat /\ i + 1 # p /\ ~(i + 1 < p) /\ (i + 1) - 1 = p
      BY <1>8
    <3>2. a[l][i] = f BY <1>1, <1>8
    <3>3. a[l][i + 1] = at[l][(i + 1) - 1] BY <1>1, <3>1
    <3> QED BY <3>1, <3>2, <3>3
  <2>2. next'[f] = at[l][p] BY <1>3
  <2> QED BY <1>8, <2>1, <2>2
<1>9. CASE m = l /\ i > p
  <2>1. i - 1 \in Nat /\ a[l][i] = at[l][i - 1] /\ a[l][i + 1] = at[l][i]
    <3>1. /\ i - 1 \in Nat /\ ~(i < p) /\ i # p
          /\ i + 1 \in Nat /\ ~(i + 1 < p) /\ i + 1 # p /\ (i + 1) - 1 = i
      BY <1>9
    <3>2. a[l][i] = at[l][i - 1] BY <1>1, <3>1
    <3>3. a[l][i + 1] = at[l][(i + 1) - 1] BY <1>1, <3>1
    <3> QED BY <3>1, <3>2, <3>3
  <2>2. at[l][i - 1] \in Nodes /\ (i - 1) + 1 = i BY <1>9, <2>1
  <2>3. at[l][i - 1] # at[l][p - 1]
    <3>1. p - 1 \in Nat /\ i - 1 # p - 1 BY <1>9
    <3> QED BY <1>0, <2>1, <2>2, <3>1 DEF Apart
  <2>4. next[at[l][i - 1]] = at[l][i] BY <1>4, <2>1, <2>2
  <2>5. at[l][i - 1] # f BY <1>3, <2>1
  <2>6. next'[at[l][i - 1]] = next[at[l][i - 1]] BY <1>45, <2>2, <2>3, <2>5
  <2>7. next'[a[l][i]] = a[l][i + 1] BY <2>1, <2>4, <2>6, Zenon
  <2> QED BY <1>9, <2>7, Zenon
<1> QED BY <1>5, <1>6, <1>7, <1>8, <1>9

(* A node is unlinked and its neighbours are linked to each other. *)
LEMMA RemoveLinks ==
    ASSUME TypeOK, NEW at, NEW len, Owns(at, len, live), Links(at), pc # "reverse",
           pc' # "reverse",
           NEW l \in Lists, NEW p \in Nat, 1 <= p, p <= len[l],
           next' = [n \in Nodes |-> CASE n = at[l][p] -> Null
                                      [] n = at[l][p - 1] -> at[l][p + 1]
                                      [] OTHER -> next[n]]
    PROVE  Links([at EXCEPT ![l] = Removed(@, p)])'
<1> DEFINE a == [at EXCEPT ![l] = Removed(@, p)]
<1>0. /\ at \in [Lists -> [Nat -> Nodes \cup {Null}]] /\ len[l] \in Nat
      /\ Apart(at) /\ Covers(at, live)
      /\ \A i \in Nat : at[l][i] \in Nodes <=> 1 <= i /\ i <= len[l]
  BY DEF Owns, Cells
<1>1. \A i \in Nat : a[l][i] = IF i < p THEN at[l][i] ELSE at[l][i + 1]
  BY <1>0 DEF Removed
<1>2. \A m \in Lists \ {l} : a[m] = at[m] BY <1>0
<1>4. \A m \in Lists, i \in Nat : at[m][i] \in Nodes => next[at[m][i]] = at[m][i + 1]
  BY DEF Links
<1> HIDE DEF a
<1> SUFFICES ASSUME NEW m \in Lists, NEW i \in Nat, a[m][i] \in Nodes
             PROVE  next'[a[m][i]] = a[m][i + 1]
  BY DEF Links, a
<1>45. \A x \in Nodes : x # at[l][p] /\ x # at[l][p - 1] => next'[x] = next[x]
  OBVIOUS
<1>5. CASE m # l
  <2>1. at[m][i] \in Nodes /\ a[m][i] = at[m][i] /\ a[m][i + 1] = at[m][i + 1]
    BY <1>2, <1>5
  <2>2. at[m][i] # at[l][p - 1]
    <3>1. p - 1 \in Nat OBVIOUS
    <3>2. \A j \in Nat : at[m][i] # at[l][j] BY <1>0, <1>5, <2>1 DEF Apart
    <3> QED BY <3>1, <3>2
  <2>3. at[m][i] # at[l][p] BY <1>0, <1>5, <2>1 DEF Apart
  <2> QED BY <1>4, <1>45, <2>1, <2>2, <2>3
<1>6. CASE m = l /\ i < p - 1
  <2>1. a[l][i] = at[l][i] /\ a[l][i + 1] = at[l][i + 1] BY <1>1, <1>6
  <2>2. at[l][i] # at[l][p - 1] BY <1>0, <1>6, <2>1 DEF Apart
  <2>3. at[l][i] # at[l][p] BY <1>0, <1>6, <2>1 DEF Apart
  <2> QED BY <1>4, <1>45, <1>6, <2>1, <2>2, <2>3
<1>7. CASE m = l /\ i = p - 1
  <2>1. a[l][i] = at[l][p - 1] /\ a[l][i + 1] = at[l][p + 1] BY <1>1, <1>7
  <2>2. at[l][i] # at[l][p] BY <1>0, <1>7, <2>1 DEF Apart
  <2> QED BY <1>7, <2>1, <2>2
<1>8. CASE m = l /\ i >= p
  <2>1. a[l][i] = at[l][i + 1] /\ a[l][i + 1] = at[l][(i + 1) + 1] BY <1>1, <1>8
  <2>2. at[l][i + 1] # at[l][p - 1] BY <1>0, <1>8, <2>1 DEF Apart
  <2>3. at[l][i + 1] # at[l][p] BY <1>0, <1>8, <2>1 DEF Apart
  <2>4. next[at[l][i + 1]] = at[l][(i + 1) + 1] BY <1>4, <1>8, <2>1
  <2> QED BY <1>45, <1>8, <2>1, <2>2, <2>3, <2>4
<1> QED BY <1>5, <1>6, <1>7, <1>8

(* List l takes in the new node f at place p, between calls or as the target
   of slist_clone. *)
Inserts(at, len, l, p, f) ==
    /\ pc \in {"idle", "clone"} /\ UNCHANGED <<pc, list, to>>
    /\ 1 <= p /\ p <= len[l] + 1
    /\ live' = live \cup {f}
    /\ next' = [n \in Nodes |-> CASE n = f -> at[l][p]
                                  [] n = at[l][p - 1] -> f
                                  [] OTHER -> next[n]]
    /\ first' = [first EXCEPT ![l] = IF p = 1 THEN f ELSE @]
    /\ \A m \in Lists :
           ~(pc = "clone" /\ m = to) =>
               size'[m] = IF m = l THEN size[m] + 1 ELSE size[m]
    /\ \A m \in Lists \ {l} : last[m] \in live \cup {Null} => last'[m] = last[m]
    /\ l \notin Stacks \cup cloned' /\ ~(pc = "clone" /\ l = to) =>
           last'[l] = IF p = len[l] + 1 THEN f ELSE at[l][len[l]]
    /\ cloned \ {l} \subseteq cloned'
    /\ Loops([at EXCEPT ![l] = Inserted(@, p, f)], [len EXCEPT ![l] = @ + 1])'

(* Lists a with lengths n are at with node f put at place p of list l, or at
   without the node at that place. *)
Grown(at, len, l, p, f, a, n) ==
    a = [at EXCEPT ![l] = Inserted(@, p, f)] /\ n = [len EXCEPT ![l] = @ + 1]
Shrunk(at, len, l, p, a, n) ==
    a = [at EXCEPT ![l] = Removed(@, p)] /\ n = [len EXCEPT ![l] = @ - 1]

(* An insertion: the node goes to its place in the list. *)
LEMMA InsertShape ==
    ASSUME TypeOK, NEW at, NEW len, Shape(at, len),
           NEW l \in Lists, NEW p \in Nat, NEW f \in Nodes \ live,
           Inserts(at, len, l, p, f)
    PROVE  \E a, n : Shape(a, n)' /\ Grown(at, len, l, p, f, a, n)
<1> USE DEF Shape, Owns, Inserts
<1> DEFINE a == [at EXCEPT ![l] = Inserted(@, p, f)]
           n == [len EXCEPT ![l] = @ + 1]
<1>0. Cells(at, len) /\ len[l] \in Nat BY CellsEnd
<1>1. Owns(a, n, live \cup {f}) BY OwnsMore
<1>2. Links(a)' BY InsertLinks
<1>3. Loops(a, n)' OBVIOUS
<1>4. /\ \A m \in Lists \ {l} : a[m] = at[m] /\ n[m] = len[m]
      /\ n[l] = len[l] + 1
      /\ \A i \in Nat : a[l][i] = IF i < p THEN at[l][i] ELSE IF i = p THEN f ELSE at[l][i - 1]
  BY <1>0 DEF Inserted, Cells
<1> HIDE DEF a, n
<1>5. Owns(a, n, live)' BY <1>1
<1>6. Heads(a, n)'
  <2>1. \A m \in Lists \ {l} : first'[m] = first[m] BY DEF TypeOK
  <2>2. first'[l] = a[l][1]
    <3>1. first'[l] = IF p = 1 THEN f ELSE first[l] BY DEF TypeOK
    <3>2. p # 1 => first[l] = at[l][1] BY <1>0 DEF Heads
    <3> QED BY <1>4, <3>1, <3>2
  <2> QED BY <1>4, <2>1, <2>2 DEF Heads
<1>7. Sizes(n)' BY <1>4 DEF Sizes
<1>8. Ends(a, n)'
  <2>1. \A m \in Lists \ {l} : n[m] > 0 => at[m][n[m]] \in live
    BY <1>0, <1>4 DEF Cells, Covers
  <2>2. a[l][n[l]] = IF p = len[l] + 1 THEN f ELSE at[l][len[l]] BY <1>0, <1>4
  <2>3. n[l] > 0 BY <1>0, <1>4
  <2>4. ASSUME NEW m \in Queues, n[m] = 0 PROVE last'[m] = Null
    <3>1. m \in Lists /\ m # l BY <2>3, <2>4 DEF Lists
    <3> QED BY <3>1, <1>4, <2>4 DEF Ends
  <2>5. ASSUME NEW m \in Lists \ (Stacks \cup cloned'), n[m] > 0, m # l,
               ~(pc = "clone" /\ m = to)
        PROVE  last'[m] = a[m][n[m]]
    <3>1. m \notin cloned BY <2>5
    <3>2. last[m] = at[m][len[m]] BY <1>4, <2>5, <3>1 DEF Ends
    <3> QED BY <1>4, <2>1, <2>5, <3>2
  <2> QED BY <2>2, <2>4, <2>5 DEF Ends
<1>9. Shape(a, n)' BY <1>2, <1>3, <1>5, <1>6, <1>7, <1>8
<1> QED BY <1>9 DEF Grown, a, n

(* List l, which no loop has taken apart, gives back the node at place p; its
   last becomes t. *)
Removes(at, len, l, p, t) ==
    /\ pc \in {"idle", "take", "delete"} /\ UNCHANGED <<pc, list, to, prev>>
    /\ 1 <= p /\ p <= len[l]
    /\ live' = live \ {at[l][p]}
    /\ next' = [n \in Nodes |-> CASE n = at[l][p] -> Null
                                  [] n = at[l][p - 1] -> at[l][p + 1]
                                  [] OTHER -> next[n]]
    /\ first' = [first EXCEPT ![l] = IF p = 1 THEN at[l][2] ELSE @]
    /\ last' = Dangling([last EXCEPT ![l] = t])
    /\ size' = [size EXCEPT ![l] = @ - 1]
    /\ cloned \ {l} \subseteq cloned'
    /\ l \notin Stacks \cup cloned' /\ len[l] > 1 =>
           t = IF p = len[l] THEN at[l][p - 1] ELSE at[l][len[l]]
    /\ l \in Queues /\ len[l] = 1 => t = Null
    /\ Loops([at EXCEPT ![l] = Removed(@, p)], [len EXCEPT ![l] = @ - 1])'

(* A removal: the nodes behind move up. *)
LEMMA RemoveShape ==
    ASSUME TypeOK, NEW at, NEW len, Shape(at, len),
           NEW l \in Lists, NEW p \in Nat, NEW t, Removes(at, len, l, p, t)
    PROVE  \E a, n : Shape(a, n)' /\ Shrunk(at, len, l, p, a, n)
<1> USE DEF Shape, Owns, Removes
<1> DEFINE a == [at EXCEPT ![l] = Removed(@, p)]
           n == [len EXCEPT ![l] = @ - 1]
<1>0. Cells(at, len) /\ len[l] \in Nat /\ len[l] > 0 BY CellsEnd
<1>1. Owns(a, n, live \ {at[l][p]}) BY OwnsLess
<1>2. Links(a)' BY RemoveLinks
<1>3. Loops(a, n)' OBVIOUS
<1>4. /\ \A m \in Lists \ {l} : a[m] = at[m] /\ n[m] = len[m]
      /\ n[l] = len[l] - 1
      /\ \A i \in Nat : a[l][i] = IF i < p THEN at[l][i] ELSE at[l][i + 1]
  BY <1>0 DEF Removed, Cells
<1> HIDE DEF a, n
<1>5. Owns(a, n, live)' BY <1>1
<1>6. Heads(a, n)'
  <2>1. \A m \in Lists \ {l} : first'[m] = first[m] BY DEF TypeOK
  <2>2. first'[l] = a[l][1]
    <3>1. first'[l] = IF p = 1 THEN at[l][2] ELSE first[l] BY DEF TypeOK
    <3>2. first[l] = at[l][1] BY <1>0 DEF Heads
    <3> QED BY <1>4, <3>1, <3>2
  <2> QED BY <1>4, <2>1, <2>2 DEF Heads
<1>7. Sizes(n)' BY <1>4 DEF Sizes, TypeOK
<1>8. Ends(a, n)'
  <2>1. at[l][p] \in live BY <1>0 DEF Cells, Covers
  <2>2. \A m \in Lists \ {l} : last[m] \in live' \cup {Null} => last'[m] = last[m]
    BY DEF TypeOK, Dangling
  <2>3. t \in live' \cup {Null} => last'[l] = t BY DEF TypeOK, Dangling
  <2>4. ASSUME NEW m \in Queues, n[m] = 0 PROVE last'[m] = Null
    <3>1. m \in Lists BY DEF Lists
    <3>2. CASE m # l BY <3>1, <3>2, <1>4, <2>2, <2>4 DEF Ends
    <3>3. CASE m = l BY <3>3, <1>0, <1>4, <2>3, <2>4
    <3> QED BY <3>2, <3>3
  <2>5. ASSUME NEW m \in Lists \ (Stacks \cup cloned'), n[m] > 0, m # l
        PROVE  last'[m] = a[m][n[m]]
    <3>1. m \notin cloned BY <2>5
    <3>2. last[m] = at[m][len[m]] BY <1>4, <2>5, <3>1 DEF Ends
    <3>3. at[m][len[m]] \in live BY <1>0, <1>4, <2>5 DEF Cells, Covers
    <3>4. at[m][len[m]] # at[l][p] BY <1>0, <2>1, <2>5, <3>3 DEF Apart, Cells
    <3> QED BY <1>4, <2>2, <2>5, <3>2, <3>3, <3>4
  <2>6. ASSUME l \notin Stacks \cup cloned', n[l] > 0 PROVE last'[l] = a[l][n[l]]
    <3>1. t = a[l][n[l]] BY <1>0, <1>4, <2>6
    <3>2. a[l][n[l]] \in live' BY <1>0, <1>4, <1>5, <2>6 DEF Cells, Covers
    <3> QED BY <3>1, <3>2, <2>3
  <2> QED BY <2>4, <2>5, <2>6 DEF Ends
<1>9. Shape(a, n)' BY <1>2, <1>3, <1>5, <1>6, <1>7, <1>8
<1> QED BY <1>9 DEF Shrunk, a, n

(* A step that changes no list. *)
LEMMA IdleShape ==
    ASSUME NEW at, NEW len, Shape(at, len),
           pc \in {"idle", "take", "delete"}, pc' \in {"idle", "take", "delete", "free"},
           UNCHANGED <<live, next, heads, cloned>>, Loops(at, len)'
    PROVE  Shape(at, len)'
<1>1. Owns(at, len, live)' BY DEF Shape
<1>2. Links(at)' BY DEF Shape, Links
<1>3. Heads(at, len)' BY DEF Shape, Heads, heads
<1>4. Sizes(len)' BY DEF Shape, Sizes, heads
<1>5. Ends(at, len)' BY DEF Shape, Ends, heads
<1> QED BY <1>1, <1>2, <1>3, <1>4, <1>5 DEF Shape

(* What the invariant says of a list between calls. *)
LEMMA HeadFacts ==
    ASSUME TypeOK, NEW at, NEW len, Shape(at, len), NEW l \in Lists,
           ~(pc = "free" /\ l = list), first[l] # Wild
    PROVE  /\ Cells(at, len) /\ len[l] \in Nat /\ size[l] \in Nat
           /\ first[l] = at[l][1]
           /\ first[l] \in live <=> len[l] > 0
           /\ first[l] = Null <=> len[l] = 0
           /\ at[l][0] = Null
           /\ Null \notin live /\ Null \notin Nodes
<1>1. Cells(at, len) /\ Covers(at, live) BY DEF Shape, Owns
<1>2. len[l] \in Nat /\ at[l][0] = Null BY <1>1, CellsEnd
<1>3. first[l] = at[l][1] BY DEF Shape, Heads
<1>4. Null \notin live /\ Null \notin Nodes BY DEF TypeOK
<1>5. len[l] > 0 => at[l][1] \in live BY <1>1, <1>2 DEF Cells, Covers
<1>6. len[l] = 0 => at[l][1] = Null BY <1>1, CellsEnd
<1>7. size[l] \in Nat
  <2>1. M \in Nat BY FS_CardinalityType DEF M
  <2> QED BY <2>1 DEF TypeOK
<1> QED BY <1>1, <1>2, <1>3, <1>4, <1>5, <1>6, <1>7

(* malloc returns a node that is not in use. *)
LEMMA FreshNode ==
    ASSUME TypeOK, live # Nodes
    PROVE  Fresh \in Nodes \ live
<1>1. \E n \in Nodes : n \notin live BY DEF TypeOK
<1> QED BY <1>1 DEF Fresh

(* enqueue, slist_append. *)
LEMMA AppendShape ==
    ASSUME TypeOK, ~astray, NEW at, NEW len, Shape(at, len),
           NEW l \in Queues \cup SLists, NEW k \in Keys, AppendTo(l, k), ~astray'
    PROVE  \E a, n : Shape(a, n)' /\ Grown(at, len, l, len[l] + 1, Fresh, a, n)
<1>1. pc = "idle" /\ l \in Lists /\ UNCHANGED <<pc, list, to, current, prev>>
  BY DEF AppendTo, AtOnce, Idle, call, Lists
<1>2. live # Nodes BY DEF AppendTo, MakeNode
<1>3. PICK f \in Nodes \ live : f = Fresh BY <1>2, FreshNode
<1>4. first[l] # Wild BY DEF AppendTo
<1>5. PICK p \in Nat : p = len[l] + 1 BY <1>1, <1>4, HeadFacts
<1>6. Cells(at, len) BY DEF Shape, Owns
<1>7. /\ len[l] \in Nat /\ p - 1 = len[l] /\ at[l][p] = Null
      /\ len[l] = 0 => at[l][p - 1] = Null
      /\ len[l] > 0 => at[l][p - 1] \in Nodes
  BY <1>1, <1>5, <1>6, CellsEnd
<1>8. len[l] > 0 => last[l] = at[l][p - 1]
  <2> SUFFICES ASSUME len[l] > 0 PROVE last[l] = at[l][p - 1]
    OBVIOUS
  <2>1. first[l] # Null BY <1>1, <1>4, HeadFacts
  <2>2. LastRight(l) BY <2>1 DEF AppendTo
  <2> QED BY <1>1, <1>7, <2>2, ChainFacts
<1>9. /\ live' = live \cup {f}
      /\ next' = [n \in Nodes |-> CASE n = f -> at[l][p]
                                   [] n = at[l][p - 1] -> f
                                   [] OTHER -> next[n]]
      /\ first' = [first EXCEPT ![l] = IF p = 1 THEN f ELSE @]
      /\ last' = Dangling([last EXCEPT ![l] = f])
      /\ cloned \ {l} \subseteq cloned'
  <2>1. CASE first[l] = Null
    <3>1. len[l] = 0 /\ p = 1 /\ at[l][p - 1] = Null
      BY <1>1, <1>4, <1>5, <1>7, <2>1, HeadFacts
    <3>2. MakeNode(k, Null, Null) /\ SetEnds(l, f, f)
      BY <1>3, <2>1, Zenon DEF AppendTo
    <3>3. next' = [n \in Nodes |-> CASE n = f -> at[l][p]
                                     [] n = at[l][p - 1] -> f
                                     [] OTHER -> next[n]]
      BY <1>3, <1>7, <3>1, <3>2 DEF MakeNode, TypeOK
    <3>4. live' = live \cup {f} BY <1>3, <3>2 DEF MakeNode
    <3>5. first' = [first EXCEPT ![l] = IF p = 1 THEN f ELSE @]
      BY <3>1, <3>2 DEF SetEnds
    <3> QED BY <3>2, <3>3, <3>4, <3>5 DEF SetEnds
  <2>2. CASE first[l] # Null
    <3>1. len[l] > 0 /\ p # 1 BY <1>1, <1>4, <1>5, <2>2, HeadFacts
    <3>2. MakeNode(k, Null, last[l]) /\ SetEnds(l, first[l], f)
      BY <1>3, <2>2, Zenon DEF AppendTo
    <3>3. next' = [n \in Nodes |-> CASE n = f -> at[l][p]
                                     [] n = at[l][p - 1] -> f
                                     [] OTHER -> next[n]]
      BY <1>3, <1>7, <1>8, <3>1, <3>2 DEF MakeNode, TypeOK
    <3>4. live' = live \cup {f} BY <1>3, <3>2 DEF MakeNode
    <3>5. first' = [first EXCEPT ![l] = IF p = 1 THEN f ELSE @]
      BY <3>1, <3>2 DEF SetEnds
    <3> QED BY <3>2, <3>3, <3>4, <3>5 DEF SetEnds
  <2> QED BY <2>1, <2>2
<1>10. \A m \in Lists : size'[m] = IF m = l THEN size[m] + 1 ELSE size[m]
  BY DEF AppendTo, Grows, TypeOK
<1>11. /\ \A m \in Lists \ {l} : last[m] \in live \cup {Null} => last'[m] = last[m]
       /\ last'[l] = f
  BY <1>1, <1>3, <1>9 DEF Dangling, TypeOK
<1>12. Loops([at EXCEPT ![l] = Inserted(@, p, f)], [len EXCEPT ![l] = @ + 1])'
  BY <1>1 DEF Shape, Loops
<1>13. Inserts(at, len, l, p, f)
  <2>1. pc \in {"idle", "clone"} /\ UNCHANGED <<pc, list, to>> BY <1>1
  <2>2. 1 <= p /\ p <= len[l] + 1 BY <1>5, <1>7
  <2>3. l \notin Stacks \cup cloned' /\ ~(pc = "clone" /\ l = to) =>
           last'[l] = IF p = len[l] + 1 THEN f ELSE at[l][len[l]]
    BY <1>5, <1>11
  <2> QED BY <2>1, <2>2, <2>3, <1>9, <1>10, <1>11, <1>12, Zenon DEF Inserts
<1> QED BY <1>1, <1>3, <1>5, <1>13, InsertShape

(* stack_push, slist_put. *)
LEMMA PutShape ==
    ASSUME TypeOK, ~astray, NEW at, NEW len, Shape(at, len),
           NEW l \in Stacks \cup SLists, NEW k \in Keys, PutFirst(l, k), ~astray'
    PROVE  \E a, n : Shape(a, n)' /\ Grown(at, len, l, 1, Fresh, a, n)
<1>1. pc = "idle" /\ l \in Lists /\ UNCHANGED <<pc, list, to, current, prev>>
  BY DEF PutFirst, AtOnce, Idle, call, Lists
<1>2. live # Nodes BY DEF PutFirst, MakeNode
<1>3. PICK f \in Nodes \ live : f = Fresh BY <1>2, FreshNode
<1>4. first[l] # Wild BY DEF PutFirst
<1>5. PICK p \in Nat : p = 1 OBVIOUS
<1>6. /\ Cells(at, len) /\ len[l] \in Nat
      /\ first[l] = at[l][p] /\ at[l][p - 1] = Null /\ Null \notin Nodes
      /\ first[l] = Null <=> len[l] = 0
  BY <1>1, <1>4, <1>5, HeadFacts
<1>7. /\ live' = live \cup {f}
      /\ next' = [n \in Nodes |-> CASE n = f -> at[l][p]
                                   [] n = at[l][p - 1] -> f
                                   [] OTHER -> next[n]]
      /\ first' = [first EXCEPT ![l] = IF p = 1 THEN f ELSE @]
      /\ last' = Dangling([last EXCEPT
                    ![l] = IF l \in SLists /\ first[l] = Null THEN f ELSE last[l]])
      /\ cloned \ {l} \subseteq cloned'
      /\ len[l] > 0 => cloned' = cloned
  BY <1>3, <1>5, <1>6 DEF PutFirst, MakeNode, SetEnds, TypeOK
<1>8. \A m \in Lists : size'[m] = IF m = l THEN size[m] + 1 ELSE size[m]
  BY DEF PutFirst, Grows, TypeOK
<1>9. \A m \in Lists \ {l} : last[m] \in live \cup {Null} => last'[m] = last[m]
  BY <1>1, <1>7 DEF Dangling, TypeOK
<1>10. l \notin Stacks \cup cloned' => last'[l] = IF p = len[l] + 1 THEN f ELSE at[l][len[l]]
  <2> SUFFICES ASSUME l \notin Stacks \cup cloned'
               PROVE  last'[l] = IF p = len[l] + 1 THEN f ELSE at[l][len[l]]
    OBVIOUS
  <2>1. CASE len[l] = 0 BY <2>1, <1>1, <1>3, <1>5, <1>6, <1>7 DEF Dangling, TypeOK
  <2>2. CASE len[l] > 0
    <3>1. last[l] = at[l][len[l]] BY <1>1, <1>7, <2>2 DEF Shape, Ends
    <3>2. Covers(at, live) BY DEF Shape, Owns
    <3>3. last[l] \in live BY <1>1, <1>6, <2>2, <3>1, <3>2 DEF Cells, Covers
    <3> QED BY <1>1, <1>5, <1>6, <1>7, <2>2, <3>1, <3>3 DEF Dangling, TypeOK
  <2> QED BY <1>6, <2>1, <2>2
<1>11. Loops([at EXCEPT ![l] = Inserted(@, p, f)], [len EXCEPT ![l] = @ + 1])'
  BY <1>1 DEF Shape, Loops
<1>12. Inserts(at, len, l, p, f)
  <2>1. pc \in {"idle", "clone"} /\ UNCHANGED <<pc, list, to>> BY <1>1
  <2>2. 1 <= p /\ p <= len[l] + 1 BY <1>5, <1>6
  <2> QED BY <2>1, <2>2, <1>7, <1>8, <1>9, <1>10, <1>11, Zenon DEF Inserts
<1> QED BY <1>1, <1>3, <1>5, <1>12, InsertShape

(* dequeue, stack_pop and a step of queue_clear and stack_clear. *)
LEMMA TakeShape ==
    ASSUME TypeOK, NEW at, NEW len, Shape(at, len), NEW l \in Queues \cup Stacks,
           pc \in {"idle", "take"}, UNCHANGED <<pc, list, to, current, prev>>,
           ~IsEmpty(l), Take(l)
    PROVE  \E a, n : Shape(a, n)' /\ Shrunk(at, len, l, 1, a, n)
<1>1. l \in Lists /\ l \notin SLists /\ l \notin cloned BY DEF Lists, TypeOK
<1>2. first[l] # Wild
  <2>1. first[l] = at[l][1] BY <1>1 DEF Shape, Heads
  <2> QED BY <1>1, <2>1, CellsEnd DEF Shape, Owns
<1>3. /\ Cells(at, len) /\ len[l] \in Nat /\ at[l][0] = Null /\ Null \notin Nodes
      /\ first[l] = at[l][1]
      /\ first[l] = Null <=> len[l] = 0
  BY <1>1, <1>2, HeadFacts
<1>4. len[l] > 0
  <2>1. len[l] = 0 /\ l \in Queues => last[l] = Null BY DEF Shape, Ends
  <2> QED BY <1>3, <2>1 DEF IsEmpty
<1>5. PICK p \in Nat : p = 1 OBVIOUS
<1>6. size[l] = len[l] BY <1>1 DEF Shape, Sizes
<1>7. at[l][1] \in Nodes /\ next[at[l][1]] = at[l][2]
  <2>1. at[l][1] \in Nodes BY <1>1, <1>3, <1>4, CellsEnd
  <2>2. next[at[l][1]] = at[l][1 + 1] BY <1>1, <2>1 DEF Shape, Links
  <2> QED BY <2>1, <2>2
<1>8. PICK t : t = IF l \in Queues /\ size[l] = 1 THEN Null ELSE last[l] OBVIOUS
<1>9. /\ live' = live \ {at[l][p]}
      /\ next' = [n \in Nodes |-> CASE n = at[l][p] -> Null
                                   [] n = at[l][p - 1] -> at[l][p + 1]
                                   [] OTHER -> next[n]]
      /\ first' = [first EXCEPT ![l] = IF p = 1 THEN at[l][2] ELSE @]
      /\ last' = Dangling([last EXCEPT ![l] = t])
      /\ size' = [size EXCEPT ![l] = @ - 1]
      /\ cloned \ {l} \subseteq cloned'
  <2>1. live' = live \ {at[l][p]} BY <1>3, <1>5 DEF Take, FreeNode
  <2>2. next' = [n \in Nodes |-> CASE n = at[l][p] -> Null
                                   [] n = at[l][p - 1] -> at[l][p + 1]
                                   [] OTHER -> next[n]]
    BY <1>3, <1>5 DEF Take, FreeNode
  <2>3. first' = [first EXCEPT ![l] = IF p = 1 THEN at[l][2] ELSE @]
    BY <1>3, <1>5, <1>7 DEF Take, SetEnds
  <2>4. last' = Dangling([last EXCEPT ![l] = t]) BY <1>8 DEF Take, SetEnds
  <2>5. size' = [size EXCEPT ![l] = @ - 1]
    BY <1>1, <1>3, <1>6 DEF Take, Grows, TypeOK
  <2>6. cloned \ {l} \subseteq cloned' BY DEF Take, SetEnds
  <2> QED BY <2>1, <2>2, <2>3, <2>4, <2>5, <2>6, Zenon
<1>10. /\ l \notin Stacks \cup cloned' /\ len[l] > 1 =>
              t = IF p = len[l] THEN at[l][p - 1] ELSE at[l][len[l]]
       /\ l \in Queues /\ len[l] = 1 => t = Null
  <2>1. l \in Queues => last[l] = at[l][len[l]] BY <1>1, <1>4 DEF Shape, Ends
  <2> QED BY <1>5, <1>6, <1>8, <2>1
<1>11. Loops([at EXCEPT ![l] = Removed(@, p)], [len EXCEPT ![l] = @ - 1])'
  BY DEF Shape, Loops
<1>12. Removes(at, len, l, p, t)
  <2>1. pc \in {"idle", "take", "delete"} /\ UNCHANGED <<pc, list, to, prev>> OBVIOUS
  <2>2. 1 <= p /\ p <= len[l] BY <1>3, <1>4, <1>5
  <2> QED BY <2>1, <2>2, <1>9, <1>10, <1>11, Zenon DEF Removes
<1> QED BY <1>1, <1>5, <1>12, RemoveShape

(* slist_delete of the first node. *)
LEMMA DeleteHeadShape ==
    ASSUME TypeOK, ~astray, NEW at, NEW len, Shape(at, len),
           NEW l \in SLists, NEW k \in Keys, DeleteHead(l, k), ~astray'
    PROVE  \E a, n : Shape(a, n)' /\ Shrunk(at, len, l, 1, a, n)
<1>1. pc = "idle" /\ l \in Lists /\ UNCHANGED <<pc, list, to, current, prev>>
  BY DEF DeleteHead, AtOnce, Idle, call, Lists
<1>2. first[l] \in live /\ first[l] # Wild BY DEF DeleteHead, TypeOK
<1>3. /\ Cells(at, len) /\ len[l] \in Nat /\ at[l][0] = Null /\ Null \notin Nodes
      /\ first[l] = at[l][1] /\ len[l] > 0
  BY <1>1, <1>2, HeadFacts
<1>5. PICK p \in Nat : p = 1 OBVIOUS
<1>6. size[l] = len[l] BY <1>1 DEF Shape, Sizes
<1>7. at[l][1] \in Nodes /\ next[at[l][1]] = at[l][2]
  <2>1. at[l][1] \in Nodes BY <1>1, <1>3, CellsEnd
  <2>2. next[at[l][1]] = at[l][1 + 1] BY <1>1, <2>1 DEF Shape, Links
  <2> QED BY <2>1, <2>2
<1>8. PICK t : t = IF first[l] = last[l] THEN Null ELSE last[l] OBVIOUS
<1>9. first[l] = last[l] => len[l] = 1
  <2> SUFFICES ASSUME first[l] = last[l] PROVE len[l] = 1
    OBVIOUS
  <2>1. LastRight(l) BY DEF DeleteHead
  <2>2. last[l] = at[l][len[l]]
    <3>1. LastRight(l) <=> (len[l] > 0 => last[l] = at[l][len[l]]) BY <1>1, ChainFacts
    <3> QED BY <1>3, <2>1, <3>1
  <2>3. Apart(at) BY DEF Shape, Owns
  <2> QED BY <1>1, <1>3, <1>7, <2>2, <2>3 DEF Apart
<1>10. first[l] = last[l] => at[l][2] = Null
  <2>1. Cells(at, len) BY DEF Shape, Owns
  <2> QED BY <1>1, <1>9, <2>1, CellsEnd
<1>11. /\ live' = live \ {at[l][p]}
       /\ next' = [n \in Nodes |-> CASE n = at[l][p] -> Null
                                    [] n = at[l][p - 1] -> at[l][p + 1]
                                    [] OTHER -> next[n]]
       /\ first' = [first EXCEPT ![l] = IF p = 1 THEN at[l][2] ELSE @]
       /\ last' = Dangling([last EXCEPT ![l] = t])
       /\ size' = [size EXCEPT ![l] = @ - 1]
       /\ cloned \ {l} \subseteq cloned'
       /\ first[l] # last[l] => cloned' = cloned
  <2>1. CASE first[l] = last[l]
    BY <1>1, <1>3, <1>5, <1>6, <1>7, <1>8, <1>9, <1>10, <2>1
       DEF DeleteHead, FreeNode, SetEnds, TypeOK
  <2>2. CASE first[l] # last[l]
    BY <1>1, <1>3, <1>5, <1>6, <1>7, <1>8, <2>2
       DEF DeleteHead, FreeNode, SetEnds, Grows, TypeOK
  <2> QED BY <2>1, <2>2
<1>12. l \notin Stacks \cup cloned' /\ len[l] > 1 =>
          t = IF p = len[l] THEN at[l][p - 1] ELSE at[l][len[l]]
  <2> SUFFICES ASSUME l \notin Stacks \cup cloned', len[l] > 1 PROVE t = at[l][len[l]]
    BY <1>5
  <2>1. first[l] # last[l] BY <1>9
  <2>2. l \notin cloned BY <2>1, <1>11
  <2>3. last[l] = at[l][len[l]] BY <1>1, <1>3, <2>2 DEF Shape, Ends
  <2> QED BY <1>8, <2>1, <2>3
<1>13. Loops([at EXCEPT ![l] = Removed(@, p)], [len EXCEPT ![l] = @ - 1])'
  BY <1>1 DEF Shape, Loops
<1>14. Removes(at, len, l, p, t)
  <2>1. pc \in {"idle", "take", "delete"} /\ UNCHANGED <<pc, list, to, prev>> BY <1>1
  <2>2. 1 <= p /\ p <= len[l] BY <1>3, <1>5
  <2>3. l \in Queues /\ len[l] = 1 => t = Null OBVIOUS
  <2> QED BY <2>1, <2>2, <2>3, <1>11, <1>12, <1>13, Zenon DEF Removes
<1> QED BY <1>1, <1>5, <1>14, RemoveShape

(* slist_delete of a later node. *)
LEMMA UnlinkShape ==
    ASSUME TypeOK, ~astray, NEW at, NEW len, Shape(at, len), DeleteUnlink, ~astray'
    PROVE  \E a, n : \E c \in Nat :
              /\ Shape(a, n)' /\ Shrunk(at, len, list, c + 1, a, n)
              /\ current = at[list][c] /\ 1 <= c /\ c + 1 <= len[list]
<1>1. /\ pc = "delete" /\ UNCHANGED <<pc, list, to, prev>>
      /\ list \in SLists /\ list \in Lists /\ current # Null
  BY DEF DeleteUnlink, Running, Shape, Loops, Lists
<1>2. PICK l \in Lists : l = list BY <1>1
<1>3. Cells(at, len) /\ len[l] \in Nat BY CellsEnd DEF Shape, Owns
<1>4. PICK i \in Nat : current = at[l][i] BY <1>1, <1>2 DEF Shape, Loops
<1>5. 1 <= i /\ i <= len[l] /\ current \in Nodes BY <1>1, <1>3, <1>4 DEF Cells
<1>6. PICK p \in Nat : p = i + 1 OBVIOUS
<1>7. next[current] = at[l][p] BY <1>1, <1>4, <1>5, <1>6 DEF Shape, Links
<1>8. next[current] # Null BY DEF DeleteUnlink
<1>9. 1 <= p /\ p <= len[l] /\ at[l][p] \in Nodes BY <1>3, <1>6, <1>7, <1>8 DEF Cells
<1>10. next[at[l][p]] = at[l][p + 1] BY <1>1, <1>9 DEF Shape, Links
<1>11. PICK t : t = IF at[l][p] = last[l] THEN current ELSE last[l] OBVIOUS
<1>12. at[l][p] = last[l] => at[l][p + 1] = Null
  BY <1>2, <1>7, <1>10 DEF DeleteUnlink
<1>13. p - 1 = i /\ p # 1 BY <1>5, <1>6
<1>14. size[l] = len[l] BY <1>1 DEF Shape, Sizes
<1>15. /\ live' = live \ {at[l][p]}
       /\ next' = [n \in Nodes |-> CASE n = at[l][p] -> Null
                                    [] n = at[l][p - 1] -> at[l][p + 1]
                                    [] OTHER -> next[n]]
       /\ first' = [first EXCEPT ![l] = IF p = 1 THEN at[l][2] ELSE @]
       /\ last' = Dangling([last EXCEPT ![l] = t])
       /\ size' = [size EXCEPT ![l] = @ - 1]
       /\ cloned \ {l} \subseteq cloned'
       /\ at[l][p] # last[l] => cloned' = cloned
       /\ current' = at[l][p + 1]
  <2>1. live' = live \ {at[l][p]} BY <1>7 DEF DeleteUnlink, FreeNode
  <2>2. next' = [n \in Nodes |-> CASE n = at[l][p] -> Null
                                   [] n = at[l][p - 1] -> at[l][p + 1]
                                   [] OTHER -> next[n]]
    BY <1>2, <1>4, <1>7, <1>10, <1>12, <1>13 DEF DeleteUnlink, FreeNode
  <2>3. first' = [first EXCEPT ![l] = IF p = 1 THEN at[l][2] ELSE @]
    BY <1>2, <1>13 DEF DeleteUnlink, SetEnds
  <2>4. last' = Dangling([last EXCEPT ![l] = t])
    BY <1>2, <1>7, <1>11 DEF DeleteUnlink, SetEnds
  <2>5. size' = [size EXCEPT ![l] = @ - 1]
    BY <1>2, <1>3, <1>14 DEF DeleteUnlink, Grows, TypeOK
  <2>6. /\ cloned \ {l} \subseteq cloned'
        /\ at[l][p] # last[l] => cloned' = cloned
    BY <1>2, <1>7 DEF DeleteUnlink, SetEnds
  <2>7. current' = at[l][p + 1] BY <1>2, <1>7, <1>10, <1>12 DEF DeleteUnlink
  <2> QED BY <2>1, <2>2, <2>3, <2>4, <2>5, <2>6, <2>7, Zenon
<1>16. l \notin Stacks \cup cloned' /\ len[l] > 1 =>
          t = IF p = len[l] THEN at[l][p - 1] ELSE at[l][len[l]]
  <2> SUFFICES ASSUME l \notin Stacks \cup cloned'
               PROVE  t = IF p = len[l] THEN at[l][p - 1] ELSE at[l][len[l]]
    OBVIOUS
  <2>1. CASE at[l][p] = last[l]
    <3>1. p = len[l]
      <4>1. p + 1 > len[l] BY <1>3, <1>12, <2>1 DEF Cells
      <4> QED BY <4>1, <1>3, <1>9
    <3> QED BY <3>1, <2>1, <1>4, <1>11, <1>13
  <2>2. CASE at[l][p] # last[l]
    <3>1. l \notin cloned /\ t = last[l] BY <1>11, <1>15, <2>2
    <3>2. last[l] = at[l][len[l]] BY <1>1, <1>3, <1>9, <3>1 DEF Shape, Ends
    <3> QED BY <2>2, <3>1, <3>2
  <2> QED BY <2>1, <2>2
<1>17. Loops([at EXCEPT ![l] = Removed(@, p)], [len EXCEPT ![l] = @ - 1])'
  <2> DEFINE a == [at EXCEPT ![l] = Removed(@, p)]
             n == [len EXCEPT ![l] = @ - 1]
  <2>1. a[l][p] = at[l][p + 1] BY <1>3 DEF Removed, Cells
  <2> HIDE DEF a, n
  <2>2. current' = a[list'][p] BY <1>1, <1>2, <1>15, <2>1
  <2>3. prev' = Null BY <1>1 DEF Shape, Loops
  <2>4. Loops(a, n)' BY <1>1, <2>2, <2>3 DEF Loops
  <2> QED BY <2>4 DEF a, n
<1>18. Removes(at, len, l, p, t)
  <2>1. pc \in {"idle", "take", "delete"} /\ UNCHANGED <<pc, list, to, prev>> BY <1>1
  <2>2. l \in Queues /\ len[l] = 1 => t = Null BY <1>1, <1>2
  <2> QED BY <2>1, <2>2, <1>9, <1>15, <1>16, <1>17, Zenon DEF Removes
<1>19. \E a, n : Shape(a, n)' /\ Shrunk(at, len, l, p, a, n) BY <1>18, RemoveShape
<1> QED BY <1>2, <1>4, <1>5, <1>6, <1>9, <1>19

(* slist_reverse *)
LEMMA ReverseBeginShape ==
    ASSUME TypeOK, ~astray, NEW at, NEW len, Shape(at, len),
           NEW l \in SLists, ReverseBegin(l)
    PROVE  Shape(at, len)'
<1>1. /\ pc = "idle" /\ pc' = "reverse" /\ list' = l /\ l \in Lists /\ prev = Null
      /\ UNCHANGED <<live, next, size, prev>>
      /\ current' = first[l] /\ first[l] \in live
      /\ first' = [first EXCEPT ![l] = first[l]]
      /\ last' = Dangling([last EXCEPT ![l] = first[l]])
      /\ cloned \ {l} \subseteq cloned'
  BY DEF ReverseBegin, Idle, Starts, Lists, heap, SetEnds, Shape, Loops
<1>2. /\ Cells(at, len) /\ len[l] \in Nat /\ first[l] = at[l][1] /\ len[l] > 0
      /\ at[l][0] = Null
  BY <1>1, HeadFacts DEF TypeOK
<1>3. first' = first BY <1>1 DEF TypeOK
<1>4. /\ last'[l] = at[l][1]
      /\ \A m \in Lists \ {l} : last[m] \in live \cup {Null} => last'[m] = last[m]
  BY <1>1, <1>2 DEF Dangling, TypeOK
<1>5. Owns(at, len, live)' BY <1>1 DEF Shape
<1>6. Links(at)' BY <1>1 DEF Shape, Links
<1>7. Heads(at, len)' BY <1>1, <1>3 DEF Shape, Heads
<1>8. Sizes(len)' BY <1>1 DEF Shape, Sizes
<1>9. Ends(at, len)'
  <2>1. ASSUME NEW m \in Lists \ (Stacks \cup cloned'), len[m] > 0, m # l
        PROVE  last'[m] = at[m][len[m]]
    <3>1. last[m] = at[m][len[m]] BY <1>1, <2>1 DEF Shape, Ends
    <3>2. at[m][len[m]] \in live BY <1>2, <2>1 DEF Shape, Owns, Cells, Covers
    <3> QED BY <1>4, <2>1, <3>1, <3>2
  <2>2. ASSUME NEW m \in Queues, len[m] = 0 PROVE last'[m] = Null
    <3>1. last[m] = Null /\ m \in Lists BY <2>2 DEF Shape, Ends, Lists
    <3> QED BY <1>2, <1>4, <2>2, <3>1
  <2> QED BY <1>1, <2>1, <2>2 DEF Ends
<1>10. Turning(at, len)'
  <2>1. \A i \in Nat : at[l][i] \in Nodes => next[at[l][i]] = at[l][i + 1]
    BY <1>1 DEF Shape, Links
  <2>2. \A i \in Nat : i < 1 => at[l][i] \notin Nodes BY <1>1, <1>2 DEF Cells
  <2>3. \A i \in Nat : at[l][i] \in Nodes =>
           next'[at[l][i]] = IF i < 1 THEN at[l][i - 1] ELSE at[l][i + 1]
    BY <1>1, <2>1, <2>2
  <2>4. 1 \in Nat /\ 1 - 1 = 0 /\ 1 <= len[l] BY <1>2
  <2> QED BY <1>1, <1>2, <1>4, <2>3, <2>4 DEF Turning
<1>11. Loops(at, len)' BY <1>1, <1>10 DEF Loops
<1> QED BY <1>5, <1>6, <1>7, <1>8, <1>9, <1>11 DEF Shape

(* A turn of the loop of reverse turns one pointer. *)
LEMMA ReverseTurnShape ==
    ASSUME TypeOK, ~astray, NEW at, NEW len, Shape(at, len), ReverseTurn
    PROVE  Shape(at, len)'
<1>1. /\ pc = "reverse" /\ UNCHANGED <<pc, list, to, live, first, last, size, cloned>>
      /\ list \in SLists /\ list \in Lists /\ Turning(at, len)
      /\ next' = [next EXCEPT ![current] = prev]
      /\ prev' = current /\ current' = next[current] /\ next[current] # Null
  BY DEF ReverseTurn, Running, Shape, Loops, Lists, heads
<1>2. PICK l \in Lists : l = list BY <1>1
<1>3. PICK k \in Nat :
        /\ 1 <= k /\ k <= len[l]
        /\ current = at[l][k]
        /\ prev = at[l][k - 1]
        /\ last[l] = at[l][1]
        /\ \A i \in Nat : at[l][i] \in Nodes =>
              next[at[l][i]] = IF i < k THEN at[l][i - 1] ELSE at[l][i + 1]
  BY <1>1, <1>2 DEF Turning
<1>4. Cells(at, len) /\ Apart(at) /\ Covers(at, live) /\ len[l] \in Nat
  BY CellsEnd DEF Shape, Owns
<1>5. current \in Nodes /\ current' = at[l][k + 1] BY <1>1, <1>3, <1>4 DEF Cells
<1>6. k + 1 \in Nat /\ 1 <= k + 1 /\ k + 1 <= len[l] /\ (k + 1) - 1 = k
  BY <1>1, <1>3, <1>4, <1>5 DEF Cells
<1>7. \A x \in Nodes : next'[x] = IF x = current THEN prev ELSE next[x]
  BY <1>1 DEF TypeOK
<1>8. Links(at)'
  <2> SUFFICES ASSUME NEW m \in Lists, NEW i \in Nat, m # l, at[m][i] \in Nodes
               PROVE  next'[at[m][i]] = at[m][i + 1]
    BY <1>1, <1>2 DEF Links
  <2>1. at[m][i] # current BY <1>3, <1>4 DEF Apart
  <2>2. next[at[m][i]] = at[m][i + 1] BY <1>2 DEF Shape, Links
  <2> QED BY <1>7, <2>1, <2>2
<1>9. \A i \in Nat : at[l][i] \in Nodes =>
         next'[at[l][i]] = IF i < k + 1 THEN at[l][i - 1] ELSE at[l][i + 1]
  <2> SUFFICES ASSUME NEW i \in Nat, at[l][i] \in Nodes
               PROVE  next'[at[l][i]] = IF i < k + 1 THEN at[l][i - 1] ELSE at[l][i + 1]
    OBVIOUS
  <2>1. CASE i = k BY <2>1, <1>3, <1>5, <1>7
  <2>2. CASE i # k
    <3>1. at[l][i] # current BY <1>3, <1>4, <2>2 DEF Apart
    <3>2. i < k + 1 <=> i < k BY <2>2
    <3> QED BY <1>3, <1>7, <3>1, <3>2
  <2> QED BY <2>1, <2>2
<1>10. Turning(at, len)' BY <1>1, <1>2, <1>3, <1>5, <1>6, <1>9 DEF Turning
<1>11. Loops(at, len)' BY <1>1, <1>10 DEF Loops
<1>12. Owns(at, len, live)' BY <1>1 DEF Shape
<1>13. Heads(at, len)' BY <1>1 DEF Shape, Heads
<1>14. Sizes(len)' BY <1>1 DEF Shape, Sizes
<1>15. Ends(at, len)' BY <1>1 DEF Shape, Ends
<1> QED BY <1>8, <1>11, <1>12, <1>13, <1>14, <1>15 DEF Shape

(* The loop of reverse ends and the header takes the new ends. *)
LEMMA ReverseEndShape ==
    ASSUME TypeOK, ~astray, NEW at, NEW len, Shape(at, len), ReverseEnd
    PROVE  \E a : Shape(a, len)' /\ a = [at EXCEPT ![list] = Turned(@, len[list])]
<1>1. /\ pc = "reverse" /\ pc' = "idle" /\ UNCHANGED <<live, size, cloned>>
      /\ list \in SLists /\ list \in Lists /\ Turning(at, len)
      /\ next' = [next EXCEPT ![current] = prev]
      /\ prev' = Null /\ current' = Null /\ next[current] = Null
      /\ first' = [first EXCEPT ![list] = current]
      /\ last' = Dangling([last EXCEPT ![list] = last[list]])
  BY DEF ReverseEnd, Running, Shape, Loops, Lists, SetEnds, Returns
<1>2. PICK l \in Lists : l = list BY <1>1
<1>3. PICK k \in Nat :
        /\ 1 <= k /\ k <= len[l]
        /\ current = at[l][k]
        /\ prev = at[l][k - 1]
        /\ last[l] = at[l][1]
        /\ \A i \in Nat : at[l][i] \in Nodes =>
              next[at[l][i]] = IF i < k THEN at[l][i - 1] ELSE at[l][i + 1]
  BY <1>1, <1>2 DEF Turning
<1>4. /\ Cells(at, len) /\ Apart(at) /\ Covers(at, live) /\ len[l] \in Nat
      /\ at[l][0] = Null /\ at[l][len[l] + 1] = Null
  BY CellsEnd DEF Shape, Owns
<1>5. current \in Nodes BY <1>1, <1>3, <1>4 DEF Cells
<1>6. k = len[l]
  <2>1. at[l][k + 1] = Null BY <1>1, <1>3, <1>5
  <2>2. ~(k + 1 <= len[l]) BY <1>3, <1>4, <2>1 DEF Cells
  <2> QED BY <1>3, <1>4, <2>2
<1>7. \A x \in Nodes : next'[x] = IF x = current THEN prev ELSE next[x]
  BY <1>1 DEF TypeOK
<1> DEFINE a == [at EXCEPT ![l] = Turned(@, len[l])]
<1>8. Owns(a, len, live)' BY <1>1, OwnsTurned DEF Shape
<1>9. /\ \A m \in Lists \ {l} : a[m] = at[m]
      /\ \A i \in Nat : a[l][i] = IF 1 <= i /\ i <= k THEN at[l][k + 1 - i] ELSE at[l][i]
  BY <1>4, <1>6 DEF Turned, Cells
<1> HIDE DEF a
<1>10. Links(a)'
  <2> SUFFICES ASSUME NEW m \in Lists, NEW i \in Nat, a[m][i] \in Nodes
               PROVE  next'[a[m][i]] = a[m][i + 1]
    BY DEF Links
  <2>1. CASE m # l
    <3>1. at[m][i] \in Nodes /\ a[m][i] = at[m][i] /\ a[m][i + 1] = at[m][i + 1]
      BY <1>9, <2>1
    <3>2. at[m][i] # current BY <1>3, <1>4, <2>1, <3>1 DEF Apart
    <3>3. next[at[m][i]] = at[m][i + 1] BY <1>2, <2>1, <3>1 DEF Shape, Links
    <3> QED BY <1>7, <3>1, <3>2, <3>3
  <2>2. CASE m = l
    <3>1. 1 <= i /\ i <= k
      <4>1. Cells(a, len) BY <1>8 DEF Owns
      <4> QED BY <1>6, <2>2, <4>1 DEF Cells
    <3>2. PICK j \in Nat : j = k + 1 - i BY <3>1
    <3>3. a[l][i] = at[l][j] /\ 1 <= j /\ j <= k BY <1>3, <1>9, <3>1, <3>2
    <3>4. a[l][i + 1] = at[l][j - 1]
      <4>1. CASE i = k
        <5>1. j - 1 = 0 BY <3>2, <4>1
        <5>2. a[l][i + 1] = at[l][k + 1] BY <1>3, <1>9, <4>1
        <5> QED BY <1>4, <1>6, <5>1, <5>2
      <4>2. CASE i < k
        <5>1. 1 <= i + 1 /\ i + 1 <= k /\ k + 1 - (i + 1) = j - 1 BY <3>2, <4>2
        <5> QED BY <1>9, <5>1
      <4> QED BY <3>1, <4>1, <4>2
    <3>5. next'[at[l][j]] = at[l][j - 1]
      <4>1. at[l][j] \in Nodes BY <2>2, <3>3
      <4>2. CASE j = k BY <1>3, <1>7, <4>1, <4>2
      <4>3. CASE j < k
        <5>1. at[l][j] # current BY <1>3, <1>4, <4>1, <4>3 DEF Apart
        <5> QED BY <1>3, <1>7, <4>1, <4>3, <5>1
      <4> QED BY <3>3, <4>2, <4>3
    <3> QED BY <2>2, <3>3, <3>4, <3>5
  <2> QED BY <2>1, <2>2
<1>11. Heads(a, len)'
  <2>1. a[l][1] = current BY <1>3, <1>9
  <2>2. \A m \in Lists : first'[m] = IF m = l THEN current ELSE first[m]
    BY <1>1, <1>2 DEF TypeOK
  <2> QED BY <1>1, <1>2, <1>9, <2>1, <2>2 DEF Shape, Heads
<1>12. Sizes(len)' BY <1>1 DEF Shape, Sizes
<1>13. \A m \in Lists : last[m] \in live \cup {Null} => last'[m] = last[m]
  BY <1>1, <1>2 DEF Dangling, TypeOK
<1>14. \A m \in Lists : len[m] > 0 => a[m][len[m]] \in live
  BY <1>1, <1>8 DEF Owns, Cells, Covers
<1>15. Ends(a, len)'
  <2>1. ASSUME NEW m \in Lists \ (Stacks \cup cloned'), len[m] > 0
        PROVE  last'[m] = a[m][len[m]]
    <3>1. last[m] = a[m][len[m]]
      <4>1. CASE m = l BY <4>1, <1>3, <1>4, <1>6, <1>9
      <4>2. CASE m # l BY <4>2, <2>1, <1>1, <1>2, <1>9 DEF Shape, Ends
      <4> QED BY <4>1, <4>2
    <3> QED BY <1>13, <1>14, <2>1, <3>1
  <2>2. ASSUME NEW m \in Queues, len[m] = 0 PROVE last'[m] = Null
    BY <1>13, <2>2 DEF Shape, Ends, Lists
  <2> QED BY <1>1, <2>1, <2>2 DEF Ends
<1>16. Loops(a, len)' BY <1>1 DEF Loops
<1>17. Shape(a, len)' BY <1>8, <1>10, <1>11, <1>12, <1>15, <1>16 DEF Shape
<1> QED BY <1>2, <1>17 DEF a

(* slist_clone *)
LEMMA CloneBeginShape ==
    ASSUME TypeOK, ~astray, NEW at, NEW len, Shape(at, len),
           NEW l \in SLists, NEW m \in SLists, CloneBegin(l, m)
    PROVE  Shape(at, len)'
<1>1. /\ pc = "idle" /\ pc' = "clone" /\ list' = l /\ to' = m /\ l # m
      /\ l \in Lists /\ m \in Lists /\ prev = Null
      /\ UNCHANGED <<live, next, last, size, prev, cloned>>
      /\ current' = first[l] /\ first[l] # Wild /\ first[m] \in {Null, Wild}
      /\ first' = [first EXCEPT ![m] = Null]
  BY DEF CloneBegin, Idle, Starts, Lists, heap, Shape, Loops
<1>2. Cells(at, len) /\ len[l] \in Nat /\ first[l] = at[l][1] BY <1>1, HeadFacts
<1>3. len[m] = 0 /\ at[m][0] = Null /\ at[m][1] = Null
  <2>1. len[m] = 0
    <3>1. first[m] = at[m][1] \/ len[m] = 0 BY <1>1 DEF Shape, Heads
    <3>2. at[m][1] \notin Nodes \/ len[m] = 0 BY <1>1, <3>1, CellsEnd
    <3> QED BY <1>1, <1>2, <3>2 DEF Cells
  <2> QED BY <1>1, <1>2, <2>1, CellsEnd
<1>4. Owns(at, len, live)' BY <1>1 DEF Shape
<1>5. Links(at)' BY <1>1 DEF Shape, Links
<1>6. Heads(at, len)' BY <1>1, <1>3 DEF Shape, Heads, TypeOK
<1>7. Sizes(len)' BY <1>1 DEF Shape, Sizes
<1>8. Ends(at, len)' BY <1>1 DEF Shape, Ends
<1>9. Loops(at, len)' BY <1>1, <1>2, <1>3 DEF Loops
<1> QED BY <1>4, <1>5, <1>6, <1>7, <1>8, <1>9 DEF Shape

(* A turn of the loop of clone puts a copy behind the copies made so far. *)
LEMMA CloneNodeShape ==
    ASSUME TypeOK, ~astray, NEW at, NEW len, Shape(at, len), CloneNode
    PROVE  \E a, n : Shape(a, n)' /\ Grown(at, len, to, len[to] + 1, Fresh, a, n)
<1>1. /\ pc = "clone" /\ UNCHANGED <<pc, list, to, size, cloned>>
      /\ list \in SLists /\ to \in SLists /\ list # to
      /\ list \in Lists /\ to \in Lists
      /\ len[to] <= len[list]
      /\ current = at[list][len[to] + 1]
      /\ prev = at[to][len[to]]
      /\ live # Nodes /\ current # Null
  BY DEF CloneNode, Running, Shape, Loops, Lists, MakeNode
<1>2. PICK l \in Lists, m \in Lists : l = list /\ m = to /\ l # m BY <1>1
<1>3. PICK f \in Nodes \ live : f = Fresh BY <1>1, FreshNode
<1>4. /\ Cells(at, len) /\ Null \notin Nodes
      /\ len[l] \in Nat /\ len[m] \in Nat
      /\ at[m][0] = Null /\ at[m][len[m] + 1] = Null
  BY CellsEnd DEF Shape, Owns
<1>5. PICK p \in Nat : p = len[m] + 1 BY <1>4
<1>6. /\ p - 1 = len[m] /\ at[m][p] = Null /\ prev = at[m][p - 1]
      /\ current = at[l][p] /\ current \in Nodes /\ p <= len[l]
  BY <1>1, <1>2, <1>4, <1>5 DEF Cells
<1>7. prev = Null <=> p = 1 BY <1>4, <1>5, <1>6 DEF Cells
<1>8. next[current] = at[l][p + 1] BY <1>1, <1>6 DEF Shape, Links
<1>9. live' = live \cup {f} BY <1>3 DEF CloneNode, MakeNode
<1>10. next' = [n \in Nodes |-> CASE n = f -> at[m][p]
                                  [] n = at[m][p - 1] -> f
                                  [] OTHER -> next[n]]
  BY <1>3, <1>6 DEF CloneNode, MakeNode
<1>11. first' = [first EXCEPT ![m] = IF p = 1 THEN f ELSE @]
  BY <1>2, <1>3, <1>7 DEF CloneNode
<1>12. \A q \in Lists \ {m} : last'[q] = last[q]
  BY <1>2 DEF CloneNode, TypeOK
<1>13. current' = at[l][p + 1] /\ prev' = f BY <1>3, <1>8 DEF CloneNode
<1>14. Loops([at EXCEPT ![m] = Inserted(@, p, f)], [len EXCEPT ![m] = @ + 1])'
  <2> DEFINE a == [at EXCEPT ![m] = Inserted(@, p, f)]
             n == [len EXCEPT ![m] = @ + 1]
  <2>1. a[m][p] = f /\ a[l] = at[l] /\ n[m] = p /\ n[l] = len[l]
    BY <1>2, <1>4, <1>5 DEF Inserted, Cells
  <2> HIDE DEF a, n
  <2>2. n[m] <= n[l] /\ current' = a[l][n[m] + 1] /\ prev' = a[m][n[m]]
    BY <1>6, <1>13, <2>1
  <2>3. Loops(a, n)' BY <1>1, <1>2, <2>2 DEF Loops
  <2> QED BY <2>3 DEF a, n
<1>15. Inserts(at, len, m, p, f)
  <2>1. pc \in {"idle", "clone"} /\ UNCHANGED <<pc, list, to>> BY <1>1
  <2>2. 1 <= p /\ p <= len[m] + 1 BY <1>4, <1>5
  <2>3. \A q \in Lists : ~(pc = "clone" /\ q = to) =>
           size'[q] = IF q = m THEN size[q] + 1 ELSE size[q]
    BY <1>1, <1>2
  <2>4. \A q \in Lists \ {m} : last[q] \in live \cup {Null} => last'[q] = last[q]
    BY <1>12
  <2>5. m \notin Stacks \cup cloned' /\ ~(pc = "clone" /\ m = to) =>
           last'[m] = IF p = len[m] + 1 THEN f ELSE at[m][len[m]]
    BY <1>1, <1>2
  <2>6. cloned \ {m} \subseteq cloned' BY <1>1
  <2> QED
    BY <2>1, <2>2, <2>3, <2>4, <2>5, <2>6, <1>9, <1>10, <1>11, <1>14, Zenon DEF Inserts
<1> QED BY <1>2, <1>3, <1>5, <1>15, InsertShape

(* The loop of clone ends; the last of its result is Wild. *)
LEMMA CloneEndShape ==
    ASSUME TypeOK, ~astray, NEW at, NEW len, Shape(at, len), CloneEnd
    PROVE  Shape(at, len)'
<1>1. /\ pc = "clone" /\ pc' = "idle" /\ UNCHANGED <<live, next, first, last>>
      /\ list \in SLists /\ to \in SLists /\ list # to
      /\ list \in Lists /\ to \in Lists
      /\ len[to] <= len[list]
      /\ current = at[list][len[to] + 1] /\ current = Null
      /\ size' = [size EXCEPT ![to] = size[list]]
      /\ cloned' = cloned \cup {to}
      /\ prev' = Null /\ current' = Null
  BY DEF CloneEnd, Running, Shape, Loops, Lists, heap, Returns
<1>2. Cells(at, len) /\ len[to] \in Nat /\ len[list] \in Nat /\ Null \notin Nodes
  BY <1>1, CellsEnd DEF Shape, Owns
<1>3. len[to] = len[list]
  <2>1. PICK i \in Nat : i = len[to] + 1 BY <1>2
  <2>2. ~(i <= len[list])
    <3>1. \A j \in 1 .. len[list] : at[list][j] \in Nodes BY <1>1, <1>2, CellsEnd
    <3>2. at[list][i] = Null BY <1>1, <2>1
    <3>3. i <= len[list] => i \in 1 .. len[list] BY <1>2, <2>1
    <3> QED BY <1>2, <3>1, <3>2, <3>3
  <2> QED BY <1>1, <1>2, <2>1, <2>2
<1>4. Owns(at, len, live)' BY <1>1 DEF Shape
<1>5. Links(at)' BY <1>1 DEF Shape, Links
<1>6. Heads(at, len)' BY <1>1 DEF Shape, Heads
<1>7. Sizes(len)'
  <2>1. size[list] = len[list] BY <1>1 DEF Shape, Sizes
  <2> QED BY <1>1, <1>3, <2>1 DEF Shape, Sizes, TypeOK
<1>8. Ends(at, len)' BY <1>1 DEF Shape, Ends
<1>9. Loops(at, len)' BY <1>1 DEF Loops
<1> QED BY <1>4, <1>5, <1>6, <1>7, <1>8, <1>9 DEF Shape

(* slist_clear *)
LEMMA ClearFreeShape ==
    ASSUME TypeOK, ~astray, NEW at, NEW len, Shape(at, len), ClearFree
    PROVE  \E a, n : Shape(a, n)' /\ Shrunk(at, len, list, 1, a, n)
<1>1. /\ pc = "free" /\ UNCHANGED <<pc, list, to, prev, first, size, cloned>>
      /\ list \in SLists /\ list \in Lists
      /\ current = at[list][1] /\ current # Null
      /\ current' = next[current]
      /\ live' = live \ {current}
      /\ last' = Dangling(last)
  BY DEF ClearFree, Running, Shape, Loops, Lists, FreeNode
<1>2. PICK l \in Lists : l = list BY <1>1
<1>3. PICK p \in Nat : p = 1 OBVIOUS
<1>4. /\ Cells(at, len) /\ Null \notin Nodes /\ len[l] \in Nat
      /\ at[l][p - 1] = Null
  BY <1>3, CellsEnd DEF Shape, Owns
<1>5. /\ current = at[l][p] /\ current \in Nodes /\ 1 <= p /\ p <= len[l]
      /\ next[current] = at[l][p + 1]
  <2>1. current \in Nodes /\ current = at[l][p] BY <1>1, <1>2, <1>3, <1>4 DEF Cells
  <2>2. next[at[l][p]] = at[l][p + 1] BY <1>1, <2>1 DEF Shape, Links
  <2>3. p <= len[l] BY <1>4, <2>1 DEF Cells
  <2> QED BY <1>3, <2>1, <2>2, <2>3
<1>6. next' = [n \in Nodes |-> CASE n = at[l][p] -> Null
                                 [] n = at[l][p - 1] -> at[l][p + 1]
                                 [] OTHER -> next[n]]
  BY <1>4, <1>5 DEF ClearFree, FreeNode
<1> DEFINE a == [at EXCEPT ![l] = Removed(@, p)]
           n == [len EXCEPT ![l] = @ - 1]
<1>7. Owns(a, n, live \ {at[l][p]}) BY <1>5, OwnsLess DEF Shape
<1>8. Links(a)' BY <1>1, <1>5, <1>6, RemoveLinks DEF Shape
<1>9. /\ \A m \in Lists \ {l} : a[m] = at[m] /\ n[m] = len[m]
      /\ a[l][1] = at[l][2]
  BY <1>3, <1>4 DEF Removed, Cells
<1> HIDE DEF a, n
<1>10. Owns(a, n, live)' BY <1>1, <1>5, <1>7
<1>11. Heads(a, n)' BY <1>1, <1>2, <1>9 DEF Shape, Heads
<1>12. Sizes(n)' BY <1>1, <1>2, <1>9 DEF Shape, Sizes
<1>13. Ends(a, n)'
  <2>1. \A m \in Lists : last[m] \in live' \cup {Null} => last'[m] = last[m]
    BY <1>1 DEF Dangling, TypeOK
  <2>2. ASSUME NEW m \in Lists \ (Stacks \cup cloned'), n[m] > 0, m # l
        PROVE  last'[m] = a[m][n[m]]
    <3>1. last[m] = a[m][n[m]] BY <1>1, <1>2, <1>9, <2>2 DEF Shape, Ends
    <3>2. a[m][n[m]] \in live' BY <1>10, <2>2 DEF Owns, Cells, Covers
    <3> QED BY <2>1, <2>2, <3>1, <3>2
  <2>3. ASSUME NEW m \in Queues, n[m] = 0 PROVE last'[m] = Null
    <3>1. m \in Lists /\ m # l BY <1>1, <1>2 DEF Lists
    <3> QED BY <1>9, <2>1, <2>3, <3>1 DEF Shape, Ends
  <2> QED BY <1>1, <1>2, <2>2, <2>3 DEF Ends
<1>14. Loops(a, n)'
  <2>1. current' = a[l][1] BY <1>1, <1>3, <1>5, <1>9
  <2>2. prev' = Null BY <1>1 DEF Shape, Loops
  <2> QED BY <1>1, <1>2, <2>1, <2>2 DEF Loops
<1>15. Shape(a, n)' BY <1>8, <1>10, <1>11, <1>12, <1>13, <1>14 DEF Shape
<1> QED BY <1>2, <1>3, <1>15 DEF Shrunk, a, n

(* slist_clear returns with a header that points to freed memory. *)
LEMMA ClearEndShape ==
    ASSUME TypeOK, ~astray, NEW at, NEW len, Shape(at, len), ClearEnd
    PROVE  Shape(at, len)'
<1>1. /\ pc = "free" /\ pc' = "idle" /\ UNCHANGED <<live, next, cloned>>
      /\ list \in SLists /\ list \in Lists
      /\ current = at[list][1] /\ current = Null
      /\ prev' = Null /\ current' = Null
  BY DEF ClearEnd, Running, Shape, Loops, Lists, heap, Returns
<1>2. PICK l \in Lists : l = list BY <1>1
<1>3. /\ first' = [first EXCEPT ![l] = IF first[l] = Null THEN Null ELSE Wild]
      /\ last' = [last EXCEPT ![l] = IF first[l] = Null THEN @ ELSE Wild]
      /\ size' = [size EXCEPT ![l] = 0]
  BY <1>2 DEF ClearEnd
<1>4. len[l] = 0
  <2>1. /\ len[l] \in Nat /\ Null \notin Nodes
        /\ \A i \in 1 .. len[l] : at[l][i] \in Nodes
    BY CellsEnd DEF Shape, Owns
  <2>2. at[l][1] = Null BY <1>1, <1>2
  <2>3. len[l] > 0 => 1 \in 1 .. len[l] BY <2>1
  <2> QED BY <2>1, <2>2, <2>3
<1>5. Owns(at, len, live)' BY <1>1 DEF Shape
<1>6. Links(at)' BY <1>1 DEF Shape, Links
<1>7. Heads(at, len)' BY <1>1, <1>2, <1>3, <1>4 DEF Shape, Heads, TypeOK
<1>8. Sizes(len)' BY <1>1, <1>2, <1>3, <1>4 DEF Shape, Sizes, TypeOK
<1>9. Ends(at, len)'
  <2>1. \A m \in Lists \ {l} : last'[m] = last[m] BY <1>3 DEF TypeOK
  <2>2. l \notin Queues BY <1>1, <1>2
  <2>3. ASSUME NEW m \in Lists \ (Stacks \cup cloned'), len[m] > 0
        PROVE  last'[m] = at[m][len[m]]
    <3>1. m # l /\ m \notin cloned BY <1>1, <1>4, <2>3
    <3>2. last[m] = at[m][len[m]] BY <1>1, <1>2, <2>3, <3>1 DEF Shape, Ends
    <3> QED BY <2>1, <2>3, <3>1, <3>2
  <2>4. ASSUME NEW m \in Queues, len[m] = 0 PROVE last'[m] = Null
    <3>1. m \in Lists /\ m # l BY <2>2 DEF Lists
    <3> QED BY <2>1, <2>4, <3>1 DEF Shape, Ends
  <2> QED BY <1>1, <2>3, <2>4 DEF Ends
<1>10. Loops(at, len)' BY <1>1 DEF Loops
<1> QED BY <1>5, <1>6, <1>7, <1>8, <1>9, <1>10 DEF Shape

(* slist_init *)
LEMMA InitListShape ==
    ASSUME TypeOK, ~astray, NEW at, NEW len, Shape(at, len),
           NEW l \in SLists, InitList(l)
    PROVE  Shape(at, len)'
<1>1. /\ pc = "idle" /\ UNCHANGED <<pc, list, to, current, prev, live, next>>
      /\ l \in Lists /\ l \notin Queues /\ first[l] \in {Null, Wild}
      /\ first' = [first EXCEPT ![l] = Null]
      /\ last' = Dangling([last EXCEPT ![l] = Null])
      /\ size' = [size EXCEPT ![l] = 0]
      /\ cloned \ {l} \subseteq cloned'
  BY DEF InitList, AtOnce, Idle, call, Lists, heap, SetEnds
<1>2. Cells(at, len) /\ len[l] \in Nat /\ Null \notin Nodes /\ Wild \notin Nodes
  BY <1>1, CellsEnd DEF Shape, Owns
<1>3. len[l] = 0
  <2>1. first[l] = at[l][1] \/ len[l] = 0 BY <1>1 DEF Shape, Heads
  <2> QED BY <1>1, <1>2, <2>1 DEF Cells
<1>4. at[l][1] = Null BY <1>1, <1>2, <1>3, CellsEnd
<1>5. Owns(at, len, live)' BY <1>1 DEF Shape
<1>6. Links(at)' BY <1>1 DEF Shape, Links
<1>7. Heads(at, len)' BY <1>1, <1>4 DEF Shape, Heads, TypeOK
<1>8. Sizes(len)' BY <1>1, <1>3 DEF Shape, Sizes, TypeOK
<1>9. Ends(at, len)'
  <2>1. \A m \in Lists \ {l} : last[m] \in live \cup {Null} => last'[m] = last[m]
    BY <1>1 DEF Dangling, TypeOK
  <2>2. ASSUME NEW m \in Lists \ (Stacks \cup cloned'), len[m] > 0
        PROVE  last'[m] = at[m][len[m]]
    <3>1. m # l /\ m \notin cloned BY <1>1, <1>3, <2>2
    <3>2. last[m] = at[m][len[m]] BY <1>1, <2>2, <3>1 DEF Shape, Ends
    <3>3. at[m][len[m]] \in live BY <2>2 DEF Shape, Owns, Cells, Covers
    <3> QED BY <2>1, <2>2, <3>1, <3>2, <3>3
  <2>3. ASSUME NEW m \in Queues, len[m] = 0 PROVE last'[m] = Null
    <3>1. m \in Lists /\ m # l BY <1>1 DEF Lists
    <3> QED BY <2>1, <2>3, <3>1 DEF Shape, Ends
  <2> QED BY <1>1, <2>2, <2>3 DEF Ends
<1>10. Loops(at, len)' BY <1>1 DEF Shape, Loops
<1> QED BY <1>5, <1>6, <1>7, <1>8, <1>9, <1>10 DEF Shape

(* The steps that change no list: the calls that read or change keys, and
   the first and last steps of the loops that do not touch a header. *)
LEMMA QuietShape ==
    ASSUME TypeOK, ~astray, NEW at, NEW len, Shape(at, len),
           \/ \E l \in Lists : TakeOut(l) /\ IsEmpty(l)
           \/ \E l \in Queues \cup Stacks : ClearAll(l)
           \/ ClearAllEnd
           \/ \E l \in SLists, k \in Keys :
                 \/ Locate(l, k) \/ DeleteEmpty(l, k) \/ DeleteLater(l, k)
                 \/ \E new \in Keys : ChangeKey(l, k, new)
           \/ DeletePass \/ DeleteEnd
           \/ \E l \in SLists : ClearBegin(l)
    PROVE  Shape(at, len)'
<1> USE DEF heap, heads
<1>1. CASE \E l \in Lists : TakeOut(l) /\ IsEmpty(l)
  <2>1. pc = "idle" /\ UNCHANGED <<live, next, heads, cloned, pc, list, to, current, prev>>
    BY <1>1 DEF TakeOut, AtOnce, Idle, call
  <2>2. Loops(at, len)' BY <2>1 DEF Shape, Loops
  <2> QED BY <2>1, <2>2, IdleShape
<1>2. CASE \E l \in Queues \cup Stacks : ClearAll(l)
  <2>1. /\ pc = "idle" /\ pc' = "take" /\ UNCHANGED <<live, next, heads, cloned>>
        /\ list' \in Queues \cup Stacks /\ UNCHANGED <<current, prev>>
    BY <1>2 DEF ClearAll, Idle, Starts
  <2>2. Loops(at, len)' BY <2>1 DEF Shape, Loops
  <2> QED BY <2>1, <2>2, IdleShape
<1>3. CASE ClearAllEnd \/ DeleteEnd
  <2>1. /\ pc \in {"take", "delete"} /\ pc' = "idle"
        /\ UNCHANGED <<live, next, heads, cloned>>
        /\ current' = Null /\ prev' = Null
    BY <1>3 DEF ClearAllEnd, DeleteEnd, Running, Returns
  <2>2. Loops(at, len)' BY <2>1 DEF Loops
  <2> QED BY <2>1, <2>2, IdleShape
<1>4. ASSUME NEW l \in SLists, NEW k \in Keys,
             \/ Locate(l, k) \/ DeleteEmpty(l, k)
             \/ \E new \in Keys : ChangeKey(l, k, new)
      PROVE  Shape(at, len)'
  <2>1. pc = "idle" /\ UNCHANGED <<live, next, heads, cloned, pc, list, to, current, prev>>
    BY <1>4 DEF Locate, DeleteEmpty, ChangeKey, AtOnce, Idle, call
  <2>2. Loops(at, len)' BY <2>1 DEF Shape, Loops
  <2> QED BY <2>1, <2>2, IdleShape
<1>5. ASSUME NEW l \in SLists, NEW k \in Keys, DeleteLater(l, k)
      PROVE  Shape(at, len)'
  <2>1. /\ pc = "idle" /\ pc' = "delete" /\ UNCHANGED <<live, next, heads, cloned, prev>>
        /\ list' = l /\ current' = first[l] /\ first[l] \in live /\ l \in Lists
    BY <1>5 DEF DeleteLater, Idle, Starts, Lists
  <2>2. first[l] = at[l][1] BY <2>1, HeadFacts DEF TypeOK
  <2>3. Loops(at, len)' BY <2>1, <2>2 DEF Shape, Loops
  <2> QED BY <2>1, <2>3, IdleShape
<1>6. CASE DeletePass
  <2>1. /\ pc = "delete" /\ UNCHANGED <<live, next, heads, cloned, pc, list, to, prev>>
        /\ current # Null /\ current' = next[current]
        /\ list \in SLists /\ list \in Lists
    BY <1>6 DEF DeletePass, Running, Shape, Loops, Lists
  <2>2. PICK i \in Nat : current = at[list][i] BY <2>1 DEF Shape, Loops
  <2>3. current \in Nodes BY <2>1 DEF TypeOK
  <2>4. current' = at[list][i + 1] BY <2>1, <2>2, <2>3 DEF Shape, Links
  <2>5. Loops(at, len)' BY <2>1, <2>4 DEF Shape, Loops
  <2> QED BY <2>1, <2>5, IdleShape
<1>7. ASSUME NEW l \in SLists, ClearBegin(l) PROVE Shape(at, len)'
  <2>1. /\ pc = "idle" /\ pc' = "free" /\ UNCHANGED <<live, next, heads, cloned, prev>>
        /\ list' = l /\ current' = first[l] /\ first[l] # Wild /\ l \in Lists
    BY <1>7 DEF ClearBegin, Idle, Starts, Lists
  <2>2. first[l] = at[l][1] BY <2>1, HeadFacts
  <2>3. Loops(at, len)' BY <2>1, <2>2 DEF Shape, Loops
  <2> QED BY <2>1, <2>3, IdleShape
<1> QED BY <1>1, <1>2, <1>3, <1>4, <1>5, <1>6, <1>7
-----------------------------------------------------------------------------
(* Types.  Only the sizes need more than the step itself: they stay between 0
   and M because they count the nodes of a list. *)
LEMMA SizeBounds ==
    ASSUME TypeOK, NEW at, NEW len, Shape(at, len), NEW l \in Lists,
           pc \in {"idle", "take", "delete"}
    PROVE  /\ size[l] = len[l] /\ size[l] \in Nat /\ M \in Nat
           /\ size[l] <= M
           /\ live # Nodes => size[l] + 1 \in 0 .. M
           /\ size[l] > 0 => size[l] - 1 \in 0 .. M
<1>1. size[l] = len[l] BY DEF Shape, Sizes
<1>2. Cells(at, len) BY DEF Shape, Owns
<1>3. len[l] \in Nat BY <1>2, CellsEnd
<1>4. /\ Cardinality(live) \in Nat /\ M \in Nat
      /\ len[l] <= Cardinality(live) /\ Cardinality(live) <= M
      /\ live # Nodes => Cardinality(live) < M
  BY LenBound DEF Shape
<1> QED BY <1>1, <1>3, <1>4

(* Types: the pointers of a header are set. *)
LEMMA EndsTypes ==
    ASSUME TypeOK, NEW l \in Lists, NEW f \in Pointers, NEW t \in Pointers, SetEnds(l, f, t)
    PROVE  /\ first' \in [Lists -> Pointers] /\ last' \in [Lists -> Pointers]
           /\ cloned' \subseteq SLists
<1>1. first' \in [Lists -> Pointers] BY DEF SetEnds, TypeOK
<1>2. [last EXCEPT ![l] = t] \in [Lists -> Pointers] BY DEF TypeOK
<1>3. last' \in [Lists -> Pointers] BY <1>2 DEF SetEnds, Dangling, Pointers
<1> QED BY <1>1, <1>3 DEF SetEnds, TypeOK

(* Types: a node is taken from the memory. *)
LEMMA MakeTypes ==
    ASSUME TypeOK, NEW k \in Keys \cup {Nothing}, NEW nxt \in Nodes \cup {Null}, NEW p,
           MakeNode(k, nxt, p)
    PROVE  /\ live' \subseteq Nodes /\ key' \in [Nodes -> Keys \cup {Nothing}]
           /\ next' \in [Nodes -> Nodes \cup {Null}]
           /\ Fresh \in Nodes /\ Fresh \in live'
<1>1. Fresh \in Nodes BY FreshNode DEF MakeNode
<1> QED BY <1>1 DEF MakeNode, TypeOK

(* Types: a node is given back. *)
LEMMA FreeTypes ==
    ASSUME TypeOK, NEW n \in Nodes, NEW p, NEW nxt \in Nodes \cup {Null},
           FreeNode(n, p, nxt)
    PROVE  /\ live' \subseteq Nodes /\ key' \in [Nodes -> Keys \cup {Nothing}]
           /\ next' \in [Nodes -> Nodes \cup {Null}]
BY DEF FreeNode, TypeOK

(* Types: append and put.  A full memory is what keeps size in its bounds. *)
LEMMA InsertTypes ==
    ASSUME TypeOK, ~astray, NEW at, NEW len, Shape(at, len), NEW l \in Lists, NEW k \in Keys,
           AppendTo(l, k) \/ PutFirst(l, k)
    PROVE  TypeOK'
<1>1. pc = "idle" /\ UNCHANGED call /\ first[l] # Wild /\ live # Nodes
  BY DEF AppendTo, PutFirst, AtOnce, Idle, MakeNode
<1>2. size[l] + 1 \in 0 .. M BY <1>1, SizeBounds
<1>3. size' \in [Lists -> 0 .. M] BY <1>2 DEF AppendTo, PutFirst, Grows, TypeOK
<1>4. first[l] \in Nodes \cup {Null} /\ last[l] \in Pointers /\ Null \in Pointers
  BY <1>1 DEF TypeOK, Pointers
<1>5. Fresh \in Pointers BY <1>1, FreshNode DEF Pointers
<1>6. /\ live' \subseteq Nodes /\ key' \in [Nodes -> Keys \cup {Nothing}]
      /\ next' \in [Nodes -> Nodes \cup {Null}]
  BY <1>4, MakeTypes DEF AppendTo, PutFirst
<1>7. /\ first' \in [Lists -> Pointers] /\ last' \in [Lists -> Pointers]
      /\ cloned' \subseteq SLists
  <2>1. first[l] \in Pointers BY <1>4 DEF Pointers
  <2>2. CASE AppendTo(l, k)
    <3>1. SetEnds(l, Fresh, Fresh) \/ SetEnds(l, first[l], Fresh) BY <2>2 DEF AppendTo
    <3> QED BY <3>1, <2>1, <1>5, EndsTypes
  <2>3. CASE PutFirst(l, k)
    <3>1. PICK t \in Pointers : t = IF l \in SLists /\ first[l] = Null THEN Fresh ELSE last[l]
      BY <1>4, <1>5
    <3>2. SetEnds(l, Fresh, t) BY <2>3, <3>1 DEF PutFirst
    <3> QED BY <3>2, <1>5, EndsTypes
  <2> QED BY <2>2, <2>3
<1>8. astray' \in BOOLEAN BY DEF AppendTo, PutFirst, TypeOK
<1> QED BY <1>1, <1>3, <1>6, <1>7, <1>8 DEF TypeOK, call

(* Types: dequeue and pop.  A list that is not empty has a size above 0. *)
LEMMA TakeTypes ==
    ASSUME TypeOK, ~astray, NEW at, NEW len, Shape(at, len), NEW l \in Queues \cup Stacks,
           pc \in {"idle", "take"}, UNCHANGED call, ~IsEmpty(l), Take(l)
    PROVE  TypeOK'
<1>1. l \in Lists /\ l \notin SLists BY DEF Lists
<1>2. /\ Cells(at, len) /\ len[l] \in Nat /\ first[l] = at[l][1]
      /\ Wild \notin Nodes /\ Null \notin Nodes
      /\ at[l][1] \in Nodes \cup {Null} /\ Wild # Null
  BY <1>1, CellsEnd DEF Shape, Owns, Heads
<1>3. first[l] \in Nodes
  <2>1. len[l] = 0 /\ l \in Queues => last[l] = Null BY DEF Shape, Ends
  <2>2. at[l][1] = Null => len[l] = 0
    <3>1. \A i \in 1 .. len[l] : at[l][i] \in Nodes BY <1>1, <1>2, CellsEnd
    <3>2. len[l] > 0 => 1 \in 1 .. len[l] BY <1>2
    <3> QED BY <1>2, <3>1, <3>2
  <2> QED BY <1>2, <2>1, <2>2 DEF IsEmpty
<1>4. size[l] > 0
  <2>1. size[l] = len[l] BY <1>1, SizeBounds
  <2> QED BY <1>1, <1>2, <1>3, <2>1 DEF Cells
<1>5. size[l] - 1 \in 0 .. M BY <1>1, <1>4, SizeBounds
<1>6. size' \in [Lists -> 0 .. M]
  <2>1. size[l] + (-1) = size[l] - 1
    <3>1. size[l] \in Int BY <1>1, SizeBounds
    <3> QED BY <3>1
  <2>2. size' = [size EXCEPT ![l] = size[l] - 1] BY <2>1 DEF Take, Grows
  <2> QED BY <1>5, <2>2 DEF TypeOK
<1>7. next[first[l]] \in Pointers /\ Null \in Nodes \cup {Null}
  BY <1>3 DEF TypeOK, Pointers
<1>8. /\ live' \subseteq Nodes /\ key' \in [Nodes -> Keys \cup {Nothing}]
      /\ next' \in [Nodes -> Nodes \cup {Null}]
  BY <1>3, <1>7, FreeTypes DEF Take
<1>9. /\ first' \in [Lists -> Pointers] /\ last' \in [Lists -> Pointers]
      /\ cloned' \subseteq SLists
  <2>1. PICK t \in Pointers : t = IF l \in Queues /\ size[l] = 1 THEN Null ELSE last[l]
    BY <1>1 DEF TypeOK, Pointers
  <2>2. SetEnds(l, next[first[l]], t) BY <2>1 DEF Take
  <2> QED BY <1>1, <1>7, <2>2, EndsTypes
<1> QED BY <1>6, <1>8, <1>9 DEF TypeOK, call, Take

(* Types: the two places where slist_delete frees a node. *)
LEMMA DeleteTypes ==
    ASSUME TypeOK, ~astray, NEW at, NEW len, Shape(at, len),
           \/ \E l \in SLists, k \in Keys : DeleteHead(l, k)
           \/ DeleteUnlink
    PROVE  TypeOK'
<1>1. Null \in Pointers /\ Null \in Nodes \cup {Null} BY DEF Pointers
<1>2. ASSUME NEW l \in SLists, NEW k \in Keys, DeleteHead(l, k) PROVE TypeOK'
  <2>1. /\ pc = "idle" /\ UNCHANGED call /\ l \in Lists
        /\ first[l] \in live /\ first[l] \in Nodes /\ first[l] # Wild
    BY <1>2 DEF DeleteHead, AtOnce, Idle, Lists, TypeOK
  <2>2. size[l] > 0 /\ 0 \in 0 .. M
    <3>1. len[l] \in Nat /\ len[l] > 0 BY <2>1, HeadFacts
    <3>2. size[l] = len[l] /\ M \in Nat BY <2>1, SizeBounds
    <3> QED BY <3>1, <3>2
  <2>3. size[l] - 1 \in 0 .. M /\ size[l] \in Nat BY <2>1, <2>2, SizeBounds
  <2>4. size' \in [Lists -> 0 .. M]
    BY <1>2, <2>2, <2>3 DEF DeleteHead, Grows, TypeOK
  <2>5. /\ live' \subseteq Nodes /\ key' \in [Nodes -> Keys \cup {Nothing}]
        /\ next' \in [Nodes -> Nodes \cup {Null}]
    BY <1>1, <1>2, <2>1, FreeTypes DEF DeleteHead
  <2>6. next[first[l]] \in Pointers /\ last[l] \in Pointers
    BY <2>1 DEF TypeOK, Pointers
  <2>7. SetEnds(l, Null, Null) \/ SetEnds(l, next[first[l]], last[l])
    BY <1>2 DEF DeleteHead
  <2>8. /\ first' \in [Lists -> Pointers] /\ last' \in [Lists -> Pointers]
        /\ cloned' \subseteq SLists
    BY <1>1, <2>1, <2>6, <2>7, EndsTypes
  <2>9. astray' \in BOOLEAN BY <1>2 DEF DeleteHead
  <2> QED BY <2>1, <2>4, <2>5, <2>8, <2>9 DEF TypeOK, call
<1>3. CASE DeleteUnlink
  <2>1. /\ pc = "delete" /\ UNCHANGED <<pc, list, to, arg, prev>>
        /\ list \in Lists /\ list \in SLists
        /\ current # Null /\ next[current] # Null
    BY <1>3 DEF DeleteUnlink, Running, Shape, Loops, Lists
  <2>2. current \in Nodes BY <2>1 DEF TypeOK
  <2>3. PICK gone \in Nodes : gone = next[current] BY <2>1, <2>2 DEF TypeOK
  <2>4. PICK behind \in Nodes \cup {Null} :
           behind = IF gone = last[list] THEN Null ELSE next[gone]
    BY DEF TypeOK
  <2>5. size[list] > 0
    <3>1. PICK i \in Nat : current = at[list][i] BY <2>1 DEF Shape, Loops
    <3>2. Cells(at, len) BY DEF Shape, Owns
    <3>3. len[list] \in Nat /\ len[list] > 0
      BY <2>1, <2>2, <3>1, <3>2 DEF Cells
    <3>4. size[list] = len[list] BY <2>1, SizeBounds
    <3> QED BY <3>3, <3>4
  <2>6. size[list] - 1 \in 0 .. M /\ size[list] \in Nat BY <2>1, <2>5, SizeBounds
  <2>7. size' \in [Lists -> 0 .. M] BY <1>3, <2>1, <2>6 DEF DeleteUnlink, Grows, TypeOK
  <2>8. FreeNode(gone, current, behind) BY <1>3, <2>3, <2>4 DEF DeleteUnlink
  <2>9. /\ live' \subseteq Nodes /\ key' \in [Nodes -> Keys \cup {Nothing}]
        /\ next' \in [Nodes -> Nodes \cup {Null}]
    BY <2>8, FreeTypes
  <2>10. PICK t \in Pointers : t = IF gone = last[list] THEN current ELSE last[list]
    BY <2>1, <2>2 DEF TypeOK, Pointers
  <2>11. SetEnds(list, first[list], t) BY <1>3, <2>3, <2>10 DEF DeleteUnlink
  <2>12. /\ first' \in [Lists -> Pointers] /\ last' \in [Lists -> Pointers]
         /\ cloned' \subseteq SLists
    <3>1. first[list] \in Pointers BY <2>1 DEF TypeOK
    <3> QED BY <2>1, <2>11, <3>1, EndsTypes
  <2>13. astray' \in BOOLEAN BY <1>3 DEF DeleteUnlink
  <2>14. current' = behind BY <1>3, <2>3, <2>4 DEF DeleteUnlink
  <2> QED BY <2>1, <2>7, <2>9, <2>12, <2>13, <2>14 DEF TypeOK
<1> QED BY <1>2, <1>3

(* Types: the actions of reverse. *)
LEMMA ReverseTypes ==
    ASSUME TypeOK, NEW at, NEW len, Shape(at, len),
           (\E l \in SLists : ReverseBegin(l)) \/ ReverseTurn \/ ReverseEnd
    PROVE  TypeOK'
<1>1. ASSUME NEW l \in SLists, ReverseBegin(l) PROVE TypeOK'
  <2>1. /\ pc' = "reverse" /\ list' = l /\ to' = NoList /\ arg' = Nothing
        /\ UNCHANGED <<live, key, next, size, prev, astray>>
        /\ l \in Lists /\ current' = first[l] /\ first[l] \in live
        /\ SetEnds(l, first[l], first[l])
    BY <1>1 DEF ReverseBegin, Starts, heap, Lists
  <2>2. first[l] \in Nodes /\ first[l] \in Pointers BY <2>1 DEF TypeOK, Pointers
  <2>3. /\ first' \in [Lists -> Pointers] /\ last' \in [Lists -> Pointers]
        /\ cloned' \subseteq SLists
    BY <2>1, <2>2, EndsTypes
  <2> QED BY <2>1, <2>2, <2>3 DEF TypeOK
<1>2. ASSUME ReverseTurn \/ ReverseEnd PROVE current \in Nodes /\ list \in Lists
  <2>1. pc = "reverse" BY <1>2 DEF ReverseTurn, ReverseEnd, Running
  <2>2. list \in Lists /\ Turning(at, len) BY <2>1 DEF Shape, Loops, Lists
  <2>3. Cells(at, len) BY DEF Shape, Owns
  <2> QED BY <2>2, <2>3 DEF Turning, Cells
<1>3. CASE ReverseTurn
  <2>1. current \in Nodes BY <1>2, <1>3
  <2>2. current' \in Nodes \cup {Null} /\ prev' \in Nodes
    BY <1>3, <2>1 DEF ReverseTurn, TypeOK
  <2>3. next' \in [Nodes -> Nodes \cup {Null}] BY <1>3 DEF ReverseTurn, TypeOK
  <2> QED BY <1>3, <2>2, <2>3 DEF ReverseTurn, TypeOK, heads
<1>4. CASE ReverseEnd
  <2>1. current \in Pointers /\ list \in Lists /\ last[list] \in Pointers
    BY <1>2, <1>4 DEF Pointers, TypeOK
  <2>2. /\ first' \in [Lists -> Pointers] /\ last' \in [Lists -> Pointers]
        /\ cloned' \subseteq SLists
    BY <1>4, <2>1, EndsTypes DEF ReverseEnd
  <2>3. next' \in [Nodes -> Nodes \cup {Null}] BY <1>4 DEF ReverseEnd, TypeOK
  <2>4. /\ pc' = "idle" /\ list' = NoList /\ to' = NoList /\ arg' = Nothing
        /\ current' = Null /\ prev' = Null /\ UNCHANGED <<live, key, size, astray>>
    BY <1>4 DEF ReverseEnd, Returns
  <2> QED BY <2>2, <2>3, <2>4 DEF TypeOK
<1> QED BY <1>1, <1>3, <1>4

(* Types: the actions of clone. *)
LEMMA CloneTypes ==
    ASSUME TypeOK, NEW at, NEW len, Shape(at, len),
           (\E l, m \in SLists : CloneBegin(l, m)) \/ CloneNode \/ CloneEnd
    PROVE  TypeOK'
<1>1. ASSUME NEW l \in SLists, NEW m \in SLists, CloneBegin(l, m) PROVE TypeOK'
  <2>1. /\ pc' = "clone" /\ list' = l /\ to' = m /\ arg' = Nothing
        /\ UNCHANGED <<live, key, next, last, size, prev, cloned, astray>>
        /\ l \in Lists /\ m \in Lists /\ current' = first[l] /\ first[l] # Wild
        /\ first' = [first EXCEPT ![m] = Null]
    BY <1>1 DEF CloneBegin, Starts, heap, Lists
  <2>2. current' \in Nodes \cup {Null} /\ Null \in Pointers
    BY <2>1 DEF TypeOK, Pointers
  <2> QED BY <2>1, <2>2 DEF TypeOK
<1>2. CASE CloneNode
  <2>1. current # Null /\ UNCHANGED <<size, pc, list, to, arg, cloned, astray>>
    BY <1>2 DEF CloneNode
  <2>2. current \in Nodes BY <2>1 DEF TypeOK
  <2>3. key[current] \in Keys \cup {Nothing} /\ next[current] \in Nodes \cup {Null}
    BY <2>2 DEF TypeOK
  <2>4. /\ live' \subseteq Nodes /\ key' \in [Nodes -> Keys \cup {Nothing}]
        /\ next' \in [Nodes -> Nodes \cup {Null}]
        /\ Fresh \in Nodes
    BY <1>2, <2>3, MakeTypes DEF CloneNode
  <2>5. first' \in [Lists -> Pointers] BY <1>2, <2>4 DEF CloneNode, TypeOK, Pointers
  <2>6. last' \in [Lists -> Pointers] BY <1>2, <2>2 DEF CloneNode, TypeOK, Pointers
  <2>7. current' \in Nodes \cup {Null} /\ prev' \in Nodes BY <1>2, <2>3, <2>4 DEF CloneNode
  <2> QED BY <2>1, <2>4, <2>5, <2>6, <2>7 DEF TypeOK
<1>3. CASE CloneEnd
  <2>1. /\ pc' = "idle" /\ list' = NoList /\ to' = NoList /\ arg' = Nothing
        /\ current' = Null /\ prev' = Null
        /\ UNCHANGED <<live, key, next, first, last, astray>>
        /\ size' = [size EXCEPT ![to] = size[list]]
        /\ cloned' = cloned \cup {to}
    BY <1>3 DEF CloneEnd, Returns, heap
  <2>2. to \in SLists /\ list \in Lists
    BY <1>3 DEF CloneEnd, Running, Shape, Loops, Lists
  <2>3. size' \in [Lists -> 0 .. M] BY <2>1, <2>2 DEF TypeOK
  <2> QED BY <2>1, <2>2, <2>3 DEF TypeOK
<1> QED BY <1>1, <1>2, <1>3

(* Types: the actions of slist_clear. *)
LEMMA ClearTypes ==
    ASSUME TypeOK, NEW at, NEW len, Shape(at, len),
           (\E l \in SLists : ClearBegin(l) \/ InitList(l)) \/ ClearFree \/ ClearEnd
    PROVE  TypeOK'
<1>1. Null \in Pointers /\ Wild \in Pointers BY DEF Pointers
<1>2. 0 \in 0 .. M
  <2>1. M \in Nat BY FS_CardinalityType DEF M
  <2> QED BY <2>1
<1>3. ASSUME NEW l \in SLists, ClearBegin(l) PROVE TypeOK'
  <2>1. /\ pc' = "free" /\ list' = l /\ to' = NoList /\ arg' = Nothing
        /\ UNCHANGED <<heap, heads, prev, cloned, astray>>
        /\ l \in Lists /\ current' = first[l] /\ first[l] # Wild
    BY <1>3 DEF ClearBegin, Starts, Lists
  <2>2. current' \in Nodes \cup {Null} BY <2>1 DEF TypeOK, Pointers
  <2> QED BY <2>1, <2>2 DEF TypeOK, heap, heads
<1>4. ASSUME NEW l \in SLists, InitList(l) PROVE TypeOK'
  <2>1. UNCHANGED <<heap, call, astray>> /\ l \in Lists
        /\ size' = [size EXCEPT ![l] = 0] /\ SetEnds(l, Null, Null)
    BY <1>4 DEF InitList, AtOnce, Lists
  <2>2. /\ first' \in [Lists -> Pointers] /\ last' \in [Lists -> Pointers]
        /\ cloned' \subseteq SLists
    BY <1>1, <2>1, EndsTypes
  <2>3. size' \in [Lists -> 0 .. M] BY <1>2, <2>1 DEF TypeOK
  <2> QED BY <2>1, <2>2, <2>3 DEF TypeOK, heap, call
<1>5. CASE ClearFree
  <2>1. /\ UNCHANGED <<first, size, pc, list, to, arg, prev, cloned, astray>>
        /\ current # Null /\ current' = next[current] /\ last' = Dangling(last)
        /\ FreeNode(current, Null, Null)
    BY <1>5 DEF ClearFree
  <2>2. current \in Nodes BY <2>1 DEF TypeOK
  <2>3. /\ live' \subseteq Nodes /\ key' \in [Nodes -> Keys \cup {Nothing}]
        /\ next' \in [Nodes -> Nodes \cup {Null}]
    BY <2>1, <2>2, FreeTypes
  <2>4. last' \in [Lists -> Pointers] BY <2>1 DEF TypeOK, Dangling, Pointers
  <2>5. current' \in Nodes \cup {Null} BY <2>1, <2>2 DEF TypeOK
  <2> QED BY <2>1, <2>3, <2>4, <2>5 DEF TypeOK
<1>6. CASE ClearEnd
  <2>1. /\ pc' = "idle" /\ list' = NoList /\ to' = NoList /\ arg' = Nothing
        /\ current' = Null /\ prev' = Null
        /\ UNCHANGED <<live, key, next, cloned, astray>>
    BY <1>6 DEF ClearEnd, Returns, heap
  <2>2. first' \in [Lists -> Pointers] BY <1>1, <1>6 DEF ClearEnd, TypeOK
  <2>3. last' \in [Lists -> Pointers] BY <1>1, <1>6 DEF ClearEnd, TypeOK
  <2>4. size' \in [Lists -> 0 .. M] BY <1>2, <1>6 DEF ClearEnd, TypeOK
  <2> QED BY <2>1, <2>2, <2>3, <2>4 DEF TypeOK
<1> QED BY <1>3, <1>4, <1>5, <1>6

(* Types: the actions that write no pointer. *)
LEMMA QuietTypes ==
    ASSUME TypeOK,
           \/ \E l \in Lists : TakeOut(l) /\ IsEmpty(l)
           \/ \E l \in Queues \cup Stacks : ClearAll(l)
           \/ ClearAllEnd
           \/ \E l \in SLists, k \in Keys :
                 \/ Locate(l, k) \/ DeleteEmpty(l, k) \/ DeleteLater(l, k)
                 \/ \E new \in Keys : ChangeKey(l, k, new)
           \/ DeletePass \/ DeleteEnd
    PROVE  TypeOK'
<1>1. CASE \E l \in Lists : TakeOut(l) /\ IsEmpty(l)
  <2>1. UNCHANGED <<heap, heads, call, cloned, astray>> BY <1>1 DEF TakeOut, AtOnce
  <2> QED BY <2>1 DEF TypeOK, heap, heads, call
<1>2. ASSUME NEW l \in Queues \cup Stacks, ClearAll(l) PROVE TypeOK'
  <2>1. /\ pc' = "take" /\ list' = l /\ to' = NoList /\ arg' = Nothing
        /\ UNCHANGED <<heap, heads, current, prev, cloned, astray>> /\ l \in Lists
    BY <1>2 DEF ClearAll, Starts, Lists
  <2> QED BY <2>1 DEF TypeOK, heap, heads
<1>3. CASE ClearAllEnd \/ DeleteEnd
  <2>1. /\ pc' = "idle" /\ list' = NoList /\ to' = NoList /\ arg' = Nothing
        /\ current' = Null /\ prev' = Null /\ UNCHANGED <<heap, heads, cloned, astray>>
    BY <1>3 DEF ClearAllEnd, DeleteEnd, Returns
  <2> QED BY <2>1 DEF TypeOK, heap, heads
<1>4. ASSUME NEW l \in SLists, NEW k \in Keys, Locate(l, k) \/ DeleteEmpty(l, k)
      PROVE  TypeOK'
  <2>1. UNCHANGED <<heap, heads, call, cloned, astray>>
    BY <1>4 DEF Locate, DeleteEmpty, AtOnce
  <2> QED BY <2>1 DEF TypeOK, heap, heads, call
<1>5. ASSUME NEW l \in SLists, NEW k \in Keys, NEW new \in Keys, ChangeKey(l, k, new)
      PROVE  TypeOK'
  <2>1. /\ UNCHANGED <<live, next, heads, call, cloned, astray>>
        /\ key' = [n \in Nodes |-> IF n \in ChainSet(l) /\ key[n] = k THEN new ELSE key[n]]
    BY <1>5 DEF ChangeKey, AtOnce
  <2>2. key' \in [Nodes -> Keys \cup {Nothing}] BY <2>1 DEF TypeOK
  <2> QED BY <2>1, <2>2 DEF TypeOK, heads, call
<1>6. ASSUME NEW l \in SLists, NEW k \in Keys, DeleteLater(l, k) PROVE TypeOK'
  <2>1. /\ pc' = "delete" /\ list' = l /\ to' = NoList /\ arg' = k
        /\ current' = first[l] /\ first[l] \in live /\ l \in Lists
        /\ UNCHANGED <<heap, heads, prev, cloned, astray>>
    BY <1>6 DEF DeleteLater, Starts, Lists
  <2> QED BY <2>1 DEF TypeOK, heap, heads
<1>7. CASE DeletePass
  <2>1. /\ UNCHANGED <<heap, heads, pc, list, to, arg, prev, cloned, astray>>
        /\ current # Null /\ current' = next[current]
    BY <1>7 DEF DeletePass
  <2>2. current' \in Nodes \cup {Null} BY <2>1 DEF TypeOK
  <2> QED BY <2>1, <2>2 DEF TypeOK, heap, heads
<1> QED BY <1>1, <1>2, <1>3, <1>4, <1>5, <1>6, <1>7
-----------------------------------------------------------------------------
(* The initial states satisfy the invariant: no list has a node. *)
LEMMA InitInv == Init => Inv
<1> SUFFICES ASSUME Init PROVE Inv
  OBVIOUS
<1>1. M \in Nat BY FS_CardinalityType DEF M
<1>2. /\ first \in [Lists -> Pointers] /\ last = first
      /\ \A l \in Lists : first[l] = Null \/ (l \in SLists /\ first[l] = Wild)
      /\ \A l \in Queues : last[l] = Null
  <2>1. PICK unset \in SUBSET SLists :
           first = [l \in Lists |-> IF l \in unset THEN Wild ELSE Null] /\ last = first
    BY DEF Init
  <2>2. unset \subseteq SLists BY <2>1
  <2> QED BY <2>1, <2>2 DEF Pointers, Lists
<1>3. TypeOK
  <2>1. 0 \in 0 .. M BY <1>1
  <2> QED BY <2>1, <1>2 DEF Init, TypeOK, Pointers
<1> DEFINE at == [l \in Lists |-> [i \in Nat |-> Null]]
           len == [l \in Lists |-> 0]
<1>4. Owns(at, len, live) BY DEF Init, Owns, Cells, Covers, Apart
<1>5. Links(at) /\ Heads(at, len) /\ Sizes(len) /\ Ends(at, len)
  BY <1>2 DEF Init, Links, Heads, Sizes, Ends
<1>6. Loops(at, len) BY DEF Init, Loops
<1>7. \E a, n : Shape(a, n) BY <1>4, <1>5, <1>6 DEF Shape
<1> QED BY <1>3, <1>7 DEF Inv

(* Every step preserves the invariant. *)
LEMMA NextInv == Inv /\ [Next]_vars => Inv'
<1> SUFFICES ASSUME Inv, [Next]_vars PROVE Inv'
  OBVIOUS
<1>1. TypeOK BY DEF Inv
<1>2. CASE UNCHANGED vars
  BY <1>2 DEF vars, heap, heads, call, Inv, TypeOK, Shape, Owns, Links, Heads, Sizes,
              Ends, Loops, Turning
<1>3. CASE Stopped
  BY <1>3 DEF Stopped, vars, heap, heads, call, Inv, TypeOK
<1>4. CASE Next /\ ~Stopped
  <2>1. ~astray
    BY <1>4 DEF Next, SListCall, Work, AppendTo, PutFirst, TakeOut, ClearAll, Locate,
                ChangeKey, DeleteEmpty, DeleteHead, DeleteLater, ReverseBegin, CloneBegin,
                ClearBegin, InitList, ClearTake, ClearAllEnd, DeletePass, DeleteUnlink,
                DeleteEnd, ReverseTurn, ReverseEnd, CloneNode, CloneEnd, ClearFree,
                ClearEnd, AtOnce, Idle, Running
  <2>2. PICK at, len : Shape(at, len) BY <2>1 DEF Inv
  <2>3. ASSUME NEW l \in Queues, NEW k \in Keys, AppendTo(l, k) PROVE Inv'
    <3>1. TypeOK' BY <1>1, <2>1, <2>2, <2>3, InsertTypes DEF Lists
    <3> QED BY <1>1, <2>1, <2>2, <2>3, <3>1, AppendShape DEF Inv
  <2>4. ASSUME NEW l \in Stacks, NEW k \in Keys, PutFirst(l, k) PROVE Inv'
    <3>1. TypeOK' BY <1>1, <2>1, <2>2, <2>4, InsertTypes DEF Lists
    <3> QED BY <1>1, <2>1, <2>2, <2>4, <3>1, PutShape DEF Inv
  <2>5. ASSUME NEW l \in Queues \cup Stacks, TakeOut(l) PROVE Inv'
    <3>1. l \in Lists /\ pc = "idle" /\ UNCHANGED call BY <2>5 DEF Lists, TakeOut, AtOnce, Idle
    <3>2. CASE IsEmpty(l)
      <4>1. TypeOK' BY <1>1, <2>5, <3>1, <3>2, QuietTypes
      <4> QED BY <1>1, <2>1, <2>2, <2>5, <3>1, <3>2, <4>1, QuietShape DEF Inv
    <3>3. CASE ~IsEmpty(l)
      <4>1. Take(l) BY <2>5, <3>3 DEF TakeOut
      <4>2. TypeOK' BY <1>1, <2>1, <2>2, <3>1, <3>3, <4>1, TakeTypes
      <4> QED BY <1>1, <2>2, <3>1, <3>3, <4>1, <4>2, TakeShape DEF Inv, call
    <3> QED BY <3>2, <3>3
  <2>6. ASSUME NEW l \in Queues \cup Stacks, ClearAll(l) PROVE Inv'
    <3>1. TypeOK' BY <1>1, <2>6, QuietTypes
    <3> QED BY <1>1, <2>1, <2>2, <2>6, <3>1, QuietShape DEF Inv
  <2>7. ASSUME NEW l \in SLists, SListCall(l) PROVE Inv'
    <3>1. ASSUME NEW k \in Keys, AppendTo(l, k) PROVE Inv'
      <4>1. TypeOK' BY <1>1, <2>1, <2>2, <3>1, InsertTypes DEF Lists
      <4> QED BY <1>1, <2>1, <2>2, <3>1, <4>1, AppendShape DEF Inv
    <3>2. ASSUME NEW k \in Keys, PutFirst(l, k) PROVE Inv'
      <4>1. TypeOK' BY <1>1, <2>1, <2>2, <3>2, InsertTypes DEF Lists
      <4> QED BY <1>1, <2>1, <2>2, <3>2, <4>1, PutShape DEF Inv
    <3>3. ASSUME NEW k \in Keys,
                 \/ Locate(l, k) \/ DeleteEmpty(l, k) \/ DeleteLater(l, k)
                 \/ \E new \in Keys : ChangeKey(l, k, new)
          PROVE  Inv'
      <4>1. TypeOK' BY <1>1, <3>3, QuietTypes
      <4> QED BY <1>1, <2>1, <2>2, <3>3, <4>1, QuietShape DEF Inv
    <3>4. ASSUME NEW k \in Keys, DeleteHead(l, k) PROVE Inv'
      <4>1. TypeOK' BY <1>1, <2>1, <2>2, <3>4, DeleteTypes
      <4> QED BY <1>1, <2>1, <2>2, <3>4, <4>1, DeleteHeadShape DEF Inv
    <3>5. CASE ReverseBegin(l)
      <4>1. TypeOK' BY <1>1, <2>2, <3>5, ReverseTypes
      <4> QED BY <1>1, <2>1, <2>2, <3>5, <4>1, ReverseBeginShape DEF Inv
    <3>6. ASSUME NEW m \in SLists, CloneBegin(l, m) PROVE Inv'
      <4>1. TypeOK' BY <1>1, <2>2, <3>6, CloneTypes
      <4> QED BY <1>1, <2>1, <2>2, <3>6, <4>1, CloneBeginShape DEF Inv
    <3>7. CASE ClearBegin(l)
      <4>1. TypeOK' BY <1>1, <2>2, <3>7, ClearTypes
      <4> QED BY <1>1, <2>1, <2>2, <3>7, <4>1, QuietShape DEF Inv
    <3>8. CASE InitList(l)
      <4>1. TypeOK' BY <1>1, <2>2, <3>8, ClearTypes
      <4> QED BY <1>1, <2>1, <2>2, <3>8, <4>1, InitListShape DEF Inv
    <3> QED BY <2>7, <3>1, <3>2, <3>3, <3>4, <3>5, <3>6, <3>7, <3>8 DEF SListCall
  <2>8. CASE ClearTake
    <3>1. /\ pc = "take" /\ UNCHANGED call /\ ~IsEmpty(list) /\ Take(list)
      BY <2>8 DEF ClearTake, Running
    <3>2. list \in Queues \cup Stacks BY <2>2, <3>1 DEF Shape, Loops
    <3>3. TypeOK' BY <1>1, <2>1, <2>2, <3>1, <3>2, TakeTypes
    <3> QED BY <1>1, <2>2, <3>1, <3>2, <3>3, TakeShape DEF Inv, call
  <2>9. CASE ClearAllEnd \/ DeletePass \/ DeleteEnd
    <3>1. TypeOK' BY <1>1, <2>9, QuietTypes
    <3> QED BY <1>1, <2>1, <2>2, <2>9, <3>1, QuietShape DEF Inv
  <2>10. CASE DeleteUnlink
    <3>1. TypeOK' BY <1>1, <2>1, <2>2, <2>10, DeleteTypes
    <3> QED BY <1>1, <2>1, <2>2, <2>10, <3>1, UnlinkShape DEF Inv
  <2>11. CASE ReverseTurn \/ ReverseEnd
    <3>1. TypeOK' BY <1>1, <2>2, <2>11, ReverseTypes
    <3> QED BY <1>1, <2>1, <2>2, <2>11, <3>1, ReverseTurnShape, ReverseEndShape DEF Inv
  <2>12. CASE CloneNode \/ CloneEnd
    <3>1. TypeOK' BY <1>1, <2>2, <2>12, CloneTypes
    <3> QED BY <1>1, <2>1, <2>2, <2>12, <3>1, CloneNodeShape, CloneEndShape DEF Inv
  <2>13. CASE ClearFree \/ ClearEnd
    <3>1. TypeOK' BY <1>1, <2>2, <2>13, ClearTypes
    <3> QED BY <1>1, <2>1, <2>2, <2>13, <3>1, ClearFreeShape, ClearEndShape DEF Inv
  <2> QED
    BY <1>4, <2>3, <2>4, <2>5, <2>6, <2>7, <2>8, <2>9, <2>10, <2>11, <2>12, <2>13
       DEF Next, Work
<1> QED BY <1>2, <1>3, <1>4

(* The invariant holds in every state. *)
LEMMA Invariance == Spec => []Inv
BY InitInv, NextInv, PTL DEF Spec

(* The header fields, the pointers and the counts are of their types in every
   state; a size never wraps below 0. *)
THEOREM ListsKeepTypes == Spec => []TypeOK
<1>1. Inv => TypeOK BY DEF Inv
<1> QED BY <1>1, Invariance, PTL

(* Between calls every allocated node is in one list, once. *)
THEOREM NodesStayOwned == Spec => []NodesOwned
<1>1. Inv => NodesOwned
  <2> SUFFICES ASSUME Inv, Settled PROVE NodesOwned
    BY DEF NodesOwned
  <2>1. TypeOK /\ pc = "idle" BY DEF Inv, Settled
  <2>2. PICK at, len : Shape(at, len) BY DEF Inv, Settled
  <2>3. \A l \in Lists : Chain(l) = [i \in 1 .. len[l] |-> at[l][i]]
    BY <2>1, <2>2, ChainIsCells
  <2>4. \A l \in Lists : DOMAIN Chain(l) = 1 .. len[l] /\ 1 .. len[l] \subseteq Nat
    BY <2>2, <2>3, CellsEnd DEF Shape, Owns
  <2>5. /\ \A l \in Lists, i \in Nat : at[l][i] \in Nodes <=> i \in 1 .. len[l]
        /\ Apart(at) /\ Covers(at, live)
    BY <2>2 DEF Shape, Owns, Cells
  <2>6. \A l \in Lists : \A x : x \in ChainSet(l) <=> \E i \in 1 .. len[l] : x = at[l][i]
    BY <2>3, <2>4 DEF ChainSet, ToSet
  <2>7. live = UNION {ChainSet(l) : l \in Lists}
    <3>1. ASSUME NEW x \in live PROVE \E l \in Lists : x \in ChainSet(l)
      <4>1. PICK l \in Lists, i \in Nat : at[l][i] = x BY <2>5 DEF Covers
      <4>2. i \in 1 .. len[l] BY <2>1, <2>5, <4>1 DEF TypeOK
      <4> QED BY <2>6, <4>1, <4>2
    <3>2. ASSUME NEW l \in Lists, NEW x \in ChainSet(l) PROVE x \in live
      BY <2>4, <2>5, <2>6 DEF Covers
    <3> QED BY <3>1, <3>2
  <2>8. ASSUME NEW l \in Lists PROVE IsInjective(Chain(l))
    <3> SUFFICES ASSUME NEW i \in 1 .. len[l], NEW j \in 1 .. len[l],
                        Chain(l)[i] = Chain(l)[j]
                 PROVE  i = j
      BY <2>4 DEF IsInjective
    <3>1. i \in Nat /\ j \in Nat BY <2>4
    <3>2. Chain(l)[i] = at[l][i] /\ Chain(l)[j] = at[l][j] BY <2>3
    <3>3. at[l][i] \in Nodes BY <2>5, <3>1
    <3>4. at[l][i] = at[l][j] BY <3>2
    <3>5. Apart(at) BY <2>5
    <3> QED BY <3>1, <3>3, <3>4, <3>5 DEF Apart
  <2>9. ASSUME NEW l \in Lists, NEW m \in Lists, l # m, NEW x \in ChainSet(l),
               x \in ChainSet(m)
        PROVE  FALSE
    <3>1. PICK i \in 1 .. len[l] : x = at[l][i] BY <2>6
    <3>2. PICK j \in 1 .. len[m] : x = at[m][j] BY <2>6, <2>9
    <3>3. i \in Nat /\ j \in Nat /\ x \in Nodes BY <2>4, <2>5, <3>1
    <3> QED BY <2>5, <2>9, <3>1, <3>2, <3>3 DEF Apart
  <2> QED BY <2>7, <2>8, <2>9 DEF NodesOwned
<1> QED BY <1>1, Invariance, PTL

(* Between calls size is the number of nodes, a queue's pointers are NULL
   together, and last points to the last node of every list but a clone. *)
THEOREM EndsStayRight == Spec => []EndsAreRight
<1>1. Inv => EndsAreRight
  <2> SUFFICES ASSUME Inv, Settled PROVE EndsAreRight
    BY DEF EndsAreRight, SizeIsLength, LastIsRight
  <2>1. TypeOK /\ pc = "idle" BY DEF Inv, Settled
  <2>2. PICK at, len : Shape(at, len) BY DEF Inv, Settled
  <2>3. ASSUME NEW l \in Lists PROVE size[l] = Len(Chain(l))
    BY <2>1, <2>2, ChainFacts DEF Shape, Sizes
  <2>4. ASSUME NEW l \in Queues PROVE first[l] = Null <=> last[l] = Null
    <3>1. l \in Lists /\ l \notin SLists /\ l \notin Stacks /\ l \notin cloned
      BY <2>1 DEF Lists, TypeOK
    <3>2. first[l] = at[l][1] BY <2>1, <2>2, <3>1 DEF Shape, Heads
    <3>3. /\ len[l] \in Nat /\ Null \notin Nodes
          /\ \A i \in Nat : i > len[l] => at[l][i] = Null
          /\ \A i \in 1 .. len[l] : at[l][i] \in Nodes
      BY <2>2, <3>1, CellsEnd DEF Shape, Owns
    <3>4. CASE len[l] = 0
      <4>1. last[l] = Null BY <2>2, <3>4 DEF Shape, Ends
      <4> QED BY <3>2, <3>3, <3>4, <4>1
    <3>5. CASE len[l] > 0
      <4>1. last[l] = at[l][len[l]] BY <2>1, <2>2, <3>1, <3>5 DEF Shape, Ends
      <4>2. 1 \in 1 .. len[l] /\ len[l] \in 1 .. len[l] BY <3>3, <3>5
      <4> QED BY <3>2, <3>3, <4>1, <4>2
    <3> QED BY <3>3, <3>4, <3>5
  <2>5. ASSUME NEW l \in Lists \ (Stacks \cup cloned) PROVE LastRight(l)
    BY <2>1, <2>2, ChainFacts DEF Shape, Ends
  <2> QED BY <2>3, <2>4, <2>5 DEF EndsAreRight, SizeIsLength, LastIsRight
<1> QED BY <1>1, Invariance, PTL

(* append, delete and the loop of delete follow a pointer out of their list
   only through the last that slist_clone left wrong. *)
OnlyClonesStray ==
    [][~astray /\ astray' =>
           \/ \E l \in cloned, k \in Keys : AppendTo(l, k) \/ DeleteHead(l, k)
           \/ DeleteUnlink /\ list \in cloned]_vars

(* These are the places of singlelist.c and queue.c that follow or compare
   last: on a list that is no clone it never leads astray. *)
THEOREM ClonesAloneStray == Spec => OnlyClonesStray
<1> DEFINE Through == \/ \E l \in cloned, k \in Keys : AppendTo(l, k) \/ DeleteHead(l, k)
                      \/ DeleteUnlink /\ list \in cloned
<1>1. Inv /\ [Next]_vars => [~astray /\ astray' => Through]_vars
  <2> SUFFICES ASSUME Inv, Next, ~astray, astray' PROVE Through
    OBVIOUS
  <2>1. TypeOK BY DEF Inv
  <2>2. PICK at, len : Shape(at, len) BY DEF Inv
  <2>3. ASSUME NEW l \in Queues \cup SLists, pc = "idle", ~LastRight(l)
        PROVE  l \in cloned
    BY <2>1, <2>2, <2>3, ChainFacts DEF Shape, Ends, Lists
  <2>4. ASSUME NEW l \in Queues \cup SLists, NEW k \in Keys, AppendTo(l, k) PROVE Through
    <3>1. pc = "idle" /\ ~LastRight(l) BY <2>4 DEF AppendTo, AtOnce, Idle
    <3> QED BY <2>3, <2>4, <3>1
  <2>5. ASSUME NEW l \in SLists, NEW k \in Keys, DeleteHead(l, k) PROVE Through
    <3>1. pc = "idle" /\ ~LastRight(l) BY <2>5 DEF DeleteHead, AtOnce, Idle
    <3> QED BY <2>3, <2>5, <3>1
  <2>6. CASE DeleteUnlink
    <3> SUFFICES ASSUME list \notin cloned PROVE FALSE
      BY <2>6
    <3>1. /\ pc = "delete" /\ list \in SLists /\ list \in Lists /\ list \notin Stacks
          /\ current # Null /\ next[current] # Null
          /\ next[current] = last[list] /\ next[next[current]] # Null
      BY <2>2, <2>6 DEF DeleteUnlink, Running, Shape, Loops, Lists
    <3>2. PICK i \in Nat : current = at[list][i] BY <2>2, <3>1 DEF Shape, Loops
    <3>3. /\ len[list] \in Nat /\ Cells(at, len) /\ Null \notin Nodes
          /\ at[list][len[list] + 1] = Null
      BY <2>2, <3>1, CellsEnd DEF Shape, Owns
    <3>4. current \in Nodes BY <2>1, <3>1 DEF TypeOK
    <3>5. next[current] = at[list][i + 1] BY <2>2, <3>1, <3>2, <3>4 DEF Shape, Links
    <3>6. at[list][i + 1] \in Nodes BY <2>1, <3>1, <3>4, <3>5 DEF TypeOK
    <3>7. len[list] > 0 BY <3>1, <3>3, <3>6 DEF Cells
    <3>8. last[list] = at[list][len[list]] BY <2>2, <3>1, <3>7 DEF Shape, Ends
    <3>9. next[at[list][len[list]]] = at[list][len[list] + 1]
      BY <2>2, <3>1, <3>3, <3>5, <3>6, <3>8 DEF Shape, Links
    <3> QED BY <3>1, <3>3, <3>8, <3>9
  <2>7. astray' = astray \/ Through
    <3> HIDE DEF Through
    <3> QED
      BY <2>4, <2>5, <2>6
         DEF Next, SListCall, Work, Stopped, vars, PutFirst, TakeOut, ClearAll, Locate,
             ChangeKey, DeleteEmpty, DeleteLater, ReverseBegin, CloneBegin,
             ClearBegin, InitList, ClearTake, ClearAllEnd, DeletePass, DeleteEnd,
             ReverseTurn, ReverseEnd, CloneNode, CloneEnd, ClearFree, ClearEnd, Take
  <2> QED BY <2>7
<1> QED BY <1>1, Invariance, PTL DEF Spec, OnlyClonesStray
-----------------------------------------------------------------------------
(* The calls do to the sequences of keys what their headers say.  The keys of
   the nodes, in the order of at, are the words of the lists. *)

Marks == Keys \cup {Nothing}

(* The keys ky of the nodes, in the order of each list. *)
Words(at, len, ky) == [l \in Lists |-> [i \in 1 .. len[l] |-> ky[at[l][i]]]]

(* A list's word is a sequence as long as the list. *)
LEMMA WordsAreSeqs ==
    ASSUME NEW at, NEW len, Cells(at, len), NEW ky \in [Nodes -> Marks], NEW l \in Lists
    PROVE  /\ Words(at, len, ky)[l] \in Seq(Marks)
           /\ Len(Words(at, len, ky)[l]) = len[l] /\ len[l] \in Nat
           /\ DOMAIN Words(at, len, ky)[l] = 1 .. len[l]
           /\ \A i \in 1 .. len[l] : Words(at, len, ky)[l][i] = ky[at[l][i]]
<1>1. len[l] \in Nat /\ \A i \in 1 .. len[l] : at[l][i] \in Nodes BY CellsEnd
<1>2. Words(at, len, ky)[l] = [i \in 1 .. len[l] |-> ky[at[l][i]]] BY DEF Words
<1>3. Words(at, len, ky)[l] \in [1 .. len[l] -> Marks] BY <1>1, <1>2
<1>4. Words(at, len, ky)[l] \in Seq(Marks) BY <1>1, <1>3, SeqDef
<1>5. Len(Words(at, len, ky)[l]) = len[l] BY <1>1, <1>2
<1> QED BY <1>1, <1>2, <1>4, <1>5

(* Table A differs from B in the word of list l at most, which is s in A. *)
Others(A, B, l)     == \A m \in Lists \ {l} : A[m] = B[m]
Rewrites(A, B, l, s) == A = [B EXCEPT ![l] = s]

LEMMA Rewritten ==
    ASSUME NEW at, NEW len, NEW ky, NEW a, NEW n, NEW kz, NEW l \in Lists,
           Others(Words(a, n, kz), Words(at, len, ky), l)
    PROVE  Rewrites(Words(a, n, kz), Words(at, len, ky), l, Words(a, n, kz)[l])
<1> DEFINE A == Words(a, n, kz)
           B == Words(at, len, ky)
<1>1. A = [m \in Lists |-> A[m]] /\ B = [m \in Lists |-> B[m]] BY DEF Words
<1> HIDE DEF A, B
<1>2. \A m \in Lists \ {l} : A[m] = B[m] BY DEF A, B, Others
<1>3. A = [B EXCEPT ![l] = A[l]] BY <1>1, <1>2
<1> QED BY <1>3 DEF A, B, Rewrites

(* Node f gets key k. *)
Written(ky, kz, f, k) ==
    /\ ky \in [Nodes -> Marks] /\ kz \in [Nodes -> Marks]
    /\ f \in Nodes /\ kz[f] = k
    /\ \A x \in Nodes \ {f} : kz[x] = ky[x]

(* Word v is w with k put at place p, or without its place p. *)
More(w, v, p, k) ==
    /\ Len(v) = Len(w) + 1
    /\ \A i \in 1 .. Len(v) : v[i] = IF i < p THEN w[i] ELSE IF i = p THEN k ELSE w[i - 1]
Less(w, v, p) ==
    /\ Len(v) = Len(w) - 1
    /\ \A i \in 1 .. Len(v) : v[i] = IF i < p THEN w[i] ELSE w[i + 1]

(* A new node f with key k. *)
LEMMA WordsGrown ==
    ASSUME NEW at, NEW len, NEW nodes, Owns(at, len, nodes),
           NEW l \in Lists, NEW p \in Nat, 1 <= p, p <= len[l] + 1,
           NEW f \in Nodes \ nodes, NEW a, NEW n, Grown(at, len, l, p, f, a, n), Cells(a, n),
           NEW ky, NEW kz, NEW k, Written(ky, kz, f, k)
    PROVE  /\ Others(Words(a, n, kz), Words(at, len, ky), l)
           /\ More(Words(at, len, ky)[l], Words(a, n, kz)[l], p, k)
<1>1. /\ Cells(at, len) /\ Covers(at, nodes)
      /\ len[l] \in Nat
      /\ \A m \in Lists : \A i \in 1 .. len[m] : i \in Nat /\ at[m][i] \in Nodes
  BY CellsEnd DEF Owns
<1>2. \A m \in Lists : \A i \in 1 .. len[m] : kz[at[m][i]] = ky[at[m][i]]
  BY <1>1 DEF Covers, Written
<1>3. /\ \A m \in Lists \ {l} : a[m] = at[m] /\ n[m] = len[m]
      /\ n[l] = len[l] + 1
      /\ \A i \in Nat : a[l][i] = IF i < p THEN at[l][i] ELSE IF i = p THEN f ELSE at[l][i - 1]
  BY <1>1 DEF Grown, Inserted, Cells
<1>4. kz[f] = k BY DEF Written
<1>5. ASSUME NEW m \in Lists \ {l} PROVE Words(a, n, kz)[m] = Words(at, len, ky)[m]
  BY <1>2, <1>3 DEF Words
<1>6. ASSUME NEW i \in 1 .. len[l] + 1
      PROVE  Words(a, n, kz)[l][i] =
                 IF i < p THEN Words(at, len, ky)[l][i]
                          ELSE IF i = p THEN k ELSE Words(at, len, ky)[l][i - 1]
  <2>1. Words(a, n, kz)[l][i] = kz[a[l][i]] /\ i \in Nat
    <3>1. i \in Nat /\ i \in 1 .. n[l] BY <1>1, <1>3
    <3>2. Words(a, n, kz)[l] = [j \in 1 .. n[l] |-> kz[a[l][j]]] BY DEF Words
    <3> QED BY <3>1, <3>2
  <2>2. \A j \in 1 .. len[l] : Words(at, len, ky)[l][j] = kz[at[l][j]]
    BY <1>2 DEF Words
  <2>3. CASE i < p
    <3>1. i \in 1 .. len[l] BY <1>1, <2>3
    <3> QED BY <1>3, <2>1, <2>2, <2>3, <3>1
  <2>4. CASE i = p BY <1>3, <1>4, <2>1, <2>4
  <2>5. CASE i > p
    <3>1. i - 1 \in 1 .. len[l] BY <1>1, <2>1, <2>5
    <3> QED BY <1>3, <2>1, <2>2, <2>5, <3>1
  <2> QED BY <2>1, <2>3, <2>4, <2>5
<1>7. Len(Words(at, len, ky)[l]) = len[l] /\ Len(Words(a, n, kz)[l]) = n[l]
  BY <1>1, WordsAreSeqs DEF Written
<1> QED BY <1>3, <1>5, <1>6, <1>7 DEF Others, More

(* A node that is freed. *)
LEMMA WordsShrunk ==
    ASSUME NEW at, NEW len, NEW nodes, Owns(at, len, nodes),
           NEW l \in Lists, NEW p \in Nat, 1 <= p, p <= len[l],
           NEW a, NEW n, Shrunk(at, len, l, p, a, n), Cells(a, n),
           NEW ky, NEW kz, NEW k, Written(ky, kz, at[l][p], k)
    PROVE  /\ Others(Words(a, n, kz), Words(at, len, ky), l)
           /\ Less(Words(at, len, ky)[l], Words(a, n, kz)[l], p)
<1>1. /\ Cells(at, len) /\ Apart(at)
      /\ len[l] \in Nat
      /\ \A m \in Lists : \A i \in 1 .. len[m] : i \in Nat /\ at[m][i] \in Nodes
  BY CellsEnd DEF Owns
<1>2. ASSUME NEW m \in Lists, NEW i \in 1 .. len[m], ~(m = l /\ i = p)
      PROVE  kz[at[m][i]] = ky[at[m][i]]
  <2>1. at[m][i] # at[l][p] BY <1>1, <1>2 DEF Apart
  <2> QED BY <1>1, <2>1 DEF Written
<1>3. /\ \A m \in Lists \ {l} : a[m] = at[m] /\ n[m] = len[m]
      /\ n[l] = len[l] - 1
      /\ \A i \in Nat : a[l][i] = IF i < p THEN at[l][i] ELSE at[l][i + 1]
  BY <1>1 DEF Shrunk, Removed, Cells
<1>4. ASSUME NEW m \in Lists \ {l} PROVE Words(a, n, kz)[m] = Words(at, len, ky)[m]
  BY <1>2, <1>3 DEF Words
<1>5. ASSUME NEW i \in 1 .. len[l] - 1
      PROVE  Words(a, n, kz)[l][i] =
                 IF i < p THEN Words(at, len, ky)[l][i] ELSE Words(at, len, ky)[l][i + 1]
  <2>1. Words(a, n, kz)[l][i] = kz[a[l][i]] /\ i \in Nat
    <3>1. i \in Nat /\ i \in 1 .. n[l] BY <1>1, <1>3
    <3>2. Words(a, n, kz)[l] = [j \in 1 .. n[l] |-> kz[a[l][j]]] BY DEF Words
    <3> QED BY <3>1, <3>2
  <2>2. \A j \in 1 .. len[l] : j # p => Words(at, len, ky)[l][j] = kz[at[l][j]]
    BY <1>2 DEF Words
  <2>3. CASE i < p
    <3>1. i \in 1 .. len[l] BY <1>1
    <3> QED BY <1>3, <2>1, <2>2, <2>3, <3>1
  <2>4. CASE i >= p
    <3>1. i + 1 \in 1 .. len[l] /\ i + 1 # p BY <1>1, <2>1, <2>4
    <3> QED BY <1>3, <2>1, <2>2, <2>4, <3>1
  <2> QED BY <2>1, <2>3, <2>4
<1>6. Len(Words(at, len, ky)[l]) = len[l] /\ Len(Words(a, n, kz)[l]) = n[l]
  BY <1>1, WordsAreSeqs DEF Written
<1> QED BY <1>3, <1>4, <1>5, <1>6 DEF Others, Less

(* A word that grows at its end or its front, or shrinks at its front. *)
LEMMA MoreIsAppend ==
    ASSUME NEW w \in Seq(Marks), NEW v \in Seq(Marks), NEW k \in Marks,
           More(w, v, Len(w) + 1, k)
    PROVE  v = Append(w, k)
<1>1. /\ Append(w, k) \in Seq(Marks) /\ Len(Append(w, k)) = Len(w) + 1
      /\ \A i \in 1 .. Len(w) : Append(w, k)[i] = w[i]
      /\ Append(w, k)[Len(w) + 1] = k
  BY AppendProperties
<1>2. Len(v) = Len(w) + 1 /\ Len(w) \in Nat BY DEF More
<1>3. \A i \in 1 .. Len(v) : v[i] = Append(w, k)[i] BY <1>1, <1>2 DEF More
<1> QED BY <1>1, <1>2, <1>3, SeqEqual

LEMMA MoreIsPrepend ==
    ASSUME NEW w \in Seq(Marks), NEW v \in Seq(Marks), NEW k \in Marks, More(w, v, 1, k)
    PROVE  v = <<k>> \o w
<1>1. /\ <<k>> \o w \in Seq(Marks) /\ Len(<<k>> \o w) = Len(w) + 1
      /\ \A i \in 1 .. Len(w) + 1 : (<<k>> \o w)[i] = IF i <= 1 THEN k ELSE w[i - 1]
  BY ConcatProperties
<1>2. Len(v) = Len(w) + 1 /\ Len(w) \in Nat BY DEF More
<1>3. \A i \in 1 .. Len(v) : v[i] = (<<k>> \o w)[i] BY <1>1, <1>2 DEF More
<1> QED BY <1>1, <1>2, <1>3, SeqEqual

LEMMA LessIsTail ==
    ASSUME NEW w \in Seq(Marks), NEW v \in Seq(Marks), w # <<>>, Less(w, v, 1)
    PROVE  v = Tail(w)
<1>1. /\ Tail(w) \in Seq(Marks) /\ Len(Tail(w)) = Len(w) - 1
      /\ \A i \in 1 .. Len(Tail(w)) : Tail(w)[i] = w[i + 1]
  BY HeadTailProperties
<1>2. Len(v) = Len(w) - 1 /\ Len(w) \in Nat BY DEF Less
<1>3. \A i \in 1 .. Len(v) : v[i] = Tail(w)[i] BY <1>1, <1>2 DEF Less
<1> QED BY <1>1, <1>2, <1>3, SeqEqual
-----------------------------------------------------------------------------
(* Between calls the contents of the lists are their words. *)
Shown == pc = "idle" => \A at, len : Shape(at, len) => Contents = Words(at, len, key)

LEMMA ContentsShown == TypeOK => Shown
<1> SUFFICES ASSUME TypeOK, pc = "idle", NEW at, NEW len, Shape(at, len)
             PROVE  Contents = Words(at, len, key)
  BY DEF Shown
<1>1. ASSUME NEW l \in Lists
      PROVE  [n \in DOMAIN Chain(l) |-> key[Chain(l)[n]]] = [i \in 1 .. len[l] |-> key[at[l][i]]]
  <2>1. Chain(l) = [i \in 1 .. len[l] |-> at[l][i]] BY ChainIsCells
  <2>2. DOMAIN Chain(l) = 1 .. len[l] BY <2>1
  <2>3. \A i \in 1 .. len[l] : key[Chain(l)[i]] = key[at[l][i]] BY <2>1
  <2> QED BY <2>2, <2>3
<1> QED BY <1>1 DEF Contents, Words

LEMMA Retold ==
    ASSUME Shown', pc' = "idle", NEW at, NEW len, Shape(at, len)'
    PROVE  Contents' = Words(at, len, key')
BY DEF Shown, Words
-----------------------------------------------------------------------------
(* slist_delete.  The word w is what is left of s when the loop has come to
   place c: from[i] is the place of w[i] in s.  Behind c nothing is missing but
   what was deleted before; up to c only an occurrence of k that was
   behind another one is left. *)
Sifted(s, w, c, k, from) ==
    /\ s \in Seq(Marks) /\ w \in Seq(Marks)
    /\ 1 <= Len(w) /\ Len(w) <= Len(s) /\ s[1] # k
    /\ 1 <= c /\ c <= Len(w) + 1
    /\ from \in [1 .. Len(w) -> 1 .. Len(s)]
    /\ \A i, j \in 1 .. Len(w) : i < j => from[i] < from[j]
    /\ \A i \in 1 .. Len(w) : w[i] = s[from[i]]
    /\ \A n \in 1 .. Len(s) : s[n] # k => \E i \in 1 .. Len(w) : from[i] = n
    /\ \A i \in 1 .. Len(w) : i >= c => from[i] = i + (Len(s) - Len(w))
    /\ Len(w) = Len(s) =>
           \A i \in 1 .. Len(w) : from[i] = i /\ (i <= c => w[i] # k)
    /\ \A i \in 1 .. Len(w) : i <= c /\ w[i] = k =>
           \E n \in 2 .. Len(s) : s[n - 1] = k /\ s[n] = k

Sifting(s, w, c, k) == \E from : Sifted(s, w, c, k, from)

(* The loop begins at the first node, which does not have the key. *)
LEMMA SiftBegin ==
    ASSUME NEW s \in Seq(Marks), 1 <= Len(s), NEW k, s[1] # k
    PROVE  Sifting(s, s, 1, k)
<1> DEFINE from == [i \in 1 .. Len(s) |-> i]
<1>1. Len(s) \in Nat OBVIOUS
<1>2. Sifted(s, s, 1, k, from) BY <1>1 DEF Sifted
<1> QED BY <1>2 DEF Sifting

(* The next node does not have the key. *)
LEMMA SiftPass ==
    ASSUME NEW s, NEW w, NEW c \in Nat, NEW k, Sifting(s, w, c, k),
           c + 1 <= Len(w), w[c + 1] # k
    PROVE  Sifting(s, w, c + 1, k)
<1>1. PICK from : Sifted(s, w, c, k, from) BY DEF Sifting
<1>2. Len(w) \in Nat /\ Len(s) \in Nat BY <1>1 DEF Sifted
<1>3. \A i \in 1 .. Len(w) : i <= c + 1 => i <= c \/ i = c + 1 BY <1>2
<1>4. /\ c + 1 \in Nat /\ 1 <= c + 1 /\ c + 1 <= Len(w) + 1
      /\ \A i \in 1 .. Len(w) : i >= c + 1 => i >= c
  BY <1>2
<1>5. \A i \in 1 .. Len(w) : i <= c + 1 /\ w[i] = k => i <= c BY <1>3
<1>6. Len(w) = Len(s) => \A i \in 1 .. Len(w) : from[i] = i /\ (i <= c + 1 => w[i] # k)
  BY <1>1, <1>3 DEF Sifted
<1>7. Sifted(s, w, c + 1, k, from) BY <1>1, <1>4, <1>5, <1>6, Zenon DEF Sifted
<1> QED BY <1>7 DEF Sifting

(* The next node has the key and goes. *)
LEMMA SiftUnlink ==
    ASSUME NEW s, NEW w, NEW c \in Nat, NEW k, Sifting(s, w, c, k),
           c + 1 <= Len(w), w[c + 1] = k,
           NEW v \in Seq(Marks), Len(v) = Len(w) - 1,
           \A i \in 1 .. Len(w) - 1 : v[i] = IF i < c + 1 THEN w[i] ELSE w[i + 1]
    PROVE  Sifting(s, v, c + 1, k)
<1>1. PICK from : Sifted(s, w, c, k, from) BY DEF Sifting
<1> DEFINE L == Len(w)
           left == [i \in 1 .. L - 1 |-> IF i < c + 1 THEN from[i] ELSE from[i + 1]]
<1>2. L \in Nat /\ Len(s) \in Nat /\ 1 <= c /\ c + 1 <= L /\ L <= Len(s)
  BY <1>1 DEF Sifted
<1>3. /\ from \in [1 .. L -> 1 .. Len(s)]
      /\ \A i, j \in 1 .. L : i < j => from[i] < from[j]
      /\ \A i \in 1 .. L : w[i] = s[from[i]]
      /\ \A i \in 1 .. L : i >= c => from[i] = i + (Len(s) - L)
  BY <1>1 DEF Sifted
<1>4. \A i \in 1 .. L - 1 : /\ i \in 1 .. L /\ i + 1 \in 1 .. L
                            /\ left[i] = IF i < c + 1 THEN from[i] ELSE from[i + 1]
                            /\ v[i] = IF i < c + 1 THEN w[i] ELSE w[i + 1]
  BY <1>2
<1>5. left \in [1 .. L - 1 -> 1 .. Len(s)] BY <1>3, <1>4
<1> HIDE DEF left, L
<1>6. \A i, j \in 1 .. L - 1 : i < j => left[i] < left[j]
  <2> SUFFICES ASSUME NEW i \in 1 .. L - 1, NEW j \in 1 .. L - 1, i < j
               PROVE  left[i] < left[j]
    OBVIOUS
  <2>1. i \in 1 .. L /\ j \in 1 .. L /\ i + 1 \in 1 .. L /\ j + 1 \in 1 .. L
    BY <1>4
  <2>2. CASE j < c + 1 BY <1>2, <1>3, <1>4, <2>1, <2>2
  <2>3. CASE i < c + 1 /\ ~(j < c + 1)
    <3>1. left[i] = from[i] /\ left[j] = from[j + 1] /\ i < j + 1 BY <1>2, <1>4, <2>3
    <3> QED BY <1>3, <2>1, <3>1
  <2>4. CASE ~(i < c + 1)
    <3>1. left[i] = from[i + 1] /\ left[j] = from[j + 1] /\ i + 1 < j + 1
      BY <1>2, <1>4, <2>4
    <3> QED BY <1>3, <2>1, <3>1
  <2> QED BY <2>2, <2>3, <2>4
<1>7. \A i \in 1 .. L - 1 : v[i] = s[left[i]] BY <1>3, <1>4
<1>8. ASSUME NEW n \in 1 .. Len(s), s[n] # k PROVE \E i \in 1 .. L - 1 : left[i] = n
  <2>1. PICK i \in 1 .. L : from[i] = n BY <1>1, <1>8 DEF Sifted, L
  <2>2. i # c + 1 BY <1>3, <1>8, <2>1 DEF L
  <2>3. CASE i < c + 1
    <3>1. i \in 1 .. L - 1 BY <1>2, <2>3
    <3> QED BY <1>4, <2>1, <2>3, <3>1
  <2>4. CASE i > c + 1
    <3>1. i - 1 \in 1 .. L - 1 /\ ~(i - 1 < c + 1) /\ (i - 1) + 1 = i BY <1>2, <2>4
    <3> QED BY <1>4, <2>1, <3>1
  <2> QED BY <1>2, <2>2, <2>3, <2>4
<1>9. \A i \in 1 .. L - 1 : i >= c + 1 => left[i] = i + (Len(s) - (L - 1))
  <2> SUFFICES ASSUME NEW i \in 1 .. L - 1, i >= c + 1
               PROVE  left[i] = i + (Len(s) - (L - 1))
    OBVIOUS
  <2>1. i + 1 \in 1 .. L /\ left[i] = from[i + 1] /\ i + 1 >= c BY <1>2, <1>4
  <2>2. from[i + 1] = (i + 1) + (Len(s) - L) BY <1>3, <2>1
  <2> QED BY <1>2, <2>1, <2>2
<1>10. ASSUME NEW i \in 1 .. L - 1, i <= c + 1, v[i] = k
       PROVE  \E n \in 2 .. Len(s) : s[n - 1] = k /\ s[n] = k
  <2>1. CASE i <= c
    <3>1. i \in 1 .. L /\ w[i] = k BY <1>2, <1>4, <1>10, <2>1
    <3> QED BY <1>1, <2>1, <3>1 DEF Sifted, L
  <2>2. CASE i = c + 1
    <3>1. w[c + 2] = k /\ c + 2 \in 1 .. L /\ c + 1 \in 1 .. L BY <1>2, <1>4, <1>10, <2>2
    <3> DEFINE n == c + 2 + (Len(s) - L)
    <3>2. n \in 2 .. Len(s) /\ n - 1 = c + 1 + (Len(s) - L)
      <4>1. PICK N, e : N = Len(s) /\ e = Len(s) - L OBVIOUS
      <4>2. N \in Nat /\ e \in Nat /\ N = L + e /\ c + 2 <= L BY <1>2, <3>1, <4>1
      <4>3. c + 2 + e \in 2 .. N /\ (c + 2 + e) - 1 = c + 1 + e BY <1>2, <4>2
      <4> QED BY <4>1, <4>3
    <3>3. from[c + 2] = n /\ from[c + 1] = n - 1 BY <1>2, <1>3, <3>1, <3>2
    <3> HIDE DEF n
    <3>4. s[n] = k /\ s[n - 1] = k BY <1>3, <3>1, <3>3 DEF L
    <3> QED BY <3>2, <3>4
  <2>3. i <= c \/ i = c + 1 BY <1>2, <1>10
  <2> QED BY <2>1, <2>2, <2>3
<1>11. Sifted(s, v, c + 1, k, left)
  <2>1. Len(v) = L - 1 /\ 1 <= L - 1 + 1 BY <1>2 DEF L
  <2>2. 1 <= Len(v) /\ Len(v) <= Len(s) /\ Len(v) # Len(s) BY <1>2, <2>1
  <2>3. 1 <= c + 1 /\ c + 1 <= Len(v) + 1 BY <1>2, <2>1
  <2> QED
    BY <1>1, <1>5, <1>6, <1>7, <1>8, <1>9, <1>10, <2>1, <2>2, <2>3 DEF Sifted
<1> QED BY <1>11 DEF Sifting

(* What slist_delete may make of word s. *)
Deletes(s, w, k) ==
    /\ \E from \in [DOMAIN w -> DOMAIN s] :
          /\ \A i, j \in DOMAIN w : i < j => from[i] < from[j]
          /\ \A i \in DOMAIN w : w[i] = s[from[i]]
          /\ \A n \in DOMAIN s : s[n] # k => \E i \in DOMAIN w : from[i] = n
    /\ (\E i \in 1 .. Len(s) : s[i] = k) => Len(w) < Len(s)
    /\ (\E i \in 1 .. Len(w) : w[i] = k) =>
          \/ s # <<>> /\ Head(s) = k
          \/ \E n \in 2 .. Len(s) : s[n - 1] = k /\ s[n] = k

(* The loop has come to the last node. *)
LEMMA SiftEnd ==
    ASSUME NEW s, NEW w, NEW c \in Nat, NEW k, Sifting(s, w, c, k), Len(w) <= c
    PROVE  Deletes(s, w, k)
<1>1. PICK from : Sifted(s, w, c, k, from) BY DEF Sifting
<1>2. Len(w) \in Nat /\ Len(s) \in Nat /\ Len(w) <= Len(s) BY <1>1 DEF Sifted
<1>3. \A i \in 1 .. Len(w) : i <= c BY <1>2
<1>4. ASSUME NEW n \in 1 .. Len(s), s[n] = k PROVE Len(w) < Len(s)
  <2> SUFFICES ASSUME Len(w) = Len(s) PROVE FALSE
    BY <1>2
  <2>1. from[n] = n /\ w[n] # k /\ w[n] = s[from[n]] BY <1>1, <1>3 DEF Sifted
  <2> QED BY <1>4, <2>1
<1>5. ASSUME NEW i \in 1 .. Len(w), w[i] = k
      PROVE  \E n \in 2 .. Len(s) : s[n - 1] = k /\ s[n] = k
  BY <1>1, <1>3, <1>5 DEF Sifted
<1>6. /\ from \in [1 .. Len(w) -> 1 .. Len(s)]
      /\ \A i, j \in 1 .. Len(w) : i < j => from[i] < from[j]
      /\ \A i \in 1 .. Len(w) : w[i] = s[from[i]]
      /\ \A n \in 1 .. Len(s) : s[n] # k => \E i \in 1 .. Len(w) : from[i] = n
  BY <1>1 DEF Sifted
<1>7. DOMAIN s = 1 .. Len(s) /\ DOMAIN w = 1 .. Len(w)
  <2>1. s \in Seq(Marks) /\ w \in Seq(Marks) BY <1>1 DEF Sifted
  <2> QED BY <2>1
<1>8. /\ (\E i \in 1 .. Len(s) : s[i] = k) => Len(w) < Len(s)
      /\ (\E i \in 1 .. Len(w) : w[i] = k) =>
            \E n \in 2 .. Len(s) : s[n - 1] = k /\ s[n] = k
  BY <1>4, <1>5
<1>9. \E f \in [DOMAIN w -> DOMAIN s] :
          /\ \A i, j \in DOMAIN w : i < j => f[i] < f[j]
          /\ \A i \in DOMAIN w : w[i] = s[f[i]]
          /\ \A n \in DOMAIN s : s[n] # k => \E i \in DOMAIN w : f[i] = n
  <2>1. from \in [DOMAIN w -> DOMAIN s] BY <1>6, <1>7, Zenon
  <2>2. \A i, j \in DOMAIN w : i < j => from[i] < from[j] BY <1>6, <1>7, Zenon
  <2>3. \A i \in DOMAIN w : w[i] = s[from[i]] BY <1>6, <1>7, Zenon
  <2>4. \A n \in DOMAIN s : s[n] # k => \E i \in DOMAIN w : from[i] = n
    BY <1>6, <1>7, Zenon
  <2> QED BY <2>1, <2>2, <2>3, <2>4, Zenon
<1> QED BY <1>8, <1>9, Zenon DEF Deletes
-----------------------------------------------------------------------------
(* The lists the running loop has taken apart. *)
Touched(l) ==
    \/ pc \in {"take", "delete", "free"} /\ l = list
    \/ pc = "clone" /\ l = to

(* What the loops have made of the words of their lists since the call began. *)
Begun(at, len) ==
    pc # "idle" =>
        /\ got = Nothing
        /\ was = [l \in Lists |-> was[l]]
        /\ \A l \in Lists : ~Touched(l) => was[l] = Words(at, len, key)[l]
        /\ pc = "delete" =>
              \E c \in Nat : /\ current = at[list][c]
                            /\ Sifting(was[list], Words(at, len, key)[list], c, arg)
        /\ pc = "clone" =>
              \A i \in 1 .. len[to] :
                  Words(at, len, key)[to][i] = Words(at, len, key)[list][i]

Kept == ~astray => \E at, len : Shape(at, len) /\ Begun(at, len)

LEMMA KeyTypes == TypeOK => key \in [Nodes -> Marks]
BY DEF TypeOK, Marks
-----------------------------------------------------------------------------
(* A call between two idle states that rewrites the word of list l. *)
LEMMA Told ==
    ASSUME TypeOK, TypeOK', Shown, Shown', pc = "idle", pc' = "idle",
           NEW at, NEW len, Shape(at, len), NEW a, NEW n, Shape(a, n)', NEW l \in Lists,
           Others(Words(a, n, key'), Words(at, len, key), l)
    PROVE  /\ Contents[l] \in Seq(Marks) /\ Contents'[l] \in Seq(Marks)
           /\ Contents[l] = Words(at, len, key)[l] /\ Contents'[l] = Words(a, n, key')[l]
           /\ Len(Contents[l]) = len[l] /\ len[l] \in Nat /\ Len(Contents'[l]) = n[l]
           /\ Rewrites(Contents', Contents, l, Contents'[l])
<1>1. Contents = Words(at, len, key) /\ Contents' = Words(a, n, key') BY Retold DEF Shown
<1>2. /\ Cells(at, len) /\ Cells(a, n)
      /\ key \in [Nodes -> Marks] /\ key' \in [Nodes -> Marks]
  BY KeyTypes DEF Shape, Owns, TypeOK, Marks
<1>3. /\ Words(at, len, key)[l] \in Seq(Marks) /\ Len(Words(at, len, key)[l]) = len[l]
      /\ len[l] \in Nat
  BY <1>2, WordsAreSeqs
<1>4. Words(a, n, key')[l] \in Seq(Marks) /\ Len(Words(a, n, key')[l]) = n[l]
  BY <1>2, WordsAreSeqs
<1>5. Rewrites(Words(a, n, key'), Words(at, len, key), l, Words(a, n, key')[l])
  BY Rewritten
<1>6. Rewrites(Contents', Contents, l, Contents'[l]) BY <1>1, <1>5
<1> QED BY <1>1, <1>3, <1>4, <1>6

(* enqueue, slist_append. *)
LEMMA AppendDone ==
    ASSUME TypeOK, TypeOK', Shown, Shown', ~astray, ~astray',
           NEW at, NEW len, Shape(at, len),
           NEW l \in Queues \cup SLists, NEW k \in Keys, AppendTo(l, k)
    PROVE  Sequences_!AddLast(l, k)
<1>1. /\ pc = "idle" /\ pc' = "idle" /\ got' = Nothing /\ l \in Lists /\ live # Nodes
      /\ key' = [key EXCEPT ![Fresh] = k] /\ k \in Marks
  BY DEF AppendTo, AtOnce, Idle, call, MakeNode, Lists, Marks
<1>2. PICK a, n : Shape(a, n)' /\ Grown(at, len, l, len[l] + 1, Fresh, a, n) BY AppendShape
<1>3. Fresh \in Nodes \ live BY <1>1, FreshNode
<1>4. Written(key, key', Fresh, k)
  <2>1. key \in [Nodes -> Marks] BY KeyTypes
  <2> HIDE DEF Fresh
  <2> QED BY <1>1, <1>3, <2>1 DEF Written
<1>5. /\ Owns(at, len, live) /\ Cells(a, n) /\ Cells(at, len) BY <1>2 DEF Shape, Owns
<1>6. len[l] + 1 \in Nat /\ 1 <= len[l] + 1 /\ len[l] + 1 <= len[l] + 1
  BY <1>1, <1>5, CellsEnd
<1>7. /\ Others(Words(a, n, key'), Words(at, len, key), l)
      /\ More(Words(at, len, key)[l], Words(a, n, key')[l], len[l] + 1, k)
  BY <1>1, <1>2, <1>3, <1>4, <1>5, <1>6, WordsGrown
<1>8. /\ Contents[l] \in Seq(Marks) /\ Contents'[l] \in Seq(Marks)
      /\ Contents[l] = Words(at, len, key)[l] /\ Contents'[l] = Words(a, n, key')[l]
      /\ Len(Contents[l]) = len[l]
      /\ Rewrites(Contents', Contents, l, Contents'[l])
  <2>1. pc = "idle" /\ pc' = "idle" /\ l \in Lists BY <1>1
  <2>2. Shape(a, n)' BY <1>2
  <2>3. Others(Words(a, n, key'), Words(at, len, key), l) BY <1>7
  <2> QED BY <2>1, <2>2, <2>3, Told
<1>9. Contents'[l] = Append(Contents[l], k) BY <1>1, <1>7, <1>8, MoreIsAppend
<1> QED
  BY <1>1, <1>8, <1>9
     DEF Rewrites, Sequences_!AddLast, Sequences_!Becomes, Nothing, Sequences_!Nothing

(* stack_push, slist_put. *)
LEMMA PutDone ==
    ASSUME TypeOK, TypeOK', Shown, Shown', ~astray, ~astray',
           NEW at, NEW len, Shape(at, len),
           NEW l \in Stacks \cup SLists, NEW k \in Keys, PutFirst(l, k)
    PROVE  Sequences_!Prepend(l, k)
<1>1. /\ pc = "idle" /\ pc' = "idle" /\ got' = Nothing /\ l \in Lists /\ live # Nodes
      /\ key' = [key EXCEPT ![Fresh] = k] /\ k \in Marks
  BY DEF PutFirst, AtOnce, Idle, call, MakeNode, Lists, Marks
<1>2. PICK a, n : Shape(a, n)' /\ Grown(at, len, l, 1, Fresh, a, n) BY PutShape
<1>3. Fresh \in Nodes \ live BY <1>1, FreshNode
<1>4. Written(key, key', Fresh, k)
  <2>1. key \in [Nodes -> Marks] BY KeyTypes
  <2> HIDE DEF Fresh
  <2> QED BY <1>1, <1>3, <2>1 DEF Written
<1>5. /\ Owns(at, len, live) /\ Cells(a, n) /\ Cells(at, len) BY <1>2 DEF Shape, Owns
<1>6. 1 \in Nat /\ 1 <= 1 /\ 1 <= len[l] + 1 BY <1>1, <1>5, CellsEnd
<1>7. /\ Others(Words(a, n, key'), Words(at, len, key), l)
      /\ More(Words(at, len, key)[l], Words(a, n, key')[l], 1, k)
  BY <1>1, <1>2, <1>3, <1>4, <1>5, <1>6, WordsGrown
<1>8. /\ Contents[l] \in Seq(Marks) /\ Contents'[l] \in Seq(Marks)
      /\ Contents[l] = Words(at, len, key)[l] /\ Contents'[l] = Words(a, n, key')[l]
      /\ Rewrites(Contents', Contents, l, Contents'[l])
  <2>1. pc = "idle" /\ pc' = "idle" /\ l \in Lists BY <1>1
  <2>2. Shape(a, n)' BY <1>2
  <2>3. Others(Words(a, n, key'), Words(at, len, key), l) BY <1>7
  <2> QED BY <2>1, <2>2, <2>3, Told
<1>9. Contents'[l] = <<k>> \o Contents[l] BY <1>1, <1>7, <1>8, MoreIsPrepend
<1> QED
  BY <1>1, <1>8, <1>9
     DEF Rewrites, Sequences_!Prepend, Sequences_!Becomes, Nothing, Sequences_!Nothing

(* The node at place p of list l is freed. *)
LEMMA FreeWords ==
    ASSUME TypeOK, NEW at, NEW len, Shape(at, len), NEW l \in Lists,
           NEW p \in Nat, 1 <= p, p <= len[l], NEW a, NEW n, Shape(a, n)',
           Shrunk(at, len, l, p, a, n), NEW q, NEW nxt, FreeNode(at[l][p], q, nxt)
    PROVE  /\ Others(Words(a, n, key'), Words(at, len, key), l)
           /\ Less(Words(at, len, key)[l], Words(a, n, key')[l], p)
<1>1. Owns(at, len, live) /\ Cells(a, n) /\ Cells(at, len) BY DEF Shape, Owns
<1>2. at[l][p] \in Nodes BY <1>1, CellsEnd
<1>3. Written(key, key', at[l][p], Nothing)
  <2>1. key \in [Nodes -> Marks] /\ Nothing \in Marks BY KeyTypes DEF Marks
  <2>2. key' = [key EXCEPT ![at[l][p]] = Nothing] BY DEF FreeNode
  <2> QED BY <1>2, <2>1, <2>2 DEF Written
<1> QED BY <1>1, <1>3, WordsShrunk

(* dequeue, stack_pop. *)
LEMMA TakeDone ==
    ASSUME TypeOK, TypeOK', Shown, Shown', ~astray, ~astray',
           NEW at, NEW len, Shape(at, len),
           NEW l \in Queues \cup Stacks, TakeOut(l)
    PROVE  Sequences_!TakeFirst(l)
<1>1. pc = "idle" /\ pc' = "idle" /\ l \in Lists /\ UNCHANGED <<pc, list, to, current, prev>>
  BY DEF TakeOut, AtOnce, Idle, call, Lists
<1>2. Owns(at, len, live) /\ Cells(at, len) BY DEF Shape, Owns
<1>3. first[l] = at[l][1] /\ (first[l] = Null <=> len[l] = 0) /\ len[l] \in Nat
  <2>1. Null \notin Nodes /\ \A i \in 1 .. len[l] : at[l][i] \in Nodes BY <1>1, <1>2, CellsEnd
  <2>2. first[l] = at[l][1]
    <3>1. l \notin SLists /\ ~(pc = "free" /\ l = list) BY <1>1, KindsAssumption
    <3> QED BY <1>1, <3>1 DEF Shape, Heads
  <2>3. len[l] \in Nat /\ (len[l] = 0 => at[l][1] = Null) BY <1>1, <1>2, CellsEnd
  <2> QED BY <2>1, <2>2, <2>3
<1>4. CASE IsEmpty(l)
  <2>1. len[l] = 0 BY <1>3, <1>4 DEF IsEmpty
  <2>2. got' = Nothing /\ key' = key BY <1>4 DEF TakeOut, heap
  <2>3. Shape(at, len)' BY <1>1, <1>4, QuietShape
  <2>4. Others(Words(at, len, key'), Words(at, len, key), l) BY <2>2 DEF Others
  <2>5. /\ Contents[l] \in Seq(Marks) /\ Len(Contents[l]) = len[l]
        /\ Contents'[l] = Words(at, len, key')[l] /\ Contents[l] = Words(at, len, key)[l]
        /\ Rewrites(Contents', Contents, l, Contents'[l])
    BY <1>1, <2>3, <2>4, Told
  <2>6. Contents[l] = <<>> /\ Contents'[l] = <<>> BY <2>1, <2>2, <2>5, EmptySeq
  <2> QED
    BY <1>1, <2>2, <2>5, <2>6
       DEF Rewrites, Sequences_!TakeFirst, Sequences_!Becomes, Nothing, Sequences_!Nothing
<1>5. CASE ~IsEmpty(l)
  <2>1. Take(l) /\ got' = key[first[l]] BY <1>5 DEF TakeOut
  <2>2. PICK a, n : Shape(a, n)' /\ Shrunk(at, len, l, 1, a, n)
    BY <1>1, <1>5, <2>1, TakeShape
  <2>3. len[l] # 0
    <3>1. l \in Queues /\ len[l] = 0 => last[l] = Null BY DEF Shape, Ends
    <3> QED BY <1>3, <1>5, <3>1 DEF IsEmpty
  <2>4. 1 \in Nat /\ 1 <= 1 /\ 1 <= len[l] BY <1>3, <2>3
  <2>5. FreeNode(at[l][1], Null, Null) BY <1>3, <2>1 DEF Take
  <2>6. /\ Others(Words(a, n, key'), Words(at, len, key), l)
        /\ Less(Words(at, len, key)[l], Words(a, n, key')[l], 1)
    BY <1>1, <2>2, <2>4, <2>5, FreeWords
  <2>7. /\ Contents[l] \in Seq(Marks) /\ Contents'[l] \in Seq(Marks)
        /\ Contents[l] = Words(at, len, key)[l] /\ Contents'[l] = Words(a, n, key')[l]
        /\ Len(Contents[l]) = len[l]
        /\ Rewrites(Contents', Contents, l, Contents'[l])
    BY <1>1, <2>2, <2>6, Told
  <2>8. Contents[l] # <<>> /\ Contents'[l] = Tail(Contents[l])
    <3>1. Contents[l] # <<>> BY <2>4, <2>7
    <3> QED BY <2>6, <2>7, <3>1, LessIsTail
  <2>9. got' = Head(Contents[l])
    <3>1. Words(at, len, key)[l][1] = key[at[l][1]] BY <1>1, <1>3, <2>4 DEF Words
    <3>2. Head(Contents[l]) = Contents[l][1] BY <2>7, <2>8
    <3> QED BY <1>3, <2>1, <2>7, <3>1, <3>2
  <2> QED BY <1>1, <2>7, <2>8, <2>9 DEF Rewrites, Sequences_!TakeFirst, Sequences_!Becomes
<1> QED BY <1>4, <1>5
-----------------------------------------------------------------------------
LEMMA DeletesIsDelete ==
    ASSUME NEW A, A = (IF pc = "idle" THEN Contents ELSE was),
           NEW B, B = (IF pc = "idle" THEN Contents ELSE was)',
           got' = Nothing, NEW l, NEW k, Others(B, A, l), Deletes(A[l], B[l], k)
    PROVE  Sequences_!Delete(l, k)
<1> DEFINE now == IF pc = "idle" THEN Contents ELSE was
<1>1. A = now /\ B = now' OBVIOUS
<1> HIDE DEF now
<1>2. got' = Nothing /\ Others(now', now, l) /\ Deletes(now[l], now'[l], k) BY <1>1
<1> QED BY <1>2 DEF now, Sequences_!Delete, Sequences_!Contains, Nothing,
                    Sequences_!Nothing, Others, Deletes

LEMMA DeletesNone == ASSUME NEW k PROVE Deletes(<<>>, <<>>, k)
<1> DEFINE from == [i \in DOMAIN <<>> |-> i]
<1>1. DOMAIN <<>> = {} /\ Len(<<>>) = 0 BY EmptySeq
<1>2. from \in [DOMAIN <<>> -> DOMAIN <<>>] OBVIOUS
<1> HIDE DEF from
<1>3. \E f \in [DOMAIN <<>> -> DOMAIN <<>>] :
          /\ \A i, j \in DOMAIN <<>> : i < j => f[i] < f[j]
          /\ \A i \in DOMAIN <<>> : <<>>[i] = <<>>[f[i]]
          /\ \A n \in DOMAIN <<>> : <<>>[n] # k => \E i \in DOMAIN <<>> : f[i] = n
  BY <1>1, <1>2, Zenon
<1>4. 1 .. Len(<<>>) = {} BY <1>1
<1> QED BY <1>3, <1>4, Zenon DEF Deletes

LEMMA DeletesFirst ==
    ASSUME NEW s \in Seq(Marks), NEW w \in Seq(Marks), NEW k, s # <<>>, s[1] = k, Less(s, w, 1)
    PROVE  Deletes(s, w, k)
<1> DEFINE from == [i \in DOMAIN w |-> i + 1]
<1>1. /\ Len(s) \in Nat /\ Len(w) = Len(s) - 1
      /\ DOMAIN w = 1 .. Len(w) /\ DOMAIN s = 1 .. Len(s)
      /\ \A i \in 1 .. Len(w) : w[i] = s[i + 1]
  BY DEF Less
<1>2. \A i \in 1 .. Len(w) : i + 1 \in 1 .. Len(s) /\ i \in Nat BY <1>1
<1>3. from \in [DOMAIN w -> DOMAIN s] BY <1>1, <1>2
<1>4. \A i \in DOMAIN w : from[i] = i + 1 OBVIOUS
<1> HIDE DEF from
<1>5. \A i, j \in DOMAIN w : i < j => from[i] < from[j] BY <1>1, <1>4
<1>6. \A i \in DOMAIN w : w[i] = s[from[i]] BY <1>1, <1>4
<1>7. ASSUME NEW n \in DOMAIN s, s[n] # k PROVE \E i \in DOMAIN w : from[i] = n
  <2>1. n - 1 \in DOMAIN w BY <1>1, <1>7
  <2> QED BY <1>1, <1>4, <2>1
<1>8. Len(w) < Len(s) /\ Head(s) = k BY <1>1
<1> QED BY <1>3, <1>5, <1>6, <1>7, <1>8 DEF Deletes

(* slist_delete of an empty list. *)
LEMMA DeleteEmptyDone ==
    ASSUME TypeOK, TypeOK', Shown, Shown', ~astray, ~astray',
           NEW at, NEW len, Shape(at, len),
           NEW l \in SLists, NEW k \in Keys, DeleteEmpty(l, k)
    PROVE  Sequences_!Delete(l, k)
<1>1. /\ pc = "idle" /\ pc' = "idle" /\ l \in Lists /\ first[l] = Null
      /\ got' = Nothing /\ key' = key
  BY DEF DeleteEmpty, AtOnce, Idle, call, Lists, heap
<1>2. len[l] = 0
  <2>1. first[l] # Wild BY <1>1, NodesAssumption
  <2> QED BY <1>1, <2>1, HeadFacts
<1>3. Shape(at, len)' BY QuietShape
<1>4. Others(Words(at, len, key'), Words(at, len, key), l) BY <1>1 DEF Others
<1>5. /\ Contents[l] \in Seq(Marks) /\ Len(Contents[l]) = len[l]
      /\ Contents'[l] = Words(at, len, key')[l] /\ Contents[l] = Words(at, len, key)[l]
      /\ Rewrites(Contents', Contents, l, Contents'[l])
  BY <1>1, <1>3, <1>4, Told
<1>6. Contents[l] = <<>> /\ Contents'[l] = <<>> BY <1>1, <1>2, <1>5, EmptySeq
<1>7. Others(Contents', Contents, l) BY <1>5 DEF Rewrites, Others, Contents
<1>8. Deletes(Contents[l], Contents'[l], k) BY <1>6, DeletesNone
<1> QED BY <1>1, <1>7, <1>8, DeletesIsDelete

(* slist_delete of the first node. *)
LEMMA DeleteHeadDone ==
    ASSUME TypeOK, TypeOK', Shown, Shown', ~astray, ~astray',
           NEW at, NEW len, Shape(at, len),
           NEW l \in SLists, NEW k \in Keys, DeleteHead(l, k)
    PROVE  Sequences_!Delete(l, k)
<1>1. /\ pc = "idle" /\ pc' = "idle" /\ l \in Lists /\ first[l] \in live
      /\ got' = Nothing /\ key[first[l]] = k /\ FreeNode(first[l], Null, Null)
  BY DEF DeleteHead, AtOnce, Idle, call, Lists
<1>2. Owns(at, len, live) /\ Cells(at, len) BY DEF Shape, Owns
<1>3. first[l] = at[l][1] /\ len[l] > 0 /\ len[l] \in Nat
  <2>1. first[l] # Wild BY <1>1, NodesAssumption DEF TypeOK
  <2> QED BY <1>1, <2>1, HeadFacts
<1>4. PICK a, n : Shape(a, n)' /\ Shrunk(at, len, l, 1, a, n) BY DeleteHeadShape
<1>5. 1 \in Nat /\ 1 <= 1 /\ 1 <= len[l] BY <1>3
<1>6. FreeNode(at[l][1], Null, Null) BY <1>1, <1>3
<1>7. /\ Others(Words(a, n, key'), Words(at, len, key), l)
      /\ Less(Words(at, len, key)[l], Words(a, n, key')[l], 1)
  BY <1>1, <1>4, <1>5, <1>6, FreeWords
<1>8. /\ Contents[l] \in Seq(Marks) /\ Contents'[l] \in Seq(Marks)
      /\ Contents[l] = Words(at, len, key)[l] /\ Contents'[l] = Words(a, n, key')[l]
      /\ Len(Contents[l]) = len[l]
      /\ Rewrites(Contents', Contents, l, Contents'[l])
  BY <1>1, <1>4, <1>7, Told
<1>9. Contents[l] # <<>> /\ Contents[l][1] = k
  <2>1. Words(at, len, key)[l][1] = key[at[l][1]] BY <1>1, <1>5 DEF Words
  <2> QED BY <1>1, <1>3, <1>5, <1>8, <2>1
<1>10. Others(Contents', Contents, l) BY <1>8 DEF Rewrites, Others, Contents
<1>11. Deletes(Contents[l], Contents'[l], k) BY <1>7, <1>8, <1>9, DeletesFirst
<1> QED BY <1>1, <1>10, <1>11, DeletesIsDelete
-----------------------------------------------------------------------------
(* slist_contains. *)
LEMMA LocateDone ==
    ASSUME TypeOK, TypeOK', Shown, Shown', ~astray, ~astray',
           NEW at, NEW len, Shape(at, len),
           NEW l \in SLists, NEW k \in Keys, Locate(l, k)
    PROVE  Sequences_!Locate(l, k)
<1>1. /\ pc = "idle" /\ pc' = "idle" /\ l \in Lists /\ key' = key
  BY DEF Locate, AtOnce, Idle, call, Lists, heap
<1>2. Shape(at, len)' BY QuietShape
<1>3. Others(Words(at, len, key'), Words(at, len, key), l) BY <1>1 DEF Others
<1>4. /\ Contents'[l] = Words(at, len, key')[l] /\ Contents[l] = Words(at, len, key)[l]
      /\ Rewrites(Contents', Contents, l, Contents'[l])
  BY <1>1, <1>2, <1>3, Told
<1>5. Rewrites(Contents', Contents, l, Contents[l]) BY <1>1, <1>4
<1>6. got' = SelectInSeq(Contents[l], LAMBDA e : e = k) - 1 BY DEF Locate
<1>7. PICK A : A = (IF pc = "idle" THEN Contents ELSE was) OBVIOUS
<1>8. A = Contents BY <1>1, <1>7
<1>9. got' = Sequences_!SelectInSeq(A[l], LAMBDA e : e = k) - 1
  <2> DEFINE I == {i \in 1 .. Len(Contents[l]) : Contents[l][i] = k}
             J == {i \in 1 .. Len(A[l]) : A[l][i] = k}
  <2>1. I = J BY <1>8
  <2>2. got' = (IF I # {} THEN Min(I) ELSE 0) - 1 BY <1>6 DEF SelectInSeq
  <2> HIDE DEF I, J
  <2>3. Min(I) = Sequences_!Min(I) BY DEF Min, Sequences_!Min
  <2>4. got' = (IF J # {} THEN Sequences_!Min(J) ELSE 0) - 1 BY <2>1, <2>2, <2>3, Zenon
  <2> QED BY <2>4 DEF J, Sequences_!SelectInSeq
<1> QED
  BY <1>1, <1>5, <1>7, <1>8, <1>9, Zenon
     DEF Rewrites, Sequences_!Locate, Sequences_!Becomes, Sequences_!SelectInSeq

(* slist_change: the key is looked at in every node of the list. *)
LEMMA ChangeDone ==
    ASSUME TypeOK, TypeOK', Shown, Shown', ~astray, ~astray',
           NEW at, NEW len, Shape(at, len),
           NEW l \in SLists, NEW k \in Keys, NEW new \in Keys, ChangeKey(l, k, new)
    PROVE  Sequences_!Change(l, k, new)
<1>1. pc = "idle" /\ pc' = "idle" /\ l \in Lists /\ got' = Nothing
  BY DEF ChangeKey, AtOnce, Idle, call, Lists
<1>2. Cells(at, len) /\ Apart(at) BY DEF Shape, Owns
<1>3. /\ len[l] \in Nat
      /\ \A m \in Lists : \A i \in 1 .. len[m] : i \in Nat /\ at[m][i] \in Nodes
  BY <1>1, <1>2, CellsEnd
<1>4. ChainSet(l) = {at[l][i] : i \in 1 .. len[l]}
  <2>1. Chain(l) = [i \in 1 .. len[l] |-> at[l][i]] BY <1>1, ChainIsCells
  <2>2. DOMAIN Chain(l) = 1 .. len[l] /\ \A i \in 1 .. len[l] : Chain(l)[i] = at[l][i]
    BY <2>1
  <2> QED BY <2>2 DEF ChainSet, ToSet
<1>5. key' = [n \in Nodes |-> IF n \in ChainSet(l) /\ key[n] = k THEN new ELSE key[n]]
  BY DEF ChangeKey
<1>6. \A i \in 1 .. len[l] : key'[at[l][i]] = IF key[at[l][i]] = k THEN new ELSE key[at[l][i]]
  BY <1>1, <1>3, <1>4, <1>5
<1>7. ASSUME NEW m \in Lists \ {l}, NEW i \in 1 .. len[m] PROVE key'[at[m][i]] = key[at[m][i]]
  <2>1. at[m][i] \in Nodes /\ i \in Nat BY <1>3
  <2>2. at[m][i] \notin ChainSet(l)
    <3>1. \A j \in 1 .. len[l] : at[m][i] # at[l][j] BY <1>1, <1>2, <1>3, <2>1 DEF Apart
    <3> QED BY <1>4, <3>1
  <2> QED BY <1>5, <2>1, <2>2
<1>8. Others(Words(at, len, key'), Words(at, len, key), l) BY <1>7 DEF Others, Words
<1>9. Shape(at, len)' BY QuietShape
<1>10. /\ Contents[l] \in Seq(Marks) /\ Contents'[l] \in Seq(Marks)
       /\ Contents[l] = Words(at, len, key)[l] /\ Contents'[l] = Words(at, len, key')[l]
       /\ Len(Contents[l]) = len[l]
       /\ Rewrites(Contents', Contents, l, Contents'[l])
  BY <1>1, <1>8, <1>9, Told
<1>11. Contents'[l] =
           [n \in DOMAIN Contents[l] |-> IF Contents[l][n] = k THEN new ELSE Contents[l][n]]
  <2>1. DOMAIN Contents[l] = 1 .. len[l] BY <1>10
  <2>2. \A i \in 1 .. len[l] : Contents[l][i] = key[at[l][i]] BY <1>1, <1>10 DEF Words
  <2>3. Contents'[l] = [i \in 1 .. len[l] |-> key'[at[l][i]]] BY <1>1, <1>10 DEF Words
  <2> QED BY <1>6, <2>1, <2>2, <2>3
<1>12. PICK A : A = (IF pc = "idle" THEN Contents ELSE was) OBVIOUS
<1>13. Rewrites(Contents', A, l,
                [n \in DOMAIN A[l] |-> IF A[l][n] = k THEN new ELSE A[l][n]])
  BY <1>1, <1>10, <1>11, <1>12
<1> QED
  BY <1>1, <1>12, <1>13
     DEF Rewrites, Sequences_!Change, Sequences_!Becomes, Nothing, Sequences_!Nothing

(* slist_init. *)
LEMMA InitDone ==
    ASSUME TypeOK, TypeOK', Shown, Shown', ~astray, ~astray',
           NEW at, NEW len, Shape(at, len), NEW l \in SLists, InitList(l)
    PROVE  Sequences_!Clear(l)
<1>1. /\ pc = "idle" /\ pc' = "idle" /\ l \in Lists /\ first[l] \in {Null, Wild}
      /\ got' = Nothing /\ key' = key
  BY DEF InitList, AtOnce, Idle, call, Lists, heap
<1>2. len[l] = 0
  <2>1. Cells(at, len) BY DEF Shape, Owns
  <2>2. len[l] \in Nat /\ (len[l] > 0 => at[l][1] \in Nodes)
    <3>1. len[l] \in Nat /\ \A i \in 1 .. len[l] : at[l][i] \in Nodes BY <1>1, <2>1, CellsEnd
    <3> QED BY <3>1
  <2>3. first[l] = at[l][1] \/ len[l] = 0 BY <1>1 DEF Shape, Heads
  <2> QED BY <1>1, <2>2, <2>3, NodesAssumption
<1>3. Shape(at, len)' BY InitListShape
<1>4. Others(Words(at, len, key'), Words(at, len, key), l) BY <1>1 DEF Others
<1>5. /\ Contents[l] \in Seq(Marks) /\ Len(Contents[l]) = len[l]
      /\ Contents'[l] = Words(at, len, key')[l] /\ Contents[l] = Words(at, len, key)[l]
      /\ Rewrites(Contents', Contents, l, Contents'[l])
  BY <1>1, <1>3, <1>4, Told
<1>6. Contents'[l] = <<>> BY <1>1, <1>2, <1>5, EmptySeq
<1> QED
  BY <1>1, <1>5, <1>6
     DEF Rewrites, Sequences_!Clear, Sequences_!Becomes, Nothing, Sequences_!Nothing
-----------------------------------------------------------------------------
(* A loop that ends and leaves a word of list l behind. *)
LEMMA Ended ==
    ASSUME TypeOK, TypeOK', Shown', pc # "idle", pc' = "idle",
           NEW at, NEW len, Shape(at, len), Begun(at, len), NEW a, NEW n, Shape(a, n)',
           NEW l \in Lists, \A m \in Lists \ {l} : ~Touched(m),
           Others(Words(a, n, key'), Words(at, len, key), l)
    PROVE  /\ Contents'[l] = Words(a, n, key')[l] /\ Len(Contents'[l]) = n[l]
           /\ Contents'[l] \in Seq(Marks)
           /\ Words(at, len, key)[l] \in Seq(Marks) /\ Len(Words(at, len, key)[l]) = len[l]
           /\ Rewrites(Contents', was, l, Contents'[l])
<1>1. Contents' = Words(a, n, key') BY Retold
<1>2. /\ Cells(at, len) /\ Cells(a, n)
      /\ key \in [Nodes -> Marks] /\ key' \in [Nodes -> Marks]
  BY KeyTypes DEF Shape, Owns, TypeOK, Marks
<1>3. Words(at, len, key)[l] \in Seq(Marks) /\ Len(Words(at, len, key)[l]) = len[l]
  BY <1>2, WordsAreSeqs
<1>4. Words(a, n, key')[l] \in Seq(Marks) /\ Len(Words(a, n, key')[l]) = n[l]
  BY <1>2, WordsAreSeqs
<1>5. PICK A, B : A = was /\ B = Contents' OBVIOUS
<1>6. A = [m \in Lists |-> A[m]] BY <1>5 DEF Begun
<1>7. B = [m \in Lists |-> B[m]] BY <1>1, <1>5 DEF Words
<1>8. \A m \in Lists \ {l} : B[m] = A[m] BY <1>1, <1>5 DEF Begun, Others
<1>9. B = [A EXCEPT ![l] = B[l]] BY <1>6, <1>7, <1>8
<1> QED BY <1>1, <1>3, <1>4, <1>5, <1>9 DEF Rewrites

(* queue_clear and stack_clear, and slist_clear. *)
LEMMA ClearDone ==
    ASSUME TypeOK, TypeOK', Shown', NEW at, NEW len, Shape(at, len), Begun(at, len), ~astray,
           ClearAllEnd \/ ClearEnd
    PROVE  Sequences_!Clear(list)
<1>1. /\ pc \in {"take", "free"} /\ pc' = "idle" /\ key' = key /\ got' = got /\ got = Nothing
      /\ list \in Lists
  BY DEF ClearAllEnd, ClearEnd, Running, Returns, heap, Begun, Shape, Loops, Lists
<1>2. Cells(at, len) BY DEF Shape, Owns
<1>3. PICK l \in Lists : l = list BY <1>1
<1>4. Shape(at, len)' BY QuietShape, ClearEndShape
<1>5. len[l] = 0
  <2>1. Null \notin Nodes /\ len[l] \in Nat /\ (len[l] > 0 => at[l][1] \in Nodes)
    <3>1. /\ Null \notin Nodes /\ len[l] \in Nat
          /\ \A i \in 1 .. len[l] : at[l][i] \in Nodes
      BY <1>2, CellsEnd
    <3> QED BY <3>1
  <2>2. at[l][1] = Null \/ len[l] = 0
    <3>1. CASE ClearEnd
      <4>1. pc = "free" /\ current = Null BY <3>1 DEF ClearEnd, Running
      <4> QED BY <1>3, <4>1 DEF Shape, Loops
    <3>2. CASE ClearAllEnd
      <4>1. pc = "take" /\ first[l] = Null BY <1>3, <3>2 DEF ClearAllEnd, Running, IsEmpty
      <4>2. first[l] = at[l][1] \/ len[l] = 0 BY <4>1 DEF Shape, Heads
      <4> QED BY <4>1, <4>2
    <3> QED BY <3>1, <3>2
  <2> QED BY <2>1, <2>2
<1>6. \A m \in Lists \ {l} : ~Touched(m) BY <1>1, <1>3 DEF Touched
<1>7. Others(Words(at, len, key'), Words(at, len, key), l) BY <1>1 DEF Others
<1>8. pc # "idle" BY <1>1
<1>9. /\ Len(Contents'[l]) = len[l] /\ Contents'[l] \in Seq(Marks)
      /\ Rewrites(Contents', was, l, Contents'[l])
  BY <1>1, <1>4, <1>6, <1>7, <1>8, Ended
<1>10. Contents'[l] = <<>> BY <1>5, <1>9, EmptySeq
<1> QED
  BY <1>1, <1>3, <1>8, <1>9, <1>10
     DEF Rewrites, Sequences_!Clear, Sequences_!Becomes, Nothing, Sequences_!Nothing

(* slist_delete that looks at more than the first node. *)
LEMMA DeleteDone ==
    ASSUME TypeOK, TypeOK', Shown', NEW at, NEW len, Shape(at, len), Begun(at, len), ~astray,
           DeleteEnd
    PROVE  Sequences_!Delete(list, arg)
<1>1. /\ pc = "delete" /\ pc # "idle" /\ pc' = "idle" /\ key' = key
      /\ got' = got /\ got = Nothing /\ list \in Lists
  BY DEF DeleteEnd, Running, Returns, heap, Begun, Shape, Loops, Lists
<1>2. Cells(at, len) BY DEF Shape, Owns
<1>3. PICK l \in Lists, k \in {arg} : l = list /\ k = arg BY <1>1
<1>4. Shape(at, len)' BY QuietShape
<1>5. \A m \in Lists \ {l} : ~Touched(m) BY <1>1, <1>3 DEF Touched
<1>6. Others(Words(at, len, key'), Words(at, len, key), l) BY <1>1 DEF Others
<1>7. /\ Contents'[l] = Words(at, len, key')[l] /\ Len(Contents'[l]) = len[l]
      /\ Rewrites(Contents', was, l, Contents'[l])
  BY <1>1, <1>4, <1>5, <1>6, Ended
<1>8. PICK c \in Nat : current = at[l][c] /\ Sifting(was[l], Words(at, len, key)[l], c, k)
  BY <1>1, <1>3 DEF Begun
<1>9. len[l] <= c
  <2>1. /\ len[l] \in Nat /\ Null \notin Nodes
        /\ \A i \in 1 .. len[l] : at[l][i] \in Nodes
    BY <1>2, CellsEnd
  <2>2. 1 <= c BY <1>8 DEF Sifting, Sifted
  <2>3. SUFFICES ASSUME c < len[l] PROVE FALSE
    BY <2>1
  <2>4. c \in 1 .. len[l] /\ c + 1 \in 1 .. len[l] BY <2>1, <2>2, <2>3
  <2>5. at[l][c] \in Nodes /\ at[l][c + 1] \in Nodes BY <2>1, <2>4
  <2>6. next[current] = Null BY <1>8, <2>1, <2>5 DEF DeleteEnd
  <2>7. next[at[l][c]] = at[l][c + 1] BY <1>1, <2>5 DEF Shape, Links
  <2> QED BY <1>8, <2>1, <2>5, <2>6, <2>7
<1>10. Deletes(was[l], Contents'[l], k)
  <2>1. Contents'[l] = Words(at, len, key)[l] BY <1>1, <1>7
  <2>2. Len(Words(at, len, key)[l]) <= c BY <1>7, <1>9, <2>1
  <2> QED BY <1>8, <2>1, <2>2, SiftEnd
<1>11. PICK A, B : A = was /\ B = Contents' OBVIOUS
<1>12. A = (IF pc = "idle" THEN Contents ELSE was) /\ B = (IF pc = "idle" THEN Contents ELSE was)'
  BY <1>1, <1>11
<1>13. Others(B, A, l)
  <2>1. A = [m \in Lists |-> A[m]] BY <1>1, <1>11 DEF Begun
  <2> QED BY <1>7, <1>11, <2>1 DEF Rewrites, Others
<1>14. Sequences_!Delete(l, k) BY <1>1, <1>10, <1>11, <1>12, <1>13, DeletesIsDelete
<1> QED BY <1>3, <1>14

(* slist_reverse. *)
LEMMA ReverseDone ==
    ASSUME TypeOK, TypeOK', Shown', NEW at, NEW len, Shape(at, len), Begun(at, len), ~astray,
           ReverseEnd
    PROVE  Sequences_!Turn(list)
<1>1. /\ pc = "reverse" /\ pc # "idle" /\ pc' = "idle" /\ key' = key
      /\ got' = got /\ got = Nothing /\ list \in Lists
  BY DEF ReverseEnd, Running, Returns, Begun, Shape, Loops, Lists
<1>2. Cells(at, len) BY DEF Shape, Owns
<1>3. PICK l \in Lists : l = list BY <1>1
<1>4. PICK a : Shape(a, len)' /\ a = [at EXCEPT ![l] = Turned(@, len[l])]
  BY <1>3, ReverseEndShape
<1>5. \A m \in Lists : ~Touched(m) BY <1>1 DEF Touched
<1>6. /\ len[l] \in Nat
      /\ \A m \in Lists \ {l} : a[m] = at[m]
      /\ \A i \in 1 .. len[l] : a[l][i] = at[l][len[l] + 1 - i]
  <2>1. len[l] \in Nat /\ a[l] = Turned(at[l], len[l]) /\ \A m \in Lists \ {l} : a[m] = at[m]
    BY <1>2, <1>4 DEF Cells
  <2> QED BY <2>1 DEF Turned
<1>7. Others(Words(a, len, key'), Words(at, len, key), l) BY <1>1, <1>6 DEF Others, Words
<1>8. /\ Contents'[l] = Words(a, len, key')[l] /\ Len(Contents'[l]) = len[l]
      /\ Contents'[l] \in Seq(Marks)
      /\ Words(at, len, key)[l] \in Seq(Marks) /\ Len(Words(at, len, key)[l]) = len[l]
      /\ Rewrites(Contents', was, l, Contents'[l])
  <2>1. Shape(a, len)' BY <1>4
  <2>2. \A m \in Lists \ {l} : ~Touched(m) BY <1>5
  <2>3. pc # "idle" /\ pc' = "idle" BY <1>1
  <2> QED BY <1>7, <2>1, <2>2, <2>3, Ended
<1>9. was[l] = Words(at, len, key)[l] BY <1>1, <1>5 DEF Begun
<1>10. Contents'[l] = Sequences_!Reverse(was[l])
  <2>1. Contents'[l] = [i \in 1 .. len[l] |-> key[a[l][i]]] BY <1>1, <1>8 DEF Words
  <2>2. was[l] = [i \in 1 .. len[l] |-> key[at[l][i]]] BY <1>9 DEF Words
  <2>3. Len(was[l]) = len[l] BY <1>8, <1>9
  <2>4. \A i \in 1 .. len[l] : /\ (len[l] - i) + 1 \in 1 .. len[l]
                               /\ (len[l] - i) + 1 = len[l] + 1 - i
    BY <1>6
  <2>5. \A i \in 1 .. len[l] : was[l][(len[l] - i) + 1] = key[a[l][i]]
    BY <1>6, <2>2, <2>4
  <2>6. Contents'[l] = [i \in 1 .. Len(was[l]) |-> was[l][(Len(was[l]) - i) + 1]]
    BY <2>1, <2>3, <2>5
  <2> QED BY <2>6 DEF Sequences_!Reverse
<1>11. PICK A : A = (IF pc = "idle" THEN Contents ELSE was) OBVIOUS
<1>12. Contents' = [A EXCEPT ![l] = Sequences_!Reverse(A[l])]
  <2>1. A = was BY <1>1, <1>11
  <2> QED BY <1>8, <1>10, <2>1 DEF Rewrites
<1> QED
  BY <1>1, <1>3, <1>11, <1>12
     DEF Sequences_!Turn, Sequences_!Becomes, Nothing, Sequences_!Nothing

(* slist_clone. *)
LEMMA CloneDone ==
    ASSUME TypeOK, TypeOK', Shown', NEW at, NEW len, Shape(at, len), Begun(at, len), ~astray,
           CloneEnd
    PROVE  Sequences_!Clone(list, to)
<1>1. /\ pc = "clone" /\ pc # "idle" /\ pc' = "idle" /\ key' = key
      /\ got' = got /\ got = Nothing
      /\ list \in Lists /\ to \in Lists /\ list # to
  BY DEF CloneEnd, Running, Returns, heap, Begun, Shape, Loops, Lists
<1>2. Cells(at, len) BY DEF Shape, Owns
<1>3. PICK l \in Lists, m \in Lists : l = list /\ m = to BY <1>1
<1>4. Shape(at, len)' BY CloneEndShape
<1>5. ~Touched(l) /\ \A j \in Lists \ {m} : ~Touched(j) BY <1>1, <1>3 DEF Touched
<1>6. Others(Words(at, len, key'), Words(at, len, key), m) BY <1>1 DEF Others
<1>7. /\ Contents'[m] = Words(at, len, key')[m]
      /\ Rewrites(Contents', was, m, Contents'[m])
  BY <1>1, <1>4, <1>5, <1>6, Ended
<1>8. len[m] = len[l]
  <2>1. /\ len[l] \in Nat /\ len[m] \in Nat /\ Null \notin Nodes
        /\ \A i \in 1 .. len[l] : at[l][i] \in Nodes
    BY <1>2, CellsEnd
  <2>2. len[m] <= len[l] /\ at[l][len[m] + 1] = Null
    BY <1>1, <1>3 DEF CloneEnd, Shape, Loops
  <2>3. SUFFICES ASSUME len[m] < len[l] PROVE FALSE
    BY <2>1, <2>2
  <2>4. len[m] + 1 \in 1 .. len[l] BY <2>1, <2>3
  <2> QED BY <2>1, <2>2, <2>4
<1>9. was[l] = Words(at, len, key)[l] BY <1>1, <1>5 DEF Begun
<1>10. Words(at, len, key)[m] = Words(at, len, key)[l]
  <2>1. \A i \in 1 .. len[m] : Words(at, len, key)[m][i] = Words(at, len, key)[l][i]
    BY <1>1, <1>3 DEF Begun
  <2>2. /\ Words(at, len, key)[m] = [i \in 1 .. len[m] |-> key[at[m][i]]]
        /\ Words(at, len, key)[l] = [i \in 1 .. len[m] |-> key[at[l][i]]]
    BY <1>8 DEF Words
  <2>3. \A i \in 1 .. len[m] : key[at[m][i]] = key[at[l][i]] BY <2>1, <2>2
  <2> QED BY <2>2, <2>3
<1>11. Contents'[m] = was[l] BY <1>1, <1>7, <1>9, <1>10
<1> QED
  BY <1>1, <1>3, <1>7, <1>11
     DEF Rewrites, Sequences_!Clone, Sequences_!Becomes, Nothing, Sequences_!Nothing

(* A call that has not returned. *)
LEMMA NotDone ==
    ASSUME ~astray, Next, pc' # "idle"
    PROVE  Sequences_!Underway
<1>1. CASE pc = "idle"
  <2>1. was' = Contents
    BY <1>1 DEF Next, SListCall, Work, AppendTo, PutFirst, TakeOut, ClearAll, Locate,
                ChangeKey, DeleteEmpty, DeleteHead, DeleteLater, ReverseBegin, CloneBegin,
                ClearBegin, InitList, ClearTake, ClearAllEnd, DeletePass, DeleteUnlink,
                DeleteEnd, ReverseTurn, ReverseEnd, CloneNode, CloneEnd, ClearFree,
                ClearEnd, AtOnce, Running, Starts, call, Stopped
  <2> QED BY <1>1, <2>1 DEF Sequences_!Underway
<1>2. CASE pc # "idle"
  <2>1. was' = was
    BY <1>2 DEF Next, SListCall, Work, AppendTo, PutFirst, TakeOut, ClearAll, Locate,
                ChangeKey, DeleteEmpty, DeleteHead, DeleteLater, ReverseBegin, CloneBegin,
                ClearBegin, InitList, ClearTake, ClearAllEnd, DeletePass, DeleteUnlink,
                DeleteEnd, ReverseTurn, ReverseEnd, CloneNode, CloneEnd, ClearFree,
                ClearEnd, AtOnce, Idle, Returns, call, Stopped
  <2> QED BY <1>2, <2>1 DEF Sequences_!Underway
<1> QED BY <1>1, <1>2
-----------------------------------------------------------------------------
(* What a step of a loop has to show, with W the words after it. *)
LEMMA BegunNext ==
    ASSUME NEW a, NEW n, NEW W, W = Words(a, n, key'),
           got' = Nothing, was' = [l \in Lists |-> was'[l]],
           \A l \in Lists : ~Touched(l)' => was'[l] = W[l],
           pc' = "delete" =>
               \E c \in Nat : current' = a[list'][c] /\ Sifting(was'[list'], W[list'], c, arg'),
           pc' = "clone" => \A i \in 1 .. n[to'] : W[to'][i] = W[list'][i]
    PROVE  Begun(a, n)'
BY DEF Begun, Words

(* A call that starts a loop. *)
LEMMA StartBegun ==
    ASSUME TypeOK, TypeOK', Shown, pc = "idle", NEW at, NEW len, Shape(at, len), Shape(at, len)',
           NEW loop, NEW l \in Lists, NEW m, NEW k, Starts(loop, l, m, k), key' = key,
           loop = "delete" => /\ current' = at[l][1] /\ key[at[l][1]] # k
                              /\ at[l][1] \in Nodes,
           loop = "clone" => len[m] = 0
    PROVE  Begun(at, len)'
<1>1. /\ pc' = loop /\ list' = l /\ to' = m /\ arg' = k /\ was' = Contents /\ got' = Nothing
  BY DEF Starts
<1>2. PICK W : W = Words(at, len, key') OBVIOUS
<1>3. was' = W BY <1>1, <1>2 DEF Shown
<1>4. was' = [j \in Lists |-> was'[j]] BY <1>2, <1>3 DEF Words
<1>5. Cells(at, len) /\ key \in [Nodes -> Marks] BY KeyTypes DEF Shape, Owns
<1>6. ASSUME loop = "delete" PROVE Sifting(W[l], W[l], 1, k)
  <2>1. W[l] \in Seq(Marks) /\ Len(W[l]) = len[l] /\ len[l] \in Nat
    BY <1>2, <1>5, WordsAreSeqs
  <2>2. 1 <= len[l] BY <1>5, <1>6, <2>1 DEF Cells
  <2>3. W[l][1] = key[at[l][1]] BY <1>2, <2>1, <2>2 DEF Words
  <2>4. W[l][1] # k /\ 1 <= Len(W[l]) BY <1>6, <2>1, <2>2, <2>3
  <2> QED BY <2>1, <2>4, SiftBegin
<1>7. pc' = "delete" =>
          \E c \in Nat : current' = at[list'][c] /\ Sifting(was'[list'], W[list'], c, arg')
  BY <1>1, <1>3, <1>6
<1>8. pc' = "clone" => \A i \in 1 .. len[to'] : W[to'][i] = W[list'][i] BY <1>1
<1>9. \A j \in Lists : ~Touched(j)' => was'[j] = W[j] BY <1>3
<1> QED BY <1>1, <1>2, <1>4, <1>7, <1>8, <1>9, BegunNext

LEMMA StartsBegun ==
    ASSUME TypeOK, TypeOK', Shown, ~astray, NEW at, NEW len, Shape(at, len),
           \/ \E l \in Queues \cup Stacks : ClearAll(l)
           \/ \E l \in SLists : \/ \E k \in Keys : DeleteLater(l, k)
                                \/ ReverseBegin(l) \/ ClearBegin(l)
                                \/ \E m \in SLists : CloneBegin(l, m)
    PROVE  Shape(at, len)' /\ Begun(at, len)'
<1>1. ASSUME NEW l \in Queues \cup Stacks, ClearAll(l)
      PROVE  Shape(at, len)' /\ Begun(at, len)'
  <2>1. Shape(at, len)' BY <1>1, QuietShape
  <2>2. /\ pc = "idle" /\ l \in Lists /\ key' = key /\ Starts("take", l, NoList, Nothing)
    BY <1>1 DEF ClearAll, Idle, heap, Lists
  <2> QED BY <2>1, <2>2, StartBegun
<1>2. ASSUME NEW l \in SLists, NEW k \in Keys, DeleteLater(l, k)
      PROVE  Shape(at, len)' /\ Begun(at, len)'
  <2>1. Shape(at, len)' BY <1>2, QuietShape
  <2>2. /\ pc = "idle" /\ l \in Lists /\ key' = key /\ Starts("delete", l, NoList, k)
        /\ current' = first[l] /\ first[l] \in live /\ key[first[l]] # k
    BY <1>2 DEF DeleteLater, Idle, heap, Lists
  <2>3. first[l] \in Nodes /\ first[l] # Wild BY <2>2, NodesAssumption DEF TypeOK
  <2>4. first[l] = at[l][1] BY <2>2, <2>3, HeadFacts
  <2>5. current' = at[l][1] /\ key[at[l][1]] # k /\ at[l][1] \in Nodes BY <2>2, <2>3, <2>4
  <2> QED BY <2>1, <2>2, <2>5, StartBegun
<1>3. ASSUME NEW l \in SLists, ReverseBegin(l)
      PROVE  Shape(at, len)' /\ Begun(at, len)'
  <2>1. Shape(at, len)' BY <1>3, ReverseBeginShape
  <2>2. /\ pc = "idle" /\ l \in Lists /\ key' = key /\ Starts("reverse", l, NoList, Nothing)
    BY <1>3 DEF ReverseBegin, Idle, heap, Lists
  <2> QED BY <2>1, <2>2, StartBegun
<1>4. ASSUME NEW l \in SLists, ClearBegin(l)
      PROVE  Shape(at, len)' /\ Begun(at, len)'
  <2>1. Shape(at, len)' BY <1>4, QuietShape
  <2>2. /\ pc = "idle" /\ l \in Lists /\ key' = key /\ Starts("free", l, NoList, Nothing)
    BY <1>4 DEF ClearBegin, Idle, heap, Lists
  <2> QED BY <2>1, <2>2, StartBegun
<1>5. ASSUME NEW l \in SLists, NEW m \in SLists, CloneBegin(l, m)
      PROVE  Shape(at, len)' /\ Begun(at, len)'
  <2>1. Shape(at, len)' BY <1>5, CloneBeginShape
  <2>2. /\ pc = "idle" /\ l \in Lists /\ m \in Lists /\ key' = key
        /\ Starts("clone", l, m, Nothing) /\ first[m] \in {Null, Wild}
    BY <1>5 DEF CloneBegin, Idle, heap, Lists
  <2>3. len[m] = 0
    <3>1. Cells(at, len) BY DEF Shape, Owns
    <3>2. len[m] \in Nat /\ (len[m] > 0 => at[m][1] \in Nodes)
      <4>1. len[m] \in Nat /\ \A i \in 1 .. len[m] : at[m][i] \in Nodes
        BY <2>2, <3>1, CellsEnd
      <4> QED BY <4>1
    <3>3. first[m] = at[m][1] \/ len[m] = 0 BY <2>2 DEF Shape, Heads
    <3> QED BY <2>2, <3>2, <3>3, NodesAssumption
  <2> QED BY <2>1, <2>2, <2>3, StartBegun
<1> QED BY <1>1, <1>2, <1>3, <1>4, <1>5

(* A step of a loop that changes the word of list l only. *)
LEMMA WorkBegun ==
    ASSUME NEW at, NEW len, Begun(at, len), pc # "idle", NEW a, NEW n, NEW l \in Lists, Touched(l),
           UNCHANGED <<pc, list, to, arg, was, got>>,
           Others(Words(a, n, key'), Words(at, len, key), l),
           pc = "delete" =>
               \E c \in Nat : /\ current' = a[list][c]
                             /\ Sifting(was[list], Words(a, n, key')[list], c, arg),
           pc = "clone" => \A i \in 1 .. n[to] :
                               Words(a, n, key')[to][i] = Words(a, n, key')[list][i]
    PROVE  Begun(a, n)'
<1>1. PICK W : W = Words(a, n, key') OBVIOUS
<1>2. /\ got' = Nothing /\ was' = [m \in Lists |-> was'[m]] BY DEF Begun
<1>3. \A m \in Lists : ~Touched(m)' => was'[m] = W[m]
  <2> SUFFICES ASSUME NEW m \in Lists, ~Touched(m)' PROVE was'[m] = W[m]
    OBVIOUS
  <2>1. ~Touched(m) BY DEF Touched
  <2>2. was[m] = Words(at, len, key)[m] /\ m # l BY <2>1 DEF Begun
  <2> QED BY <1>1, <2>2 DEF Others
<1>4. pc' = "delete" =>
          \E c \in Nat : current' = a[list'][c] /\ Sifting(was'[list'], W[list'], c, arg')
  BY <1>1
<1>5. pc' = "clone" => \A i \in 1 .. n[to'] : W[to'][i] = W[list'][i] BY <1>1
<1> QED BY <1>1, <1>2, <1>3, <1>4, <1>5, BegunNext

LEMMA TakeBegun ==
    ASSUME TypeOK, TypeOK', ~astray, NEW at, NEW len, Shape(at, len), Begun(at, len),
           ClearTake \/ ClearFree
    PROVE  \E a, n : Shape(a, n)' /\ Begun(a, n)'
<1>1. /\ pc \in {"take", "free"} /\ list \in Lists
      /\ UNCHANGED <<pc, list, to, arg, was, got>>
      /\ pc = "take" => list \in Queues \cup Stacks
  BY DEF ClearTake, ClearFree, Running, call, Shape, Loops, Lists
<1>2. PICK l \in Lists : l = list BY <1>1
<1>3. Cells(at, len) BY DEF Shape, Owns
<1>4. /\ len[l] \in Nat /\ Null \notin Nodes
      /\ at[l][1] \in Nodes => 1 <= len[l]
  BY <1>3, CellsEnd DEF Cells
<1>5. /\ \E a, n : Shape(a, n)' /\ Shrunk(at, len, l, 1, a, n)
      /\ FreeNode(at[l][1], Null, Null) /\ 1 <= len[l]
  <2>1. CASE ClearFree
    <3>1. /\ pc = "free" /\ current # Null /\ FreeNode(current, Null, Null)
      BY <2>1 DEF ClearFree, Running
    <3>2. current = at[l][1] /\ current \in Nodes BY <1>2, <3>1 DEF Shape, Loops, TypeOK
    <3>3. \E a, n : Shape(a, n)' /\ Shrunk(at, len, l, 1, a, n) BY <1>2, <2>1, ClearFreeShape
    <3> QED BY <1>4, <3>1, <3>2, <3>3
  <2>2. CASE ClearTake
    <3>1. /\ pc = "take" /\ Take(l) /\ ~IsEmpty(l) /\ l \in Queues \cup Stacks
          /\ UNCHANGED <<pc, list, to, current, prev>>
      BY <1>1, <1>2, <2>2 DEF ClearTake, Running, call
    <3>2. FreeNode(first[l], Null, Null) BY <3>1 DEF Take
    <3>3. l \notin SLists BY <3>1, KindsAssumption
    <3>4. first[l] = at[l][1] BY <3>1, <3>3 DEF Shape, Heads
    <3>5. len[l] # 0
      <4>1. len[l] = 0 => at[l][1] = Null BY <1>3, <1>4, CellsEnd
      <4>2. l \in Queues /\ len[l] = 0 => last[l] = Null BY DEF Shape, Ends
      <4> QED BY <3>1, <3>4, <4>1, <4>2 DEF IsEmpty
    <3>6. \E a, n : Shape(a, n)' /\ Shrunk(at, len, l, 1, a, n) BY <3>1, TakeShape
    <3> QED BY <1>4, <3>2, <3>4, <3>5, <3>6
  <2> QED BY <2>1, <2>2
<1>6. PICK a, n : Shape(a, n)' /\ Shrunk(at, len, l, 1, a, n) BY <1>5
<1>7. 1 \in Nat /\ 1 <= 1 OBVIOUS
<1>8. Others(Words(a, n, key'), Words(at, len, key), l) BY <1>5, <1>6, <1>7, FreeWords
<1>9. Touched(l) /\ pc # "idle" /\ pc # "delete" /\ pc # "clone"
  <2>1. pc \in {"take", "free"} /\ l = list BY <1>1, <1>2
  <2> QED BY <2>1 DEF Touched
<1>10. Begun(a, n)' BY <1>1, <1>8, <1>9, WorkBegun
<1> QED BY <1>6, <1>10

LEMMA PassBegun ==
    ASSUME TypeOK, TypeOK', ~astray, NEW at, NEW len, Shape(at, len), Begun(at, len),
           DeletePass
    PROVE  Shape(at, len)' /\ Begun(at, len)'
<1>1. /\ pc = "delete" /\ list \in Lists /\ key' = key /\ current # Null
      /\ UNCHANGED <<pc, list, to, arg, was, got>>
      /\ current' = next[current] /\ next[current] # Null /\ key[next[current]] # arg
  BY DEF DeletePass, Running, Shape, Loops, Lists, heap
<1>2. Shape(at, len)' BY QuietShape
<1>3. PICK l \in Lists, k \in {arg} : l = list /\ k = arg BY <1>1
<1>4. PICK c \in Nat : current = at[l][c] /\ Sifting(was[l], Words(at, len, key)[l], c, k)
  BY <1>1, <1>3 DEF Begun
<1>5. Cells(at, len) /\ key \in [Nodes -> Marks] BY KeyTypes DEF Shape, Owns
<1>6. next[current] = at[l][c + 1]
  <2>1. current \in Nodes BY <1>1 DEF TypeOK
  <2> QED BY <1>1, <1>4, <2>1 DEF Shape, Links
<1>7. c + 1 <= len[l] /\ len[l] \in Nat
  <2>1. len[l] \in Nat /\ \A i \in Nat : i > len[l] => at[l][i] = Null BY <1>5, CellsEnd
  <2> QED BY <1>1, <1>6, <2>1
<1>8. Len(Words(at, len, key)[l]) = len[l] BY <1>5, WordsAreSeqs
<1>9. Words(at, len, key)[l][c + 1] = key[at[l][c + 1]] BY <1>7 DEF Words
<1>10. Sifting(was[l], Words(at, len, key)[l], c + 1, k)
  BY <1>1, <1>3, <1>4, <1>6, <1>7, <1>8, <1>9, SiftPass
<1>11. Others(Words(at, len, key'), Words(at, len, key), l) BY <1>1 DEF Others
<1>12. Touched(l) /\ pc # "idle" /\ pc # "clone"
  <2>1. pc = "delete" /\ l = list BY <1>1, <1>3
  <2> QED BY <2>1 DEF Touched
<1>13. /\ c + 1 \in Nat /\ current' = at[list][c + 1]
       /\ Sifting(was[list], Words(at, len, key')[list], c + 1, arg)
  BY <1>1, <1>3, <1>6, <1>10
<1>14. Begun(at, len)' BY <1>1, <1>11, <1>12, <1>13, WorkBegun
<1> QED BY <1>2, <1>14

LEMMA UnlinkBegun ==
    ASSUME TypeOK, TypeOK', ~astray, ~astray', NEW at, NEW len, Shape(at, len), Begun(at, len),
           DeleteUnlink
    PROVE  \E a, n : Shape(a, n)' /\ Begun(a, n)'
<1>1. /\ pc = "delete" /\ list \in Lists /\ current # Null /\ next[current] # Null
      /\ UNCHANGED <<pc, list, to, arg, was, got>>
      /\ key[next[current]] = arg
  BY DEF DeleteUnlink, Running, Shape, Loops, Lists
<1>2. PICK l \in Lists, k \in {arg} : l = list /\ k = arg BY <1>1
<1>3. PICK a, n : \E c \in Nat :
         /\ Shape(a, n)' /\ Shrunk(at, len, l, c + 1, a, n)
         /\ current = at[l][c] /\ 1 <= c /\ c + 1 <= len[l]
  BY <1>2, UnlinkShape
<1>4. PICK c \in Nat : /\ Shape(a, n)' /\ Shrunk(at, len, l, c + 1, a, n)
                       /\ current = at[l][c] /\ 1 <= c /\ c + 1 <= len[l]
  BY <1>3
<1>5. /\ Cells(at, len) /\ Apart(at) /\ key \in [Nodes -> Marks]
      /\ Cells(a, n) /\ key' \in [Nodes -> Marks]
  BY <1>4, KeyTypes DEF Shape, Owns, TypeOK, Marks
<1>6. /\ len[l] \in Nat /\ at[l][c] \in Nodes /\ at[l][c + 1] \in Nodes
  BY <1>4, <1>5 DEF Cells
<1>7. next[current] = at[l][c + 1] /\ next[at[l][c + 1]] = at[l][c + 2]
  BY <1>1, <1>4, <1>6 DEF Shape, Links
<1>8. Sifting(was[l], Words(at, len, key)[l], c, k)
  <2>1. PICK d \in Nat : current = at[l][d] /\ Sifting(was[l], Words(at, len, key)[l], d, k)
    BY <1>1, <1>2 DEF Begun
  <2>2. d = c BY <1>4, <1>5, <1>6, <2>1 DEF Apart
  <2> QED BY <2>1, <2>2
<1>9. PICK q, nxt : FreeNode(at[l][c + 1], q, nxt) BY <1>7 DEF DeleteUnlink
<1>10. c + 1 \in Nat /\ 1 <= c + 1 BY <1>4
<1>11. /\ Others(Words(a, n, key'), Words(at, len, key), l)
       /\ Less(Words(at, len, key)[l], Words(a, n, key')[l], c + 1)
  BY <1>4, <1>9, <1>10, FreeWords
<1>12. Sifting(was[l], Words(a, n, key')[l], c + 1, k)
  <2>1. Len(Words(at, len, key)[l]) = len[l] BY <1>5, WordsAreSeqs
  <2>2. Words(a, n, key')[l] \in Seq(Marks) BY <1>5, WordsAreSeqs
  <2>3. Words(at, len, key)[l][c + 1] = k
    <3>1. Words(at, len, key)[l][c + 1] = key[at[l][c + 1]] BY <1>4, <1>6, <1>10 DEF Words
    <3> QED BY <1>1, <1>2, <1>7, <3>1
  <2>4. PICK v, w : v = Words(a, n, key')[l] /\ w = Words(at, len, key)[l] OBVIOUS
  <2>5. /\ Len(v) = Len(w) - 1
        /\ \A i \in 1 .. Len(w) - 1 : v[i] = IF i < c + 1 THEN w[i] ELSE w[i + 1]
    BY <1>11, <2>4 DEF Less
  <2>6. v \in Seq(Marks) /\ c + 1 <= Len(w) /\ w[c + 1] = k /\ Sifting(was[l], w, c, k)
    BY <1>4, <1>8, <2>1, <2>2, <2>3, <2>4
  <2>7. Sifting(was[l], v, c + 1, k) BY <2>5, <2>6, SiftUnlink
  <2> QED BY <2>4, <2>7
<1>13. current' = a[l][c + 1]
  <2>1. a[l][c + 1] = at[l][c + 2]
    <3>1. a[l] = Removed(at[l], c + 1) BY <1>4, <1>5 DEF Shrunk, Cells
    <3> QED BY <3>1 DEF Removed
  <2>2. current' = at[l][c + 2]
    <3>1. current' = IF next[current] = last[list] THEN Null ELSE next[next[current]]
      BY DEF DeleteUnlink
    <3>2. next[current] = last[list] => next[next[current]] = Null BY DEF DeleteUnlink
    <3>3. next[next[current]] = at[l][c + 2] BY <1>7
    <3> QED BY <3>1, <3>2, <3>3
  <2> QED BY <2>1, <2>2
<1>14. Touched(l) /\ pc # "idle" /\ pc # "clone" BY <1>1, <1>2 DEF Touched
<1>15. /\ c + 1 \in Nat /\ current' = a[list][c + 1]
       /\ Sifting(was[list], Words(a, n, key')[list], c + 1, arg)
  BY <1>2, <1>10, <1>12, <1>13
<1>16. Begun(a, n)' BY <1>1, <1>11, <1>14, <1>15, WorkBegun
<1> QED BY <1>4, <1>16

LEMMA TurnBegun ==
    ASSUME TypeOK, TypeOK', ~astray, NEW at, NEW len, Shape(at, len), Begun(at, len),
           ReverseTurn
    PROVE  Shape(at, len)' /\ Begun(at, len)'
<1>1. /\ pc = "reverse" /\ key' = key /\ UNCHANGED <<pc, list, to, arg, was, got>>
  BY DEF ReverseTurn, Running
<1>2. Shape(at, len)' BY ReverseTurnShape
<1>3. PICK W : W = Words(at, len, key') OBVIOUS
<1>4. /\ got' = Nothing /\ was' = [m \in Lists |-> was'[m]]
      /\ \A m \in Lists : was'[m] = W[m]
  BY <1>1, <1>3 DEF Begun, Touched
<1>5. pc' # "delete" /\ pc' # "clone" BY <1>1
<1>6. Begun(at, len)' BY <1>3, <1>4, <1>5, BegunNext
<1> QED BY <1>2, <1>6

LEMMA CloneBegun ==
    ASSUME TypeOK, TypeOK', ~astray, NEW at, NEW len, Shape(at, len), Begun(at, len),
           CloneNode
    PROVE  \E a, n : Shape(a, n)' /\ Begun(a, n)'
<1>1. /\ pc = "clone" /\ list \in Lists /\ to \in Lists /\ list # to
      /\ UNCHANGED <<pc, list, to, arg, was, got>>
      /\ current # Null /\ live # Nodes
      /\ len[to] <= len[list] /\ current = at[list][len[to] + 1]
  BY DEF CloneNode, Running, MakeNode, Shape, Loops, Lists
<1>2. PICK l \in Lists, m \in Lists : l = list /\ m = to /\ l # m BY <1>1
<1>3. PICK a, n : Shape(a, n)' /\ Grown(at, len, m, len[m] + 1, Fresh, a, n)
  BY <1>2, CloneNodeShape
<1>4. Fresh \in Nodes \ live BY <1>1, FreshNode
<1>5. /\ Owns(at, len, live) /\ Cells(at, len) /\ Cells(a, n) BY <1>3 DEF Shape, Owns
<1>6. key \in [Nodes -> Marks] BY KeyTypes
<1>7. current \in Nodes BY <1>1 DEF TypeOK
<1>8. PICK k \in Marks : k = key[current] BY <1>6, <1>7
<1>9. Written(key, key', Fresh, k)
  <2>1. key' = [key EXCEPT ![Fresh] = k] BY <1>8 DEF CloneNode, MakeNode
  <2> HIDE DEF Fresh
  <2> QED BY <1>4, <1>6, <1>8, <2>1 DEF Written
<1>10. len[m] \in Nat /\ len[m] + 1 \in Nat /\ 1 <= len[m] + 1 /\ len[m] + 1 <= len[m] + 1
  BY <1>5, CellsEnd
<1>11. /\ Others(Words(a, n, key'), Words(at, len, key), m)
       /\ More(Words(at, len, key)[m], Words(a, n, key')[m], len[m] + 1, k)
  BY <1>3, <1>4, <1>5, <1>9, <1>10, WordsGrown
<1>12. n[m] = len[m] + 1 BY <1>3, <1>5 DEF Grown, Cells
<1>13. Len(Words(at, len, key)[m]) = len[m] BY <1>5, <1>6, WordsAreSeqs
<1>14. ASSUME NEW i \in 1 .. n[m]
       PROVE  Words(a, n, key')[m][i] = Words(a, n, key')[l][i]
  <2>1. Words(a, n, key')[l] = Words(at, len, key)[l] BY <1>2, <1>11 DEF Others
  <2>2. CASE i <= len[m]
    <3>1. Words(a, n, key')[m][i] = Words(at, len, key)[m][i]
      BY <1>10, <1>11, <1>12, <1>13, <2>2 DEF More
    <3>2. Words(at, len, key)[m][i] = Words(at, len, key)[l][i]
      BY <1>1, <1>2, <1>10, <2>2 DEF Begun
    <3> QED BY <2>1, <3>1, <3>2
  <2>3. CASE i = len[m] + 1
    <3>1. Words(a, n, key')[m][i] = k BY <1>10, <1>11, <1>12, <1>13, <2>3 DEF More
    <3>2. i \in 1 .. len[l] /\ at[l][i] = current
      BY <1>1, <1>2, <1>5, <1>7, <1>10, <2>3 DEF Cells
    <3>3. Words(at, len, key)[l][i] = key[current] BY <3>2 DEF Words
    <3> QED BY <1>8, <2>1, <3>1, <3>3
  <2> QED BY <1>10, <1>12, <2>2, <2>3
<1>15. Touched(m) /\ pc # "idle" /\ pc # "delete" BY <1>1, <1>2 DEF Touched
<1>16. \A i \in 1 .. n[to] : Words(a, n, key')[to][i] = Words(a, n, key')[list][i]
  BY <1>2, <1>14
<1>17. Begun(a, n)' BY <1>1, <1>11, <1>15, <1>16, WorkBegun
<1> QED BY <1>3, <1>17
-----------------------------------------------------------------------------
LEMMA InitKept == Init => Kept /\ Sequences_!Init
<1> SUFFICES ASSUME Init PROVE Kept /\ Sequences_!Init
  OBVIOUS
<1>1. pc = "idle" /\ live = {} /\ got = Nothing /\ ~astray BY DEF Init
<1>2. TypeOK /\ Shown BY InitInv, ContentsShown DEF Inv
<1>3. PICK at, len : Shape(at, len) BY <1>1, InitInv DEF Inv
<1>4. Kept BY <1>1, <1>3 DEF Kept, Begun
<1>5. Contents = Words(at, len, key) BY <1>1, <1>2, <1>3 DEF Shown
<1>6. Cells(at, len) /\ Covers(at, live) /\ key \in [Nodes -> Marks]
  BY <1>2, <1>3, KeyTypes DEF Shape, Owns
<1>7. ASSUME NEW l \in Lists PROVE Words(at, len, key)[l] = <<>>
  <2>1. len[l] \in Nat /\ \A i \in 1 .. len[l] : at[l][i] \in Nodes /\ i \in Nat
    BY <1>6, CellsEnd
  <2>2. len[l] = 0 BY <1>1, <1>6, <2>1 DEF Covers
  <2>3. Words(at, len, key)[l] \in Seq(Marks) /\ Len(Words(at, len, key)[l]) = 0
    BY <1>6, <2>2, WordsAreSeqs
  <2> QED BY <2>3, EmptySeq
<1>8. Contents = [l \in Lists |-> <<>>]
  <2>1. Words(at, len, key) = [l \in Lists |-> Words(at, len, key)[l]] BY DEF Words
  <2> QED BY <1>5, <1>7, <2>1
<1>9. Sequences_!Init BY <1>1, <1>8 DEF Sequences_!Init, Nothing, Sequences_!Nothing
<1> QED BY <1>4, <1>9

(* Every step keeps what the loops have made of the words. *)
LEMMA KeptNext ==
    ASSUME Inv, Inv', Shown, Kept, [Next]_vars
    PROVE  Kept'
<1>1. TypeOK /\ TypeOK' BY DEF Inv
<1>2. CASE UNCHANGED vars
  <2> SUFFICES ASSUME ~astray' PROVE Kept'
    BY DEF Kept
  <2>1. PICK at, len : Shape(at, len) /\ Begun(at, len) BY <1>2 DEF vars, Kept
  <2>2. /\ UNCHANGED <<live, key, next, first, last, size, pc, list, to, arg, current, prev>>
        /\ UNCHANGED <<got, was, cloned>>
    BY <1>2 DEF vars, heap, heads, call
  <2>3. Shape(at, len)'
    BY <2>1, <2>2 DEF Shape, Owns, Links, Heads, Sizes, Ends, Loops, Turning
  <2>4. Begun(at, len)'
    <3>1. CASE pc = "idle" BY <2>2, <3>1 DEF Begun
    <3>2. CASE pc # "idle"
      <4>1. PICK W : W = Words(at, len, key') OBVIOUS
      <4>2. W = Words(at, len, key) BY <2>2, <4>1
      <4>3. /\ got' = Nothing /\ was' = [l \in Lists |-> was'[l]]
            /\ \A l \in Lists : ~Touched(l)' => was'[l] = W[l]
        BY <2>1, <2>2, <3>2, <4>2 DEF Begun, Touched
      <4>4. pc' = "delete" =>
               \E c \in Nat : current' = at[list'][c] /\ Sifting(was'[list'], W[list'], c, arg')
        BY <2>1, <2>2, <3>2, <4>2 DEF Begun
      <4>5. pc' = "clone" => \A i \in 1 .. len[to'] : W[to'][i] = W[list'][i]
        BY <2>1, <2>2, <3>2, <4>2 DEF Begun
      <4> QED BY <4>1, <4>3, <4>4, <4>5, BegunNext
    <3> QED BY <3>1, <3>2
  <2> QED BY <2>3, <2>4 DEF Kept
<1>3. CASE astray' BY <1>3 DEF Kept
<1>4. CASE pc' = "idle" /\ ~astray'
  <2>1. PICK at, len : Shape(at, len)' BY <1>4 DEF Inv
  <2>2. Begun(at, len)' BY <1>4 DEF Begun
  <2> QED BY <2>1, <2>2 DEF Kept
<1>5. CASE Next /\ pc' # "idle" /\ ~astray'
  <2>1. ~astray
    BY <1>5 DEF Next, SListCall, Work, AppendTo, PutFirst, TakeOut, ClearAll, Locate,
                ChangeKey, DeleteEmpty, DeleteHead, DeleteLater, ReverseBegin, CloneBegin,
                ClearBegin, InitList, ClearTake, ClearAllEnd, DeletePass, DeleteUnlink,
                DeleteEnd, ReverseTurn, ReverseEnd, CloneNode, CloneEnd, ClearFree,
                ClearEnd, AtOnce, Idle, Running, Stopped, vars
  <2>2. PICK at, len : Shape(at, len) /\ Begun(at, len) BY <2>1 DEF Kept
  <2>3. \/ \E l \in Queues \cup Stacks : ClearAll(l)
        \/ \E l \in SLists : \/ \E k \in Keys : DeleteLater(l, k)
                             \/ ReverseBegin(l) \/ ClearBegin(l)
                             \/ \E m \in SLists : CloneBegin(l, m)
        \/ ClearTake \/ ClearFree \/ DeletePass \/ DeleteUnlink \/ ReverseTurn \/ CloneNode
    <3>1. ~ClearAllEnd /\ ~DeleteEnd /\ ~ReverseEnd /\ ~CloneEnd /\ ~ClearEnd
      BY <1>5 DEF ClearAllEnd, DeleteEnd, ReverseEnd, CloneEnd, ClearEnd, Returns
    <3>2. /\ \A l \in Lists : /\ ~TakeOut(l) /\ ~InitList(l)
                              /\ \A k \in Keys : /\ ~AppendTo(l, k) /\ ~PutFirst(l, k)
                                                  /\ ~Locate(l, k) /\ ~DeleteEmpty(l, k)
                                                  /\ ~DeleteHead(l, k)
                                                  /\ \A new \in Keys : ~ChangeKey(l, k, new)
          /\ ~Stopped
      BY <1>5, <2>1 DEF TakeOut, InitList, AppendTo, PutFirst, Locate, DeleteEmpty, DeleteHead,
                        ChangeKey, AtOnce, Idle, call, Stopped
    <3> QED BY <1>5, <3>1, <3>2 DEF Next, SListCall, Work, Lists
  <2>4. \E a, n : Shape(a, n)' /\ Begun(a, n)'
    BY <1>1, <1>5, <2>1, <2>2, <2>3, StartsBegun, TakeBegun, PassBegun, UnlinkBegun, TurnBegun,
       CloneBegun
  <2> QED BY <2>4 DEF Kept
<1> QED BY <1>2, <1>3, <1>4, <1>5

(* Every call that returns has done what its header says. *)
LEMMA StepDone ==
    ASSUME Inv, Inv', Shown, Shown', Kept, Next, ~astray'
    PROVE  CallsDone
<1>1. TypeOK /\ TypeOK' BY DEF Inv
<1>2. ~astray
  BY DEF Next, SListCall, Work, AppendTo, PutFirst, TakeOut, ClearAll, Locate,
         ChangeKey, DeleteEmpty, DeleteHead, DeleteLater, ReverseBegin, CloneBegin,
         ClearBegin, InitList, ClearTake, ClearAllEnd, DeletePass, DeleteUnlink,
         DeleteEnd, ReverseTurn, ReverseEnd, CloneNode, CloneEnd, ClearFree,
         ClearEnd, AtOnce, Idle, Running, Stopped, vars
<1>3. PICK at, len : Shape(at, len) /\ Begun(at, len) BY <1>2 DEF Kept
<1>4. ASSUME NEW l \in Lists, NEW k \in Keys
      PROVE  /\ l \notin Stacks /\ AppendTo(l, k) => Sequences_!AddLast(l, k)
             /\ l \notin Queues /\ PutFirst(l, k) => Sequences_!Prepend(l, k)
  <2>1. /\ l \notin Stacks => l \in Queues \cup SLists
        /\ l \notin Queues => l \in Stacks \cup SLists
    BY DEF Lists
  <2>2. ASSUME l \notin Stacks, AppendTo(l, k) PROVE Sequences_!AddLast(l, k)
    BY <1>1, <1>2, <1>3, <2>1, <2>2, AppendDone
  <2>3. ASSUME l \notin Queues, PutFirst(l, k) PROVE Sequences_!Prepend(l, k)
    BY <1>1, <1>2, <1>3, <2>1, <2>3, PutDone
  <2> QED BY <2>2, <2>3
<1>5. ASSUME NEW l \in SLists, NEW k \in Keys
      PROVE  /\ Locate(l, k) => Sequences_!Locate(l, k)
             /\ DeleteEmpty(l, k) \/ DeleteHead(l, k) => Sequences_!Delete(l, k)
             /\ \A new \in Keys : ChangeKey(l, k, new) => Sequences_!Change(l, k, new)
  <2>1. ASSUME Locate(l, k) PROVE Sequences_!Locate(l, k)
    BY <1>1, <1>2, <1>3, <2>1, LocateDone
  <2>2. ASSUME DeleteEmpty(l, k) PROVE Sequences_!Delete(l, k)
    BY <1>1, <1>2, <1>3, <2>2, DeleteEmptyDone
  <2>3. ASSUME DeleteHead(l, k) PROVE Sequences_!Delete(l, k)
    BY <1>1, <1>2, <1>3, <2>3, DeleteHeadDone
  <2>4. ASSUME NEW new \in Keys, ChangeKey(l, k, new) PROVE Sequences_!Change(l, k, new)
    BY <1>1, <1>2, <1>3, <2>4, ChangeDone
  <2> QED BY <2>1, <2>2, <2>3, <2>4
<1>6. ASSUME NEW l \in Queues \cup Stacks, TakeOut(l) PROVE Sequences_!TakeFirst(l)
  BY <1>1, <1>2, <1>3, <1>6, TakeDone
<1>7. ASSUME NEW l \in SLists, InitList(l) PROVE Sequences_!Clear(l)
  BY <1>1, <1>2, <1>3, <1>7, InitDone
<1>8. ClearAllEnd \/ ClearEnd => Sequences_!Clear(list) BY <1>1, <1>2, <1>3, ClearDone
<1>9. DeleteEnd => Sequences_!Delete(list, arg) BY <1>1, <1>2, <1>3, DeleteDone
<1>10. ReverseEnd => Sequences_!Turn(list) BY <1>1, <1>2, <1>3, ReverseDone
<1>11. CloneEnd => Sequences_!Clone(list, to) BY <1>1, <1>2, <1>3, CloneDone
<1>12. pc' # "idle" => Sequences_!Underway BY <1>2, NotDone
<1> QED
  BY <1>4, <1>5, <1>6, <1>7, <1>8, <1>9, <1>10, <1>11, <1>12 DEF CallsDone

(* The lists begin empty, and a call changes the keys of its list as the header
   says and those of no other list, for every memory and every number of
   lists. *)
THEOREM CallsStayRight == Spec => CallsKeepSequences
<1>1. Inv /\ Inv' /\ Shown /\ Kept /\ [Next]_vars => Kept' BY KeptNext
<1>2. Inv /\ Inv' /\ Shown /\ Shown' /\ Kept /\ [Next]_vars => [~astray' => CallsDone]_vars
  BY StepDone
<1>3. Inv => Shown BY ContentsShown DEF Inv
<1> QED BY InitKept, Invariance, <1>1, <1>2, <1>3, PTL DEF Spec, CallsKeepSequences
=============================================================================
