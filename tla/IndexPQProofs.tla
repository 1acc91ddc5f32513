---------------------------- MODULE IndexPQProofs ----------------------------
(***************************************************************************)
(* Proofs about the indexed binary heap, for every capacity and every set  *)
(* of keys: pq and qp are inverse as long as ipqueue_remove has not        *)
(* strayed, and until then no operation loses, doubles or moves a key.     *)
(***************************************************************************)
EXTENDS IndexPQ, FiniteSetTheorems, TLAPS

Arrays == [Index -> Index \cup {Absent}]

Exchanged(p, a, b) == [p EXCEPT ![a] = p[b], ![b] = p[a]]
Relocated(p, q, a, b) == [[q EXCEPT ![p[b]] = a] EXCEPT ![p[a]] = b]

(* The exchange of two used positions keeps the rest and the indices held. *)
LEMMA ExchKeeps ==
  ASSUME Cap \in Nat, NEW n \in Nat, n <= Cap,
         NEW p \in Arrays, NEW q \in Arrays, Matches(p, q, n),
         NEW a \in 0 .. n - 1, NEW b \in 0 .. n - 1
  PROVE  /\ Exchanged(p, a, b) \in Arrays /\ Relocated(p, q, a, b) \in Arrays
         /\ Matches(Exchanged(p, a, b), Relocated(p, q, a, b), n)
         /\ Exchanged(p, a, b)[b] = p[a]
         /\ \A s \in Index \ {a, b} : Exchanged(p, a, b)[s] = p[s]
         /\ \A x \in Index : Relocated(p, q, a, b)[x] = Absent <=> q[x] = Absent
<1> DEFINE p2 == Exchanged(p, a, b)
           q2 == Relocated(p, q, a, b)
<1>1. /\ a \in Index /\ b \in Index /\ 0 .. n - 1 \subseteq Index
      /\ \A s \in 0 .. n - 1 : s # Absent
  BY DEF Index, Absent
<1>2. /\ p[a] \in Index /\ q[p[a]] = a
      /\ p[b] \in Index /\ q[p[b]] = b
  BY DEF Matches
<1>3. p2 \in Arrays /\ q2 \in Arrays
  BY <1>1, <1>2 DEF Arrays, Exchanged, Relocated
<1>4. \A s \in Index : p2[s] = IF s = b THEN p[a] ELSE IF s = a THEN p[b] ELSE p[s]
  BY <1>1 DEF Arrays, Exchanged
<1>5. \A x \in Index : q2[x] = IF x = p[a] THEN b ELSE IF x = p[b] THEN a ELSE q[x]
  BY <1>2 DEF Arrays, Relocated
<1> HIDE DEF p2, q2
<1>6. Matches(p2, q2, n)
  <2>1. ASSUME NEW s \in 0 .. n - 1 PROVE p2[s] \in Index /\ q2[p2[s]] = s
    <3>1. p[s] \in Index /\ q[p[s]] = s
      BY DEF Matches
    <3>2. s \in Index
      BY <1>1
    <3>3. CASE s = b
      BY <3>3, <3>2, <1>2, <1>4, <1>5
    <3>4. CASE s # b /\ s = a
      <4>1. p2[s] = p[b] /\ p[b] # p[a]
        BY <3>4, <3>2, <1>2, <1>4
      <4> QED
        BY <4>1, <3>4, <1>2, <1>5
    <3>5. CASE s # b /\ s # a
      <4>1. p2[s] = p[s] /\ p[s] # p[a] /\ p[s] # p[b]
        BY <3>5, <3>1, <3>2, <1>2, <1>4
      <4> QED
        BY <4>1, <3>1, <1>5
    <3> QED
      BY <3>3, <3>4, <3>5
  <2>2. ASSUME NEW x \in Index, q2[x] # Absent
        PROVE  q2[x] \in 0 .. n - 1 /\ p2[q2[x]] = x
    <3>1. q[x] # Absent => q[x] \in 0 .. n - 1 /\ p[q[x]] = x
      BY DEF Matches
    <3> QED
      BY <1>1, <1>2, <1>4, <1>5, <2>2, <3>1
  <2> QED
    BY <2>1, <2>2 DEF Matches
<1>7. \A x \in Index : q2[x] = Absent <=> q[x] = Absent
  BY <1>1, <1>2, <1>5
<1> QED
  BY <1>1, <1>3, <1>4, <1>6, <1>7 DEF p2, q2

(* A new index goes behind the last position. *)
LEMMA AddKeeps ==
  ASSUME Cap \in Nat, NEW n \in Nat, n < Cap,
         NEW p \in Arrays, NEW q \in Arrays, Matches(p, q, n),
         NEW x \in Index, q[x] = Absent
  PROVE  /\ [p EXCEPT ![n] = x] \in Arrays /\ [q EXCEPT ![x] = n] \in Arrays
         /\ Matches([p EXCEPT ![n] = x], [q EXCEPT ![x] = n], n + 1)
<1> DEFINE p2 == [p EXCEPT ![n] = x]
           q2 == [q EXCEPT ![x] = n]
<1>1. n \in Index /\ n # Absent
  BY DEF Index, Absent
<1>2. p2 \in Arrays /\ q2 \in Arrays
  BY <1>1 DEF Arrays
<1>3. \A s \in Index : p2[s] = IF s = n THEN x ELSE p[s]
  BY <1>1 DEF Arrays
<1>4. \A y \in Index : q2[y] = IF y = x THEN n ELSE q[y]
  BY DEF Arrays
<1> HIDE DEF p2, q2
<1>5. ASSUME NEW s \in 0 .. n PROVE p2[s] \in Index /\ q2[p2[s]] = s
  <2>1. CASE s = n
    BY <2>1, <1>1, <1>3, <1>4
  <2>2. CASE s # n
    <3>1. s \in 0 .. n - 1 /\ s \in Index /\ s # Absent
      BY <2>2 DEF Index, Absent
    <3>2. p[s] \in Index /\ q[p[s]] = s
      BY <3>1 DEF Matches
    <3> QED
      BY <2>2, <3>1, <3>2, <1>3, <1>4
  <2> QED
    BY <2>1, <2>2
<1>6. ASSUME NEW y \in Index, q2[y] # Absent
      PROVE  q2[y] \in 0 .. n /\ p2[q2[y]] = y
  <2>1. CASE y = x
    BY <2>1, <1>1, <1>3, <1>4
  <2>2. CASE y # x
    <3>1. q[y] \in 0 .. n - 1 /\ p[q[y]] = y
      BY <2>2, <1>4, <1>6 DEF Matches
    <3>2. q[y] \in Index /\ q[y] # n
      BY <3>1 DEF Index
    <3> QED
      BY <2>2, <3>1, <3>2, <1>3, <1>4
  <2> QED
    BY <2>1, <2>2
<1>7. Matches(p2, q2, n + 1)
  <2>1. 0 .. (n + 1) - 1 = 0 .. n
    OBVIOUS
  <2> QED
    BY <1>5, <1>6, <2>1 DEF Matches
<1> QED
  BY <1>2, <1>7 DEF p2, q2

(* The index in the last used position leaves. *)
LEMMA DropKeeps ==
  ASSUME Cap \in Nat, NEW n \in Nat, n < Cap,
         NEW p \in Arrays, NEW q \in Arrays, Matches(p, q, n + 1), NEW p2 \in Arrays,
         \A s \in 0 .. n - 1 : p2[s] = p[s]
  PROVE  /\ p[n] \in Index /\ q[p[n]] = n
         /\ [q EXCEPT ![p[n]] = Absent] \in Arrays
         /\ Matches(p2, [q EXCEPT ![p[n]] = Absent], n)
<1> DEFINE q2 == [q EXCEPT ![p[n]] = Absent]
<1>0. n \in 0 .. (n + 1) - 1 /\ 0 .. (n + 1) - 1 = 0 .. n
  OBVIOUS
<1>1. p[n] \in Index /\ q[p[n]] = n /\ n # Absent
  BY <1>0 DEF Matches, Absent
<1>2. q2 \in Arrays /\ \A y \in Index : q2[y] = IF y = p[n] THEN Absent ELSE q[y]
  BY <1>1 DEF Arrays
<1> HIDE DEF q2
<1>3. ASSUME NEW s \in 0 .. n - 1 PROVE p2[s] \in Index /\ q2[p2[s]] = s
  <2>1. p[s] \in Index /\ q[p[s]] = s
    BY <1>0 DEF Matches
  <2> QED
    BY <1>1, <1>2, <2>1
<1>4. ASSUME NEW y \in Index, q2[y] # Absent
      PROVE  q2[y] \in 0 .. n - 1 /\ p2[q2[y]] = y
  <2>1. y # p[n] /\ q2[y] = q[y]
    BY <1>2, <1>4
  <2>2. q[y] \in 0 .. n /\ p[q[y]] = y
    BY <2>1, <1>4, <1>0 DEF Matches
  <2>3. q[y] # n
    BY <2>1, <2>2
  <2> QED
    BY <2>1, <2>2, <2>3
<1>5. Matches(p2, q2, n)
  BY <1>3, <1>4 DEF Matches
<1> QED
  BY <1>1, <1>2, <1>5 DEF q2

(* As long as an index is absent there is room for it. *)
LEMMA RoomLeft ==
  ASSUME Cap \in Nat, NEW n \in Nat, NEW p \in Arrays, NEW q \in Arrays, Matches(p, q, n),
         NEW x \in Index, q[x] = Absent
  PROVE  n < Cap
<1> DEFINE f == [s \in 0 .. n - 1 |-> p[s]]
           Others == Index \ {x}
<1>1. IsFiniteSet(Index) /\ Cardinality(Index) = Cap
  <2>1. /\ IsFiniteSet(0 .. Cap - 1)
        /\ Cardinality(0 .. Cap - 1) = IF 0 > Cap - 1 THEN 0 ELSE (Cap - 1) - 0 + 1
    BY FS_Interval
  <2> QED
    BY <2>1 DEF Index
<1>2. IsFiniteSet(Others) /\ Cardinality(Others) = Cap - 1
  BY <1>1, FS_RemoveElement
<1>3. Cardinality(0 .. n - 1) = n
  <2>1. Cardinality(0 .. n - 1) = IF 0 > n - 1 THEN 0 ELSE (n - 1) - 0 + 1
    BY FS_Interval
  <2> QED
    BY <2>1
<1>4. f \in Injection(0 .. n - 1, Others)
  <2>1. \A s \in 0 .. n - 1 : p[s] \in Index /\ q[p[s]] = s /\ s # Absent
    BY DEF Matches, Absent
  <2>2. f \in [0 .. n - 1 -> Others]
    BY <2>1
  <2>3. ASSUME NEW s \in 0 .. n - 1, NEW t \in 0 .. n - 1, f[s] = f[t] PROVE s = t
    BY <2>1, <2>3
  <2> QED
    BY <2>2, <2>3 DEF Injection, IsInjective
<1>5. Cardinality(0 .. n - 1) <= Cardinality(Others)
  BY <1>2, <1>4, FS_Injection
<1> QED
  BY <1>2, <1>3, <1>5
-----------------------------------------------------------------------------
(* What an exchange of two used positions in a step does. *)
LEMMA ExchStep ==
  ASSUME Cap \in Nat, ArraysSound, ~strayed,
         NEW a \in 0 .. Used - 1, NEW b \in 0 .. Used - 1, Exch(a, b)
  PROVE  /\ pq' \in Arrays /\ qp' \in Arrays /\ Matches(pq', qp', Used)
         /\ pq'[b] = pq[a]
         /\ \A s \in Index \ {a, b} : pq'[s] = pq[s]
         /\ \A x \in Index : qp'[x] = Absent <=> qp[x] = Absent
<1>1. Used \in Nat /\ Used <= Cap
  BY DEF ArraysSound, Used
<1>2. pq \in Arrays /\ qp \in Arrays /\ Matches(pq, qp, Used)
  BY DEF ArraysSound, Arrays
<1>3. pq' = Exchanged(pq, a, b) /\ qp' = Relocated(pq, qp, a, b)
  BY DEF Exch, Exchanged, Relocated
<1> QED
  BY <1>1, <1>2, <1>3, ExchKeeps

(* In a sound queue the used positions are numbers from 0 on. *)
LEMMA SoundTypes ==
  ASSUME Cap \in Nat, ArraysSound, ~strayed
  PROVE  /\ size \in Nat /\ Used \in Nat /\ Used <= Cap
         /\ pq \in Arrays /\ qp \in Arrays /\ Matches(pq, qp, Used)
         /\ keys \in [Index -> Keys \cup {Zero}]
         /\ Control
         /\ op \in {"insert", "delete", "remove"} => Used = size + 1
         /\ op \notin {"insert", "delete", "remove"} => Used = size
         /\ 0 .. Used - 1 \subseteq Index
BY DEF ArraysSound, Arrays, Used, Index

(* To be sound after a step that has not strayed. *)
LEMMA SoundNext ==
  ASSUME (pc = "idle" <=> op = "none")',
         ~strayed' => /\ pq' \in Arrays /\ qp' \in Arrays
                      /\ keys' \in [Index -> Keys \cup {Zero}]
                      /\ size' \in Nat /\ Used' <= Cap
                      /\ Matches(pq', qp', Used') /\ Control'
  PROVE  ArraysSound'
BY DEF ArraysSound, Arrays

LEMMA InitSound == ASSUME Cap \in Nat, Init PROVE ArraysSound
<1>1. Used = 0 /\ 0 .. 0 - 1 = {}
  BY DEF Init, Used
<1>2. pq \in [Index -> Index \cup {Absent}]
  BY DEF Init, Index
<1>3. Matches(pq, qp, 0)
  BY <1>1 DEF Init, Matches
<1> QED
  BY <1>1, <1>2, <1>3 DEF Init, ArraysSound, Control

(* An operation that begins at position n with an exchange or without. *)
LEMMA InsertSound ==
  ASSUME Cap \in Nat, ArraysSound, NEW x \in Index, NEW key \in Keys, Insert(x, key)
  PROVE  ArraysSound'
<1>1. /\ ~strayed /\ ~strayed' /\ op = "none" /\ qp[x] = Absent
      /\ op' = "insert" /\ pc' = "swim" /\ k' = size /\ size' = size
      /\ pq' = [pq EXCEPT ![size] = x] /\ qp' = [qp EXCEPT ![x] = size]
      /\ keys' = [keys EXCEPT ![x] = key]
  BY DEF Insert, Begin, Contains, ArraysSound
<1>2. Used = size /\ Used' = size + 1
  BY <1>1 DEF Used
<1>3. size < Cap
  BY <1>1, <1>2, SoundTypes, RoomLeft
<1>4. pq' \in Arrays /\ qp' \in Arrays /\ Matches(pq', qp', size + 1)
  BY <1>1, <1>2, <1>3, SoundTypes, AddKeeps
<1>5. keys' \in [Index -> Keys \cup {Zero}] /\ size' \in Nat /\ Used' <= Cap
  BY <1>1, <1>2, <1>3, SoundTypes
<1>6. Control'
  BY <1>1, <1>2, SoundTypes DEF Control
<1> QED
  BY <1>1, <1>2, <1>4, <1>5, <1>6, SoundNext

LEMMA DeleteSound == ASSUME Cap \in Nat, ArraysSound, Delete PROVE ArraysSound'
<1>1. /\ ~strayed /\ ~strayed' /\ op = "none" /\ size > 0
      /\ op' = "delete" /\ pc' = "sink" /\ k' = 0 /\ i' = pq[0] /\ size' = size - 1
      /\ keys' = keys /\ Exch(0, size - 1)
  BY DEF Delete, Begin, ArraysSound
<1>2. size \in Nat /\ Used = size /\ Used' = size
  BY <1>1, SoundTypes DEF Used
<1>3. /\ pq' \in Arrays /\ qp' \in Arrays /\ Matches(pq', qp', Used)
      /\ pq'[size - 1] = pq[0]
  BY <1>1, <1>2, ExchStep
<1>4. Control'
  BY <1>1, <1>2, <1>3 DEF Control
<1> QED
  BY <1>1, <1>2, <1>3, <1>4, SoundTypes, SoundNext

LEMMA RemoveSound ==
  ASSUME Cap \in Nat, ArraysSound, NEW x \in Index, Remove(x) PROVE ArraysSound'
<1>1. /\ ~strayed /\ ~strayed' /\ op = "none" /\ qp[x] # Absent
      /\ op' = "remove" /\ pc' = "swim" /\ k' = qp[x] /\ i' = x /\ at' = qp[x]
      /\ size' = size - 1 /\ keys' = keys /\ Exch(qp[x], size - 1)
  BY DEF Remove, Begin, Contains, ArraysSound
<1>2. /\ size \in Nat /\ Used = size /\ Used' = size
      /\ qp[x] \in 0 .. size - 1 /\ pq[qp[x]] = x
  BY <1>1, SoundTypes DEF Used, Matches
<1>3. /\ pq' \in Arrays /\ qp' \in Arrays /\ Matches(pq', qp', Used)
      /\ pq'[size - 1] = x
  BY <1>1, <1>2, ExchStep
<1>4. Control'
  BY <1>1, <1>2, <1>3 DEF Control
<1> QED
  BY <1>1, <1>2, <1>3, <1>4, SoundTypes, SoundNext

LEMMA RekeySound ==
  ASSUME Cap \in Nat, ArraysSound, NEW x \in Index, NEW key \in Keys,
         Change(x, key) \/ Decrkey(x, key) \/ Incrkey(x, key)
  PROVE  ArraysSound'
<1>1. /\ ~strayed /\ ~strayed' /\ op = "none" /\ qp[x] # Absent
      /\ op' \in {"change", "decrkey", "incrkey"} /\ pc' \in {"swim", "sink"}
      /\ k' = qp[x] /\ i' = x /\ size' = size /\ pq' = pq /\ qp' = qp
      /\ keys' = [keys EXCEPT ![x] = key]
  BY DEF Change, Decrkey, Incrkey, Rekey, Begin, Contains, ArraysSound
<1>2. /\ size \in Nat /\ Used = size /\ Used' = size
      /\ qp[x] \in 0 .. size - 1 /\ pq[qp[x]] = x
  BY <1>1, SoundTypes DEF Used, Matches
<1>3. Control'
  BY <1>1, <1>2 DEF Control
<1>4. keys' \in [Index -> Keys \cup {Zero}]
  BY <1>1, SoundTypes
<1> QED
  BY <1>1, <1>2, <1>3, <1>4, SoundTypes, SoundNext

LEMMA ClearSound == ASSUME Cap \in Nat, ArraysSound, Clear PROVE ArraysSound'
<1>1. op = "none" /\ Used' = 0 /\ size' = 0 /\ op' = "none" /\ pc' = "idle" /\ ~strayed'
  BY DEF Clear, ArraysSound, Used
<1>2. pq' \in Arrays /\ qp' \in Arrays /\ keys' \in [Index -> Keys \cup {Zero}]
  BY DEF Clear, Arrays, Index
<1>3. Matches(pq', qp', 0)
  BY DEF Clear, Matches
<1>4. Control'
  BY <1>1 DEF Control
<1> QED
  BY <1>1, <1>2, <1>3, <1>4, SoundNext

(* Steps that leave the heap as it is. *)
LEMMA StillSound ==
  ASSUME Cap \in Nat, ArraysSound, UNCHANGED <<pq, qp, keys, strayed>>,
         (pc = "idle" <=> op = "none")',
         ~strayed => size' \in Nat /\ Used' = Used /\ Control'
  PROVE  ArraysSound'
BY SoundTypes, SoundNext

(* A swim that has not strayed exchanges positions of the heap proper. *)
LEMMA SwimExchanges ==
  ASSUME Cap \in Nat, ArraysSound, SwimStep, ~strayed'
  PROVE  /\ ~strayed /\ op' = op /\ op \notin {"none", "delete"} /\ Used' = Used
         /\ k \div 2 \in 0 .. Used - 1 /\ k \in 0 .. Used - 1
         /\ op = "remove" => k \div 2 < size /\ k < size
         /\ Exch(k \div 2, k)
<1>1. /\ pc = "swim" /\ op' = op /\ size' = size /\ k > 0 /\ Exch(k \div 2, k)
      /\ ~strayed /\ ~(op = "remove" /\ k = size)
  BY DEF SwimStep, SwimGoesOn, SwimParent
<1>2. op \notin {"none", "delete"} /\ k \in 0 .. Used - 1
  BY <1>1, SoundTypes DEF Control, ArraysSound
<1>3. Used \in Nat /\ size \in Nat /\ (op = "remove" => Used = size + 1)
  BY <1>1, SoundTypes
<1>4. k \div 2 \in Nat /\ k \div 2 <= k
  BY <1>2, <1>3
<1> QED
  BY <1>1, <1>2, <1>3, <1>4 DEF Used

LEMMA SwimSound == ASSUME Cap \in Nat, ArraysSound, SwimStep PROVE ArraysSound'
<1>1. /\ (pc = "idle" <=> op = "none")' /\ size' = size /\ keys' = keys /\ k' = k \div 2
      /\ pc = "swim" /\ pc' = pc /\ op' = op /\ i' = i /\ at' = at
  BY DEF SwimStep, SwimParent, ArraysSound
<1>2. ASSUME ~strayed'
      PROVE  /\ pq' \in Arrays /\ qp' \in Arrays /\ Matches(pq', qp', Used') /\ Control'
             /\ keys' \in [Index -> Keys \cup {Zero}] /\ size' \in Nat /\ Used' <= Cap
  <2>1. /\ ~strayed /\ op \notin {"none", "delete"} /\ Used' = Used
        /\ k \div 2 \in 0 .. Used - 1 /\ k \in 0 .. Used - 1
        /\ op = "remove" => k \div 2 < size /\ k < size
        /\ Exch(k \div 2, k)
    BY <1>2, SwimExchanges
  <2>2. /\ pq' \in Arrays /\ qp' \in Arrays /\ Matches(pq', qp', Used)
        /\ \A s \in Index \ {k \div 2, k} : pq'[s] = pq[s]
        /\ \A x \in Index : qp'[x] = Absent <=> qp[x] = Absent
    BY <2>1, ExchStep
  <2>3. op = "remove" => pq'[size] = i
    <3>1. op = "remove" => size \in Index \ {k \div 2, k}
      BY <2>1, SoundTypes DEF Index
    <3> QED
      BY <2>1, <2>2, <3>1, SoundTypes DEF Control
  <2>4. Control'
    BY <1>1, <2>1, <2>2, <2>3, SoundTypes DEF Control
  <2> QED
    BY <1>1, <2>1, <2>2, <2>4, SoundTypes
<1> QED
  BY <1>1, <1>2, SoundNext

(* sink exchanges positions of the heap proper. *)
LEMMA SinkExchanges ==
  ASSUME Cap \in Nat, ArraysSound, SinkStep, ~strayed
  PROVE  /\ op' = op /\ op \notin {"none", "insert"} /\ Used' = Used
         /\ k \in 0 .. size - 1 /\ SinkChild \in 0 .. size - 1
         /\ size \in Nat /\ size <= Used
         /\ Exch(k, SinkChild)
<1>1. /\ pc = "sink" /\ op' = op /\ size' = size /\ 2 * k + 1 < size /\ Exch(k, SinkChild)
  BY DEF SinkStep, SinkGoesOn
<1>2. op \notin {"none", "insert"} /\ k \in 0 .. Used - 1
  BY <1>1, SoundTypes DEF Control, ArraysSound
<1>3. Used \in Nat /\ size \in Nat /\ (Used = size \/ Used = size + 1)
  BY SoundTypes
<1>4. SinkChild \in {2 * k + 1, 2 * k + 2} /\ SinkChild < size
  BY <1>1, <1>2, <1>3 DEF SinkChild
<1> QED
  BY <1>1, <1>2, <1>3, <1>4 DEF Used

LEMMA SinkSound == ASSUME Cap \in Nat, ArraysSound, SinkStep PROVE ArraysSound'
<1>1. /\ (pc = "idle" <=> op = "none")' /\ size' = size /\ keys' = keys /\ k' = SinkChild
      /\ pc = "sink" /\ pc' = pc /\ op' = op /\ i' = i /\ at' = at /\ strayed' = strayed
  BY DEF SinkStep, ArraysSound
<1>2. ASSUME ~strayed'
      PROVE  /\ pq' \in Arrays /\ qp' \in Arrays /\ Matches(pq', qp', Used') /\ Control'
             /\ keys' \in [Index -> Keys \cup {Zero}] /\ size' \in Nat /\ Used' <= Cap
  <2>1. /\ ~strayed /\ op \notin {"none", "insert"} /\ Used' = Used
        /\ k \in 0 .. size - 1 /\ SinkChild \in 0 .. size - 1
        /\ k \in 0 .. Used - 1 /\ SinkChild \in 0 .. Used - 1
        /\ Exch(k, SinkChild)
    BY <1>1, <1>2, SinkExchanges, SoundTypes
  <2>2. /\ pq' \in Arrays /\ qp' \in Arrays /\ Matches(pq', qp', Used)
        /\ \A s \in Index \ {k, SinkChild} : pq'[s] = pq[s]
        /\ \A x \in Index : qp'[x] = Absent <=> qp[x] = Absent
    BY <2>1, ExchStep
  <2>3. op \in {"delete", "remove"} => pq'[size] = i
    <3>1. op \in {"delete", "remove"} => size \in Index \ {k, SinkChild}
      BY <2>1, SoundTypes DEF Index
    <3> QED
      BY <2>1, <2>2, <3>1, SoundTypes DEF Control
  <2>4. Control'
    BY <1>1, <2>1, <2>2, <2>3, SoundTypes DEF Control
  <2> QED
    BY <1>1, <2>1, <2>2, <2>4, SoundTypes
<1> QED
  BY <1>1, <1>2, SoundNext

LEMMA SwimThenSinkSound ==
  ASSUME Cap \in Nat, ArraysSound, SwimThenSink PROVE ArraysSound'
<1>1. /\ (pc = "idle" <=> op = "none")' /\ UNCHANGED <<pq, qp, keys, strayed, size, op, i, at>>
      /\ op \in {"remove", "change"} /\ pc' = "sink"
      /\ k' = IF op = "remove" THEN at ELSE qp[i]
  BY DEF SwimThenSink, ArraysSound
<1>2. ASSUME ~strayed PROVE size' \in Nat /\ Used' = Used /\ Control'
  <2>1. size' \in Nat /\ Used' = Used
    BY <1>1, <1>2, SoundTypes DEF Used
  <2>2. k' \in 0 .. Used - 1
    <3>1. CASE op = "remove"
      BY <3>1, <1>1, <1>2, SoundTypes DEF Control
    <3>2. CASE op = "change"
      BY <3>2, <1>1, <1>2, SoundTypes DEF Control, Matches
    <3> QED
      BY <3>1, <3>2, <1>1
  <2>3. Control'
    BY <1>1, <1>2, <2>1, <2>2, SoundTypes DEF Control
  <2> QED
    BY <2>1, <2>3
<1> QED
  BY <1>1, <1>2, StillSound

LEMMA ReturnSound ==
  ASSUME Cap \in Nat, ArraysSound, SwimReturn \/ RekeyEnd PROVE ArraysSound'
<1>1. /\ (pc = "idle" <=> op = "none")' /\ UNCHANGED <<pq, qp, keys, strayed>>
      /\ op \in {"insert", "decrkey", "change", "incrkey"} /\ pc' = "idle" /\ op' = "none"
      /\ size' = IF op = "insert" THEN size + 1 ELSE size
  BY DEF SwimReturn, RekeyEnd, End
<1>2. ASSUME ~strayed PROVE size' \in Nat /\ Used' = Used /\ Control'
  BY <1>1, <1>2, SoundTypes DEF Used, Control
<1> QED
  BY <1>1, <1>2, StillSound

(* remove and delete forget the index behind the heap. *)
LEMMA EndSound ==
  ASSUME Cap \in Nat, ArraysSound, RemoveEnd \/ DeleteEnd PROVE ArraysSound'
<1>1. /\ (pc = "idle" <=> op = "none")' /\ strayed' = strayed /\ size' = size
      /\ op \in {"remove", "delete"} /\ pc' = "idle" /\ op' = "none"
      /\ keys' = [keys EXCEPT ![i] = Zero] /\ qp' = [qp EXCEPT ![i] = Absent]
      /\ pq' = pq \/ pq' = [pq EXCEPT ![size] = Absent]
  BY DEF RemoveEnd, DeleteEnd, End
<1>2. ASSUME ~strayed'
      PROVE  /\ pq' \in Arrays /\ qp' \in Arrays /\ Matches(pq', qp', Used') /\ Control'
             /\ keys' \in [Index -> Keys \cup {Zero}] /\ size' \in Nat /\ Used' <= Cap
  <2>1. /\ ~strayed /\ size \in Nat /\ size + 1 <= Cap /\ pq[size] = i
        /\ pq \in Arrays /\ qp \in Arrays /\ Matches(pq, qp, size + 1)
        /\ keys \in [Index -> Keys \cup {Zero}]
    BY <1>1, <1>2, SoundTypes DEF Control
  <2>2. pq' \in Arrays /\ \A s \in 0 .. size - 1 : pq'[s] = pq[s]
    <3>1. size \in Index /\ 0 .. size - 1 \subseteq Index
      BY <2>1 DEF Index
    <3> QED
      BY <1>1, <2>1, <3>1 DEF Arrays
  <2>3. i \in Index /\ qp' \in Arrays /\ Matches(pq', qp', size)
    <3>1. size < Cap /\ qp' = [qp EXCEPT ![pq[size]] = Absent]
      BY <1>1, <2>1
    <3>2. /\ pq[size] \in Index
          /\ [qp EXCEPT ![pq[size]] = Absent] \in Arrays
          /\ Matches(pq', [qp EXCEPT ![pq[size]] = Absent], size)
      BY <2>1, <2>2, <3>1, DropKeeps
    <3> QED
      BY <2>1, <3>1, <3>2
  <2>4. keys' \in [Index -> Keys \cup {Zero}]
    BY <1>1, <2>1
  <2>5. Used' = size
    BY <1>1 DEF Used
  <2>6. Control'
    BY <1>1 DEF Control
  <2> QED
    BY <1>1, <2>1, <2>2, <2>3, <2>4, <2>5, <2>6
<1> QED
  BY <1>1, <1>2, SoundNext

(* Every step of every operation keeps the arrays sound. *)
LEMMA NextSound == ASSUME Cap \in Nat, ArraysSound, [Next]_vars PROVE ArraysSound'
<1>1. CASE UNCHANGED vars
  BY <1>1, SoundTypes, SoundNext DEF vars, ArraysSound, Control, Used
<1>2. CASE Reinit
  BY <1>2, SoundTypes, SoundNext DEF Reinit, ArraysSound, Control, Used
<1> QED
  BY <1>1, <1>2, InsertSound, DeleteSound, RemoveSound, RekeySound, ClearSound, SwimSound,
     SinkSound, SwimThenSinkSound, ReturnSound, EndSound DEF Next, Loops
-----------------------------------------------------------------------------
(* include/indexpqueue.h: "inverse of pq, qp[pq[i]] = pq[qp[i]] = i", for every
   capacity and every set of keys, between operations and until
   ipqueue_remove has strayed. *)
THEOREM ArraysInverse == ASSUME Cap \in Nat PROVE Spec => []InverseUnlessStrayed
<1>1. Init => ArraysSound
  BY InitSound
<1>2. ArraysSound /\ [Next]_vars => ArraysSound'
  BY NextSound
<1>3. ArraysSound => InverseUnlessStrayed
  BY SoundTypes DEF ArraysSound, InverseUnlessStrayed, InverseArrays
<1> QED
  BY <1>1, <1>2, <1>3, PTL DEF Spec
-----------------------------------------------------------------------------
(* Keys move only by the hand of the operation they belong to. *)

(* An exchange changes no key. *)
LEMMA ExchKeepsContents ==
  ASSUME Cap \in Nat, ArraysSound, ~strayed,
         NEW a \in 0 .. Used - 1, NEW b \in 0 .. Used - 1, Exch(a, b), UNCHANGED <<keys, ret>>
  PROVE  UNCHANGED Held!ivars
BY ExchStep DEF Contents, Held!ivars

LEMMA LoopsKeepContents ==
  ASSUME Cap \in Nat, ArraysSound, ~strayed',
         SwimStep \/ SwimReturn \/ SwimThenSink \/ SinkStep \/ RekeyEnd
  PROVE  UNCHANGED Held!ivars
<1>1. CASE SwimStep
  BY <1>1, SwimExchanges, ExchKeepsContents DEF SwimStep
<1>2. CASE SinkStep
  <2>1. ~strayed /\ UNCHANGED <<keys, ret>>
    BY <1>2 DEF SinkStep
  <2>2. k \in 0 .. Used - 1 /\ SinkChild \in 0 .. Used - 1 /\ Exch(k, SinkChild)
    BY <1>2, <2>1, SinkExchanges, SoundTypes
  <2> QED
    BY <2>1, <2>2, ExchKeepsContents
<1>3. CASE SwimReturn \/ SwimThenSink \/ RekeyEnd
  BY <1>3 DEF SwimReturn, SwimThenSink, RekeyEnd, Contents, Held!ivars
<1> QED
  BY <1>1, <1>2, <1>3

LEMMA DeleteKeepsContents ==
  ASSUME Cap \in Nat, ArraysSound, Delete PROVE UNCHANGED Held!ivars
<1>1. ~strayed /\ op = "none" /\ size > 0 /\ Exch(0, size - 1) /\ UNCHANGED <<keys, ret>>
  BY DEF Delete, Begin, ArraysSound
<1>2. 0 \in 0 .. Used - 1 /\ size - 1 \in 0 .. Used - 1
  BY <1>1, SoundTypes
<1> QED
  BY <1>1, <1>2, ExchKeepsContents

(* The index behind the heap leaves with its key, and no other does. *)
LEMMA EndsForget ==
  ASSUME Cap \in Nat, Absent \notin Keys, ArraysSound, ~strayed', RemoveEnd \/ DeleteEnd
  PROVE  (DeleteEnd => Held!Delete(i)) /\ (RemoveEnd => Held!Remove(i))
<1>1. /\ ~strayed /\ op \in {"remove", "delete"}
      /\ keys' = [keys EXCEPT ![i] = Zero] /\ qp' = [qp EXCEPT ![i] = Absent]
  BY DEF RemoveEnd, DeleteEnd
<1>2. /\ i \in Index /\ qp[i] # Absent /\ qp \in [Index -> Index \cup {Absent}]
      /\ keys \in [Index -> Keys \cup {Zero}]
  <2>1. size \in 0 .. Used - 1 /\ size # Absent
    BY <1>1, SoundTypes DEF Absent
  <2>2. pq[size] = i /\ pq[size] \in Index /\ qp[pq[size]] = size
    BY <1>1, <2>1, SoundTypes DEF Control, Matches
  <2> QED
    BY <1>1, <2>1, <2>2, SoundTypes DEF Arrays
<1>3. Contents[i] # Absent
  BY <1>2 DEF Contents, Absent, Zero
<1>4. Contents' = [Contents EXCEPT ![i] = Absent]
  BY <1>1, <1>2 DEF Contents
<1> QED
  BY <1>3, <1>4 DEF Held!Delete, Held!Remove, DeleteEnd, RemoveEnd

LEMMA InsertStores ==
  ASSUME Cap \in Nat, ArraysSound, NEW x \in Index, NEW key \in Keys, Insert(x, key)
  PROVE  Held!Insert(x, key)
<1>1. /\ ~strayed /\ qp[x] = Absent /\ ret' = ret
      /\ keys' = [keys EXCEPT ![x] = key] /\ qp' = [qp EXCEPT ![x] = size]
  BY DEF Insert, Begin, Contains
<1>2. /\ qp \in [Index -> Index \cup {Absent}] /\ keys \in [Index -> Keys \cup {Zero}]
      /\ size # Absent
  BY <1>1, SoundTypes DEF Arrays, Absent
<1>3. Contents' = [Contents EXCEPT ![x] = key]
  BY <1>1, <1>2 DEF Contents
<1> QED
  BY <1>1, <1>3 DEF Held!Insert, Contents

LEMMA RekeyStores ==
  ASSUME Cap \in Nat, Absent \notin Keys, ArraysSound, NEW x \in Index, NEW key \in Keys,
         Change(x, key) \/ Decrkey(x, key) \/ Incrkey(x, key)
  PROVE  Held!Change(x, key)
<1>1. /\ ~strayed /\ qp[x] # Absent /\ ret' = ret
      /\ keys' = [keys EXCEPT ![x] = key] /\ qp' = qp
  BY DEF Change, Decrkey, Incrkey, Rekey, Begin, Contains
<1>2. keys \in [Index -> Keys \cup {Zero}]
  BY <1>1, SoundTypes
<1>3. Contents' = [Contents EXCEPT ![x] = key]
  BY <1>1, <1>2 DEF Contents
<1>4. Contents[x] # Absent
  BY <1>1, <1>2 DEF Contents, Absent, Zero
<1> QED
  BY <1>1, <1>3, <1>4 DEF Held!Change

LEMMA StepKeepsKeys ==
  ASSUME Cap \in Nat, Absent \notin Keys, ArraysSound PROVE KeysStep
<1> SUFFICES ASSUME ~strayed' PROVE KeysStep
  BY DEF KeysStep
<1>1. Clear => Held!Clear
  BY DEF Clear, Held!Clear, Contents
<1>2. (DeleteEnd => Held!Delete(i)) /\ (RemoveEnd => Held!Remove(i))
  BY EndsForget
<1>3. Delete => UNCHANGED Held!ivars
  BY DeleteKeepsContents
<1>4. SwimStep \/ SwimReturn \/ SwimThenSink \/ SinkStep \/ RekeyEnd => UNCHANGED Held!ivars
  BY LoopsKeepContents
<1>5. ASSUME NEW x \in Index, NEW key \in Keys
      PROVE  /\ Insert(x, key) => Held!Insert(x, key)
             /\ Change(x, key) => Held!Change(x, key)
             /\ Decrkey(x, key) => Held!Change(x, key)
             /\ Incrkey(x, key) => Held!Change(x, key)
  BY InsertStores, RekeyStores
<1> QED
  BY <1>1, <1>2, <1>3, <1>4, <1>5 DEF KeysStep

(* include/indexpqueue.h, for every capacity and every set of keys: until
   ipqueue_remove has strayed, insert, change, decrkey and incrkey give the
   key to their own index, delete and remove take away the key of the index
   they say, and no turn of swim or sink disturbs any key. *)
THEOREM QueueKeepsKeys ==
  ASSUME Cap \in Nat, Absent \notin Keys PROVE Spec => KeepsKeys
<1>1. Init => ArraysSound
  BY InitSound
<1>2. ArraysSound /\ [Next]_vars => ArraysSound'
  BY NextSound
<1>3. Init => Held!Init
  BY DEF Init, Held!Init, Contents
<1>4. ArraysSound => KeysStep
  BY StepKeepsKeys
<1> QED
  BY <1>1, <1>2, <1>3, <1>4, PTL DEF Spec, KeepsKeys
-----------------------------------------------------------------------------
(* The types, of a queue that has strayed too. *)

(* A strayed remove still works on indices, up to the position behind the
   heap; afterwards the queue can only be cleared. *)
Astray ==
    strayed /\ pc # "idle" =>
        /\ op = "remove"
        /\ size < Cap
        /\ k \in 0 .. size /\ at \in 0 .. size
        /\ \A s \in 0 .. size : pq[s] \in Index

QueueInv == ArraysSound /\ TypeOK /\ Astray

LEMMA BeginTypes ==
  ASSUME Cap \in Nat \ {0}, QueueInv, ArraysSound',
         Delete \/ \E x \in Index : Remove(x) \/ \E key \in Keys :
             Insert(x, key) \/ Change(x, key) \/ Decrkey(x, key) \/ Incrkey(x, key)
  PROVE  TypeOK' /\ Astray'
<1>1. /\ ~strayed /\ strayed' = strayed /\ op = "none" /\ pc = "idle"
      /\ op' \in Ops \ {"none"} /\ pc' \in {"swim", "sink"}
      /\ capacity' = capacity /\ ret' = ret
      /\ Delete => i' = pq[0] /\ size > 0
      /\ Delete \/ i' \in Index
      /\ at' = at \/ (at' = qp[i'] /\ qp[i'] # Absent)
  BY DEF Delete, Remove, Insert, Change, Decrkey, Incrkey, Rekey, Begin, Contains, Ops,
         QueueInv, ArraysSound
<1>2. size \in Nat /\ Used = size /\ Matches(pq, qp, size) /\ size <= Cap
  BY <1>1, SoundTypes DEF QueueInv
<1>3. i' \in Index BY <1>1, <1>2 DEF Matches
<1>4. at' \in Index BY <1>1, <1>2, <1>3 DEF Matches, Index, QueueInv, TypeOK
<1>5. size' \in Nat /\ Used' <= Cap /\ Control' /\ Used' = size' + (Used' - size')
      /\ pq' \in Arrays /\ qp' \in Arrays /\ keys' \in [Index -> Keys \cup {Zero}]
      /\ (Used' = size' \/ Used' = size' + 1)
  BY <1>1 DEF ArraysSound, Used, Arrays
<1>6. k' \in Index /\ size' \in 0 .. Cap BY <1>1, <1>5 DEF Control, Index
<1>7. Astray' BY <1>1 DEF Astray
<1>8. TypeOK' BY <1>1, <1>3, <1>4, <1>5, <1>6 DEF QueueInv, TypeOK, Arrays
<1> QED BY <1>7, <1>8

(* Every turn of swim and sink stays among the positions that hold indices. *)
LEMMA TurnTypes ==
  ASSUME Cap \in Nat \ {0}, QueueInv, ArraysSound', SwimStep \/ SinkStep
  PROVE  TypeOK' /\ Astray'
<1> DEFINE n == IF strayed THEN size + 1 ELSE Used
<1>1. PICK a, b :
      /\ pc \in {"swim", "sink"} /\ Exch(a, b) /\ k' \in {a, b}
      /\ UNCHANGED <<keys, size, capacity, op, pc, i, at, ret>>
      /\ strayed' \in BOOLEAN /\ (strayed' => strayed \/ op = "remove")
      /\ \/ a = k \div 2 /\ b = k
         \/ a = k /\ b = SinkChild /\ 2 * k + 1 < size
  <2>1. CASE SwimStep
    <3>1. /\ pc = "swim" /\ Exch(k \div 2, k) /\ k' = k \div 2
          /\ UNCHANGED <<keys, size, capacity, op, pc, i, at, ret>>
          /\ strayed' \in BOOLEAN /\ (strayed' => strayed \/ op = "remove")
      BY <2>1 DEF SwimStep, SwimParent
    <3> QED BY <3>1
  <2>2. CASE SinkStep
    <3>1. /\ pc = "sink" /\ Exch(k, SinkChild) /\ k' = SinkChild /\ 2 * k + 1 < size
          /\ UNCHANGED <<keys, size, capacity, op, pc, i, at, ret, strayed>>
      BY <2>2 DEF SinkStep, SinkGoesOn
    <3> QED BY <3>1 DEF QueueInv, TypeOK
  <2> QED BY <2>1, <2>2
<1>2. /\ n \in Nat /\ n <= Cap /\ size \in Nat /\ size <= n /\ k \in 0 .. n - 1
      /\ \A s \in 0 .. n - 1 : pq[s] \in Index
      /\ op = "remove" => n = size + 1 /\ at \in 0 .. size
      /\ strayed => op = "remove"
  <2>1. CASE strayed BY <2>1, <1>1 DEF QueueInv, TypeOK, Astray
  <2>2. CASE ~strayed BY <2>2, <1>1, SoundTypes DEF QueueInv, Control, Matches, Used
  <2> QED BY <2>1, <2>2
<1>3. a \in 0 .. n - 1 /\ b \in 0 .. n - 1 BY <1>1, <1>2 DEF SinkChild
<1> HIDE DEF n
<1>4. 0 .. n - 1 \subseteq Index BY <1>2 DEF Index
<1>5. /\ pq' \in [Index -> Index \cup {Absent}] /\ qp' \in [Index -> Index \cup {Absent}]
      /\ \A s \in 0 .. n - 1 : pq'[s] \in Index
  BY <1>1, <1>2, <1>3, <1>4 DEF Exch, QueueInv, TypeOK
<1>6. TypeOK' BY <1>1, <1>3, <1>4, <1>5 DEF QueueInv, TypeOK
<1>7. Astray'
  <2> SUFFICES ASSUME strayed' PROVE /\ op' = "remove" /\ size' < Cap /\ k' \in 0 .. size'
                                     /\ at' \in 0 .. size'
                                     /\ \A s \in 0 .. size' : pq'[s] \in Index
    BY DEF Astray
  <2>1. op = "remove" /\ n = size + 1 /\ at \in 0 .. size BY <1>1, <1>2
  <2>2. 0 .. n - 1 = 0 .. size BY <1>2, <2>1
  <2> QED BY <1>1, <1>2, <1>3, <1>5, <2>1, <2>2
<1> QED BY <1>6, <1>7

LEMMA EndTypes ==
  ASSUME Cap \in Nat \ {0}, QueueInv, ArraysSound',
         SwimReturn \/ SwimThenSink \/ RekeyEnd \/ RemoveEnd \/ DeleteEnd
  PROVE  TypeOK' /\ Astray'
<1>1. 0 \in Index /\ Zero \in Keys \cup {Zero} BY DEF Index
<1>2. CASE SwimThenSink
  <2>1. /\ UNCHANGED <<pq, qp, keys, size, capacity, op, i, at, ret, strayed>>
        /\ pc = "swim" /\ pc' = "sink" /\ op \in {"remove", "change"}
        /\ k' = IF op = "remove" THEN at ELSE qp[i]
    BY <1>2 DEF SwimThenSink
  <2>2. k' \in Index
    <3>1. CASE op = "remove" BY <3>1, <2>1 DEF QueueInv, TypeOK
    <3>2. CASE op = "change"
      <4>1. ~strayed BY <3>2, <2>1 DEF QueueInv, Astray
      <4> QED BY <4>1, <3>2, <2>1, SoundTypes DEF QueueInv, TypeOK, Control
    <3> QED BY <3>1, <3>2, <2>1
  <2>3. TypeOK' BY <2>1, <2>2 DEF QueueInv, TypeOK
  <2>4. Astray' BY <2>1 DEF QueueInv, Astray
  <2> QED BY <2>3, <2>4
<1>3. CASE SwimReturn \/ RekeyEnd
  <2>1. /\ UNCHANGED <<pq, qp, keys, capacity, ret, strayed>> /\ pc # "idle"
        /\ op # "remove" /\ pc' = "idle" /\ op' = "none" /\ i' = 0 /\ at' = 0 /\ k' = 0
        /\ size' = IF op = "insert" THEN size + 1 ELSE size
    BY <1>3 DEF SwimReturn, RekeyEnd, End
  <2>2. size' \in 0 .. Cap
    <3>1. ~strayed BY <2>1 DEF QueueInv, Astray
    <3> QED BY <3>1, <2>1, SoundTypes DEF QueueInv
  <2> QED BY <1>1, <2>1, <2>2 DEF QueueInv, TypeOK, Astray, Ops
<1>4. CASE RemoveEnd \/ DeleteEnd
  <2>1. /\ UNCHANGED <<size, capacity, strayed>> /\ pc' = "idle" /\ op' = "none"
        /\ i' = 0 /\ at' = 0 /\ k' = 0
        /\ keys' = [keys EXCEPT ![i] = Zero] /\ qp' = [qp EXCEPT ![i] = Absent]
        /\ pq' = pq \/ pq' = [pq EXCEPT ![size] = Absent]
        /\ ret' = ret \/ ret' = i
    BY <1>4 DEF RemoveEnd, DeleteEnd, End
  <2> QED BY <1>1, <2>1 DEF QueueInv, TypeOK, Astray, Ops
<1> QED BY <1>2, <1>3, <1>4

LEMMA QueueStays ==
  ASSUME Cap \in Nat \ {0}, QueueInv, [Next]_vars PROVE QueueInv'
<1>1. ArraysSound' BY NextSound DEF QueueInv
<1>2. CASE UNCHANGED vars
  BY <1>1, <1>2 DEF QueueInv, TypeOK, Astray, vars
<1>3. CASE Clear
  <2>1. /\ UNCHANGED <<op, pc, i, at, k, ret>> /\ size' = 0 /\ capacity' = 0 /\ strayed' = FALSE
        /\ pq' = [s \in Index |-> 0] /\ qp' = [x \in Index |-> Absent]
        /\ keys' = [x \in Index |-> Zero]
    BY <1>3 DEF Clear
  <2>2. 0 \in Index BY DEF Index
  <2>3. /\ pq' \in [Index -> Index \cup {Absent}] /\ qp' \in [Index -> Index \cup {Absent}]
        /\ keys' \in [Index -> Keys \cup {Zero}] /\ size' \in 0 .. Cap /\ capacity' \in {0, Cap}
    BY <2>1, <2>2
  <2>4. strayed' \in BOOLEAN BY <2>1
  <2>5. TypeOK' BY <2>1, <2>3, <2>4, Zenon DEF QueueInv, TypeOK
  <2> QED BY <1>1, <2>1, <2>5 DEF QueueInv, Astray
<1>4. CASE Reinit
  BY <1>1, <1>4 DEF Reinit, QueueInv, TypeOK, Astray
<1>5. CASE Loops
  BY <1>1, <1>5, TurnTypes, EndTypes DEF Loops, QueueInv
<1> QED BY <1>1, <1>2, <1>3, <1>4, <1>5, BeginTypes DEF Next, QueueInv

LEMMA QueueStarts == ASSUME Cap \in Nat \ {0}, Init PROVE QueueInv
<1>1. 0 \in Index BY DEF Index
<1>2. ArraysSound BY InitSound
<1>3. /\ pq \in [Index -> Index \cup {Absent}] /\ qp \in [Index -> Index \cup {Absent}]
      /\ keys \in [Index -> Keys \cup {Zero}] /\ size \in 0 .. Cap /\ capacity \in {0, Cap}
      /\ op \in Ops /\ i \in Index /\ at \in Index /\ k \in Index /\ ret \in Index \cup {Absent}
  BY <1>1 DEF Init, Ops
<1>4. strayed \in BOOLEAN /\ pc \in {"idle", "swim", "sink"} BY DEF Init
<1>5. TypeOK BY <1>3, <1>4 DEF TypeOK
<1>6. Astray BY DEF Init, Astray
<1> QED BY <1>2, <1>5, <1>6 DEF QueueInv

(* No swim or sink leaves the arrays, for every capacity of at least one and
   every set of keys, not even of a queue whose remove has strayed. *)
THEOREM QueueTypes == ASSUME Cap \in Nat \ {0} PROVE Spec => []TypeOK
<1>1. Init => QueueInv BY QueueStarts
<1>2. QueueInv /\ [Next]_vars => QueueInv' BY QueueStays
<1>3. QueueInv => TypeOK BY DEF QueueInv
<1> QED BY <1>1, <1>2, <1>3, PTL DEF Spec
=============================================================================
