------------------------------ MODULE QuickFind ------------------------------
(***************************************************************************)
(* quickfinduf.c: id[x] is the canonical element of x's set at once, and   *)
(* union relabels the whole array, one index per step.                     *)
(***************************************************************************)
EXTENDS Integers, FiniteSetTheorems, TLAPS

CONSTANT N

VARIABLES id,           \* uf->id
          count,        \* uf->count
          call,         \* the call in progress, its operation and arguments
          pc,           \* where the call stands
          i,            \* the index of the relabelling loop
          pid, qid,     \* the labels union read before the loop
          ret           \* the value the last call returned

vars == <<id, count, call, pc, i, pid, qid, ret>>

Elems   == 0 .. N - 1
Indices == -1 .. N
Void    == -1
PCs     == {"idle", "validate", "relabel", "exit"}

Ops    == {"find", "connected", "union"}
Calls  == {c \in [op : Ops, p : Indices, q : Indices] : c.op = "find" => c.q = c.p}
NoCall == [op |-> "none", p |-> 0, q |-> 0]
Exited == [op |-> "exit", p |-> 0, q |-> 0]

Valid(c) == {c.p, c.q} \subseteq Elems
-----------------------------------------------------------------------------
Init ==
    /\ id = [x \in Elems |-> x]
    /\ count = N
    /\ call = NoCall
    /\ pc = "idle"
    /\ i = 0
    /\ pid = 0
    /\ qid = 0
    /\ ret = Void

Invoke ==
    /\ pc = "idle"
    /\ call' \in Calls
    /\ pc' = "validate"
    /\ UNCHANGED <<id, count, i, pid, qid, ret>>

Reject ==
    /\ pc = "validate"
    /\ ~Valid(call)
    /\ pc' = "exit"
    /\ call' = Exited
    /\ UNCHANGED <<id, count, i, pid, qid, ret>>

Return(value) ==
    /\ pc' = "idle"
    /\ call' = NoCall
    /\ i' = 0
    /\ pid' = 0
    /\ qid' = 0
    /\ ret' = value

Called(op) == pc = "validate" /\ Valid(call) /\ call.op = op

Find ==
    /\ Called("find")
    /\ Return(id[call.p])
    /\ UNCHANGED <<id, count>>

Connected ==
    /\ Called("connected")
    /\ Return(IF id[call.p] = id[call.q] THEN 1 ELSE 0)
    /\ UNCHANGED <<id, count>>

UnionSame ==
    /\ Called("union")
    /\ id[call.p] = id[call.q]
    /\ Return(Void)
    /\ UNCHANGED <<id, count>>

UnionBegin ==
    /\ Called("union")
    /\ id[call.p] # id[call.q]
    /\ pid' = id[call.p]
    /\ qid' = id[call.q]
    /\ i' = 0
    /\ pc' = "relabel"
    /\ UNCHANGED <<id, count, call, ret>>

(* Mutant: the loop compares with id[p], which it overwrites on its way. *)
RelabelReread ==
    /\ pc = "relabel"
    /\ i < N
    /\ id' = IF id[i] = id[call.p] THEN [id EXCEPT ![i] = qid] ELSE id
    /\ i' = i + 1
    /\ UNCHANGED <<count, call, pc, pid, qid, ret>>

Relabel ==
    /\ pc = "relabel"
    /\ i < N
    /\ id' = IF id[i] = pid THEN [id EXCEPT ![i] = qid] ELSE id
    /\ i' = i + 1
    /\ UNCHANGED <<count, call, pc, pid, qid, ret>>

UnionEnd ==
    /\ pc = "relabel"
    /\ i = N
    /\ count' = count - 1
    /\ Return(Void)
    /\ UNCHANGED id

Stopped == pc = "exit" /\ UNCHANGED vars

Work ==
    \/ Reject \/ Find \/ Connected \/ UnionSame \/ UnionBegin \/ Relabel
    \/ UnionEnd

Next == Invoke \/ Work \/ Stopped

Spec == Init /\ [][Next]_vars
-----------------------------------------------------------------------------
TypeOK ==
    /\ id \in [Elems -> Elems]
    /\ count \in 0 .. N
    /\ call \in Calls \cup {NoCall, Exited}
    /\ pc \in PCs
    /\ i \in 0 .. N
    /\ pid \in Elems \cup {0}
    /\ qid \in Elems \cup {0}
    /\ ret \in Elems \cup {Void, 0, 1}

(* While the loop runs the array is half relabelled.  The two sets are one
   from the start of the loop for the caller, who sees nothing until union
   returns: an element still labelled pid is in the set of qid already. *)
Relabelling == pc = "relabel"
Canon    == [x \in Elems |-> IF Relabelling /\ id[x] = pid THEN qid ELSE id[x]]
Sets     == IF Relabelling THEN count - 1 ELSE count
Pending  == IF Relabelling THEN NoCall ELSE call
Answered == IF Relabelling THEN Void ELSE ret
P == INSTANCE Partition WITH
    canon <- Canon, count <- Sets, call <- Pending, ret <- Answered

(* Behind the loop no element is labelled pid any more; the label it writes is
   another one, so that nothing is relabelled twice. *)
Inv ==
    /\ id \in [Elems -> Elems]
    /\ pc \in PCs
    /\ pc = "idle" => call = NoCall
    /\ pc = "exit" => call = Exited
    /\ pc \in {"validate", "relabel"} => call \in Calls
    /\ pc = "relabel" =>
        /\ i \in 0 .. N
        /\ qid \in Elems
        /\ pid # qid
        /\ \A x \in 0 .. i - 1 : id[x] # pid
-----------------------------------------------------------------------------
LEMMA InitInv == Init => Inv
BY DEF Init, Inv, PCs, Elems

LEMMA NextInv == ASSUME N \in Nat, Inv, [Next]_vars PROVE Inv'
<1>1. CASE UNCHANGED vars
  BY <1>1 DEF vars, Inv
<1>2. CASE Invoke \/ Reject
  BY <1>2 DEF Invoke, Reject, Inv, PCs
<1>3. CASE Find \/ Connected \/ UnionSame
  BY <1>3 DEF Find, Connected, UnionSame, Return, Inv, PCs
<1>4. CASE UnionBegin
  <2>1. call.p \in Elems /\ call.q \in Elems
    BY <1>4 DEF UnionBegin, Called, Valid
  <2> QED
    BY <1>4, <2>1 DEF UnionBegin, Called, Inv, PCs
<1>5. CASE Relabel
  <2>1. i \in Elems /\ i' = i + 1 /\ id' \in [Elems -> Elems]
    BY <1>5 DEF Relabel, Inv, Elems
  <2>2. \A x \in 0 .. i : id'[x] # pid
    <3>1. \A x \in 0 .. i - 1 : x \in Elems /\ x # i /\ id[x] # pid
      BY <1>5, <2>1 DEF Relabel, Inv, Elems
    <3>2. qid # pid /\ id \in [Elems -> Elems]
      BY <1>5 DEF Relabel, Inv
    <3>3. id'[i] # pid
      BY <1>5, <2>1, <3>2 DEF Relabel
    <3>4. \A x \in 0 .. i - 1 : id'[x] = id[x]
      BY <1>5, <3>1, <3>2 DEF Relabel
    <3>5. \A x \in 0 .. i : x = i \/ x \in 0 .. i - 1
      BY <2>1 DEF Elems
    <3> QED BY <3>1, <3>3, <3>4, <3>5
  <2> QED
    BY <1>5, <2>1, <2>2 DEF Relabel, Inv, PCs, Elems
<1>6. CASE UnionEnd
  BY <1>6 DEF UnionEnd, Return, Inv, PCs
<1>7. CASE Stopped
  BY <1>1, <1>7 DEF Stopped
<1> QED
  BY <1>1, <1>2, <1>3, <1>4, <1>5, <1>6, <1>7 DEF Next, Work

LEMMA InitRefines == Init => P!Init
BY DEF Init, P!Init, Canon, Sets, Pending, Answered, Relabelling, Elems, P!Elems,
       NoCall, P!NoCall, Void, P!Void

(* The names of the abstract partition mean here what they mean there. *)
LEMMA SameNames ==
  /\ P!Calls = Calls /\ P!NoCall = NoCall /\ P!Exited = Exited
  /\ P!Void = Void /\ P!Elems = Elems
  /\ \A c : P!Valid(c) <=> Valid(c)
BY DEF Calls, P!Calls, Ops, P!Ops, Indices, P!Indices, NoCall, P!NoCall,
       Exited, P!Exited, Void, P!Void, Elems, P!Elems, Valid, P!Valid

(* The sets are merged for the caller when the loop begins; its turns and the
   return change nothing the caller can see. *)
LEMMA StepRefines == ASSUME N \in Nat, Inv, [Next]_vars PROVE [P!Next]_P!pvars
<1> USE SameNames DEF Relabelling
<1>1. CASE UNCHANGED vars
  BY <1>1 DEF vars, P!pvars, Canon, Sets, Pending, Answered
<1>2. CASE Invoke
  BY <1>2 DEF Invoke, Inv, P!Invoke, P!Next, Canon, Sets, Pending, Answered
<1>3. CASE Reject
  BY <1>3 DEF Reject, Inv, P!Exit, P!Next, Canon, Sets, Pending, Answered
<1>4. ASSUME pc = "validate" PROVE Canon = id /\ Sets = count /\ Pending = call /\ call \in Calls
  BY <1>4 DEF Inv, Canon, Sets, Pending
<1>5. ASSUME pc = "validate", pc' = "idle", id' = id, count' = count
      PROVE  Canon' = Canon /\ Sets' = Sets /\ Pending' = call' /\ Answered' = ret'
  BY <1>5 DEF Canon, Sets, Pending, Answered
<1>6. CASE Find
  BY <1>4, <1>5, <1>6 DEF Find, Called, Return, P!Find, P!Answer, P!Next
<1>7. CASE Connected
  BY <1>4, <1>5, <1>7 DEF Connected, Called, Return, P!Connected, P!Answer, P!Next
<1>8. CASE UnionSame
  BY <1>4, <1>5, <1>8 DEF UnionSame, Called, Return, P!UnionSame, P!Answer, P!Next
<1>9. CASE UnionBegin
  <2>1. /\ pc = "validate" /\ pc' = "relabel" /\ call.op = "union" /\ Valid(call)
        /\ id[call.p] # id[call.q] /\ pid' = id[call.p] /\ qid' = id[call.q]
        /\ id' = id /\ count' = count
    BY <1>9 DEF UnionBegin, Called
  <2>2. P!Answer("union", Void)
    BY <1>4, <2>1 DEF P!Answer, Pending, Answered
  <2>3. Canon' = P!Merged(Canon, Canon[call.p], Canon[call.q], Canon[call.q])
    BY <1>4, <2>1 DEF Canon, P!Merged
  <2>4. Sets' = Sets - 1
    BY <1>4, <2>1 DEF Sets
  <2> QED
    BY <1>4, <2>1, <2>2, <2>3, <2>4 DEF P!UnionMerge, P!Next
<1>10. CASE Relabel
  <2>1. i \in Elems
    BY <1>10 DEF Relabel, Inv, Elems
  <2>2. Canon' = Canon
    BY <1>10, <2>1 DEF Relabel, Inv, Canon
  <2> QED
    BY <1>10, <2>2 DEF Relabel, P!pvars, Sets, Pending, Answered
<1>11. CASE UnionEnd
  <2>1. \A x \in Elems : id[x] # pid
    BY <1>11 DEF UnionEnd, Inv, Elems
  <2>2. Canon' = Canon
    BY <1>11, <2>1 DEF UnionEnd, Return, Canon
  <2> QED
    BY <1>11, <2>2 DEF UnionEnd, Return, P!pvars, Sets, Pending, Answered
<1>12. CASE Stopped
  BY <1>1, <1>12 DEF Stopped
<1> QED
  BY <1>1, <1>2, <1>3, <1>6, <1>7, <1>8, <1>9, <1>10, <1>11, <1>12 DEF Next, Work

(* quickfinduf.c implements the partition of its header for every number of
   elements, although union relabels its array one index at a time. *)
THEOREM QuickFindImplementsPartition == ASSUME N \in Nat PROVE Spec => P!Spec
<1>1. Init => P!Init
  BY InitRefines
<1>2. Init => Inv
  BY InitInv
<1>3. Inv /\ [Next]_vars => Inv'
  BY NextInv
<1>4. Inv /\ [Next]_vars => [P!Next]_P!pvars
  BY StepRefines
<1> QED
  BY <1>1, <1>2, <1>3, <1>4, PTL DEF Spec, P!Spec
-----------------------------------------------------------------------------
(* The elements that are their own canonical elements; there are as many of
   them as sets. *)
Reps == {x \in Elems : Canon[x] = x}
Counted ==
    /\ \A x \in Elems : Canon[x] \in Elems /\ Canon[Canon[x]] = Canon[x]
    /\ Sets = Cardinality(Reps)

LEMMA RepsFinite ==
  ASSUME N \in Nat
  PROVE  /\ IsFiniteSet(Elems) /\ Cardinality(Elems) = N
         /\ IsFiniteSet(Reps) /\ Cardinality(Reps) \in 0 .. N
<1>1. /\ IsFiniteSet(0 .. N - 1)
      /\ Cardinality(0 .. N - 1) = IF 0 > N - 1 THEN 0 ELSE (N - 1) - 0 + 1
  BY FS_Interval
<1>2. IsFiniteSet(Elems) /\ Cardinality(Elems) = N BY <1>1 DEF Elems
<1>3. IsFiniteSet(Reps) /\ Cardinality(Reps) <= Cardinality(Elems) BY <1>2, FS_Subset DEF Reps
<1>4. Cardinality(Reps) \in Nat BY <1>3, FS_CardinalityType
<1> QED BY <1>2, <1>3, <1>4

LEMMA InitCounted == ASSUME N \in Nat, Init PROVE Counted
<1>1. Canon = [x \in Elems |-> x] /\ Sets = N BY DEF Init, Canon, Sets, Relabelling
<1>2. Reps = Elems BY <1>1 DEF Reps
<1> QED BY <1>1, <1>2, RepsFinite DEF Counted

(* Two sets become one, and one canonical element less. *)
LEMMA MergeCounted ==
  ASSUME N \in Nat, Counted, NEW r \in Elems, NEW s \in Elems, r # s,
         Canon[r] = r, Canon[s] = s, NEW k \in {r, s},
         Canon' = P!Merged(Canon, r, s, k), Sets' = Sets - 1
  PROVE  Counted'
<1>1. \A x \in Elems : Canon'[x] = IF Canon[x] \in {r, s} THEN k ELSE Canon[x]
  BY SameNames DEF P!Merged
<1>2. \A x \in Elems : Canon'[x] \in Elems /\ Canon'[Canon'[x]] = Canon'[x]
  BY <1>1 DEF Counted
<1>3. PICK gone \in {r, s} : gone # k OBVIOUS
<1>4. Reps' = Reps \ {gone} /\ gone \in Reps
  <2>1. ASSUME NEW x \in Elems PROVE Canon'[x] = x <=> Canon[x] = x /\ x # gone
    BY <1>1, <1>3 DEF Counted
  <2> QED BY <1>3, <2>1 DEF Reps
<1>5. Cardinality(Reps') = Cardinality(Reps) - 1 BY <1>4, RepsFinite, FS_RemoveElement
<1> QED BY <1>2, <1>5 DEF Counted

LEMMA StepCounted == ASSUME N \in Nat, Inv, Counted, [Next]_vars PROVE Counted'
<1>1. CASE Canon' = Canon /\ Sets' = Sets
  BY <1>1 DEF Counted, Reps
<1>2. CASE P!UnionMerge
  <2>1. /\ Pending \in Calls /\ Valid(Pending) /\ Sets' = Sets - 1
        /\ Canon[Pending.p] # Canon[Pending.q]
        /\ \E k \in {Canon[Pending.p], Canon[Pending.q]} :
               Canon' = P!Merged(Canon, Canon[Pending.p], Canon[Pending.q], k)
    BY <1>2, SameNames DEF P!UnionMerge, P!Answer
  <2>2. Pending.p \in Elems /\ Pending.q \in Elems BY <2>1 DEF Valid
  <2> DEFINE r == Canon[Pending.p]
             s == Canon[Pending.q]
  <2>3. r \in Elems /\ s \in Elems /\ r # s /\ Canon[r] = r /\ Canon[s] = s
    BY <2>1, <2>2 DEF Counted
  <2>4. PICK k \in {r, s} : Canon' = P!Merged(Canon, r, s, k) BY <2>1
  <2> HIDE DEF r, s
  <2> QED BY <2>1, <2>3, <2>4, MergeCounted
<1>3. [P!Next]_P!pvars BY StepRefines
<1> QED
  BY <1>1, <1>2, <1>3
  DEF P!Next, P!pvars, P!Invoke, P!Exit, P!Find, P!Connected, P!UnionSame

(* The types of the locals, and the counting with them. *)
Kept ==
    /\ Inv
    /\ Counted
    /\ count \in Int
    /\ i \in 0 .. N
    /\ pid \in Elems \cup {0}
    /\ qid \in Elems \cup {0}
    /\ ret \in Elems \cup {Void, 0, 1}

LEMMA CountTyped == ASSUME N \in Nat, Kept PROVE count \in 0 .. N
<1> USE DEF Kept
<1>1. Sets \in 0 .. N BY RepsFinite DEF Counted
<1>2. CASE ~Relabelling
  <2>1. Sets = count BY <1>2 DEF Sets
  <2> QED BY <1>1, <2>1
<1>3. CASE Relabelling
  <2>1. /\ pid # qid /\ qid \in Elems /\ pid \in Elems
        /\ \A x \in Elems : Canon[x] = IF id[x] = pid THEN qid ELSE id[x]
    BY <1>3 DEF Inv, Relabelling, Elems, Canon
  <2>2. pid \notin Reps /\ Reps \subseteq Elems \ {pid} BY <2>1 DEF Reps
  <2>3. IsFiniteSet(Elems \ {pid}) /\ Cardinality(Elems \ {pid}) = N - 1
    BY <2>1, RepsFinite, FS_RemoveElement
  <2>4. Cardinality(Reps) <= N - 1 BY <2>2, <2>3, FS_Subset
  <2>5. Sets = Cardinality(Reps) /\ Sets = count - 1 BY <1>3 DEF Counted, Sets
  <2> QED BY <1>1, <2>4, <2>5
<1> QED BY <1>2, <1>3

LEMMA StepTyped ==
  ASSUME N \in Nat, Kept, [Next]_vars
  PROVE  Kept'
<1>1. Inv' /\ Counted' BY NextInv, StepCounted DEF Kept
<1>3. ASSUME Called("find") \/ Called("connected") \/ Called("union")
      PROVE  id[call.p] \in Elems /\ id[call.q] \in Elems
  BY <1>3 DEF Called, Valid, Kept, Inv
<1>4. i' \in 0 .. N
  BY DEF Next, Work, vars, Invoke, Reject, Find, Connected, UnionSame, UnionBegin, Relabel,
         UnionEnd, Stopped, Return, Kept
<1>5. pid' \in Elems \cup {0} /\ qid' \in Elems \cup {0}
  BY <1>3 DEF Next, Work, vars, Invoke, Reject, Find, Connected, UnionSame, UnionBegin, Relabel,
         UnionEnd, Stopped, Return, Kept
<1>6. ret' \in Elems \cup {Void, 0, 1}
  BY <1>3 DEF Next, Work, vars, Invoke, Reject, Find, Connected, UnionSame, UnionBegin, Relabel,
         UnionEnd, Stopped, Return, Kept
<1>7. count' \in Int
  BY DEF Next, Work, vars, Invoke, Reject, Find, Connected, UnionSame, UnionBegin, Relabel,
         UnionEnd, Stopped, Return, Kept
<1> QED BY <1>1, <1>4, <1>5, <1>6, <1>7 DEF Kept

LEMMA KeptTypes == ASSUME N \in Nat, Kept PROVE TypeOK
<1>1. count \in 0 .. N BY CountTyped
<1>2. /\ id \in [Elems -> Elems] /\ pc \in PCs
      /\ call \in Calls \cup {NoCall, Exited}
  BY DEF Kept, Inv, PCs
<1> QED BY <1>1, <1>2 DEF Kept, TypeOK

LEMMA KeptStarts == ASSUME N \in Nat, Init PROVE Kept
<1>1. Inv /\ Counted BY InitInv, InitCounted
<1> QED BY <1>1 DEF Init, Kept

(* The variables of quickfinduf.c keep their types for every number of
   elements: the relabelling loop stays inside id, and count does not pass
   below zero, as it is the number of canonical elements. *)
THEOREM QuickFindTypes == ASSUME N \in Nat PROVE Spec => []TypeOK
<1>1. Init => Kept BY KeptStarts
<1>2. Kept /\ [Next]_vars => Kept' BY StepTyped
<1>3. Kept => TypeOK BY KeptTypes
<1> QED BY <1>1, <1>2, <1>3, PTL DEF Spec
=============================================================================
