----------------------------- MODULE UnionForest -----------------------------
(***************************************************************************)
(* The three parent-array union-find structures of graphs/unionfind/:      *)
(*   "quuf"   quickunionuf.c          link the first root under the second *)
(*   "wquuf"  weightedquickunionuf.c  link the smaller tree under the      *)
(*                                    larger; weight is uf->size           *)
(*   "uf"     unionfind.c             link the lower rank under the higher;*)
(*                                    weight is uf->rank; find skips to    *)
(*                                    the grandparent and writes nothing   *)
(* A find is a loop, so a call takes several steps: each step moves the    *)
(* cursor once.  The structures differ in `alg', which never changes.      *)
(***************************************************************************)
EXTENDS Integers, FiniteSets

CONSTANT N

ASSUME NAssumption == N \in Nat

VARIABLES alg,          \* which of the three structures this is
          parent,       \* uf->parent
          weight,       \* uf->size of "wquuf", uf->rank of "uf"
          count,        \* uf->count
          call,         \* the call in progress, its operation and arguments
          pc,           \* where the call stands
          cursor,       \* the local p of the find loop
          pid,          \* what the first find of the call returned
          ret,          \* the value the last call returned
          canon         \* history: the canonical element of each element's set

vars == <<alg, parent, weight, count, call, pc, cursor, pid, ret, canon>>

Elems   == 0 .. N - 1
Indices == -1 .. N
Void    == -1
Algs    == {"quuf", "wquuf", "uf"}
PCs     == {"idle", "validate", "find", "findq", "exit"}

Ops    == {"find", "connected", "union"}
Calls  == {c \in [op : Ops, p : Indices, q : Indices] : c.op = "find" => c.q = c.p}
NoCall == [op |-> "none", p |-> 0, q |-> 0]
Exited == [op |-> "exit", p |-> 0, q |-> 0]

Valid(c) == {c.p, c.q} \subseteq Elems
IsRoot(x) == parent[x] = x

Merged(c, r, s, k) == [x \in Elems |-> IF c[x] \in {r, s} THEN k ELSE c[x]]
-----------------------------------------------------------------------------
(* The *_init functions. *)
Init ==
    /\ alg \in Algs
    /\ parent = [x \in Elems |-> x]
    /\ weight = [x \in Elems |-> IF alg = "wquuf" THEN 1 ELSE 0]
    /\ count = N
    /\ call = NoCall
    /\ pc = "idle"
    /\ cursor = 0
    /\ pid = 0
    /\ ret = Void
    /\ canon = [x \in Elems |-> x]

Invoke ==
    /\ pc = "idle"
    /\ call' \in Calls
    /\ pc' = "validate"
    /\ UNCHANGED <<alg, parent, weight, count, cursor, pid, ret, canon>>

(* validate(): a bad index prints a message and exits the program. *)
Reject ==
    /\ pc = "validate"
    /\ ~Valid(call)
    /\ pc' = "exit"
    /\ call' = Exited
    /\ UNCHANGED <<alg, parent, weight, count, cursor, pid, ret, canon>>

BeginFind ==
    /\ pc = "validate"
    /\ Valid(call)
    /\ pc' = "find"
    /\ cursor' = call.p
    /\ UNCHANGED <<alg, parent, weight, count, call, pid, ret, canon>>

(* One turn of the loop `while (p != uf->parent[p])'. *)
Hop(x) == IF alg = "uf" THEN parent[parent[x]] ELSE parent[x]

FindStep ==
    /\ pc \in {"find", "findq"}
    /\ ~IsRoot(cursor)
    /\ cursor' = Hop(cursor)
    /\ UNCHANGED <<alg, parent, weight, count, call, pc, pid, ret, canon>>

(* The loop of find(p) ends in connected or union: find(q) starts. *)
FoundFirst ==
    /\ pc = "find"
    /\ IsRoot(cursor)
    /\ call.op # "find"
    /\ pid' = cursor
    /\ cursor' = call.q
    /\ pc' = "findq"
    /\ UNCHANGED <<alg, parent, weight, count, call, ret, canon>>

(* The call returns; its locals are gone. *)
Return(value) ==
    /\ pc' = "idle"
    /\ call' = NoCall
    /\ cursor' = 0
    /\ pid' = 0
    /\ ret' = value

FindReturn ==
    /\ pc = "find"
    /\ IsRoot(cursor)
    /\ call.op = "find"
    /\ Return(cursor)
    /\ UNCHANGED <<alg, parent, weight, count, canon>>

ConnectedReturn ==
    /\ pc = "findq"
    /\ IsRoot(cursor)
    /\ call.op = "connected"
    /\ Return(IF pid = cursor THEN 1 ELSE 0)
    /\ UNCHANGED <<alg, parent, weight, count, canon>>

(* union(p, q) of two elements of one set: `if (pid == qid) return;' *)
UnionSameReturn ==
    /\ pc = "findq"
    /\ IsRoot(cursor)
    /\ call.op = "union"
    /\ pid = cursor
    /\ Return(Void)
    /\ UNCHANGED <<alg, parent, weight, count, canon>>

(* Mutant: the larger tree goes under the smaller one. *)
FirstStaysIfSmaller(r, s) == alg # "quuf" /\ weight[r] <= weight[s]

(* Does root r stay a root when it is merged with root s?  r is the root
   of the first argument. *)
FirstStays(r, s) ==
    \/ alg = "wquuf" /\ weight[r] >= weight[s]
    \/ alg = "uf"    /\ weight[r] >= weight[s]

(* Mutant: union by size or rank with an `else' forgotten. *)
LinkedBothWays(r, s) ==
    IF FirstStays(r, s) THEN [parent EXCEPT ![s] = r]
                        ELSE [parent EXCEPT ![r] = s, ![s] = r]

(* Mutant: the argument q is linked instead of the root of its tree. *)
LinkedArgument(r, s) ==
    IF FirstStays(r, s) THEN [parent EXCEPT ![call.q] = r]
                        ELSE [parent EXCEPT ![r] = s]

(* The parent array once the trees of roots r and s are linked. *)
Linked(r, s) ==
    IF FirstStays(r, s) THEN [parent EXCEPT ![s] = r]
                        ELSE [parent EXCEPT ![r] = s]

(* Mutant: the rank grows with every link. *)
WeighedAlways(r, s) ==
    LET kept == IF FirstStays(r, s) THEN r ELSE s IN
    CASE alg = "wquuf" -> [weight EXCEPT ![kept] = weight[r] + weight[s]]
      [] alg = "uf" -> [weight EXCEPT ![kept] = @ + 1]
      [] OTHER -> weight

(* The size or rank of the root that stays. *)
Weighed(r, s) ==
    LET kept == IF FirstStays(r, s) THEN r ELSE s IN
    CASE alg = "wquuf" -> [weight EXCEPT ![kept] = weight[r] + weight[s]]
      [] alg = "uf" /\ weight[r] = weight[s] -> [weight EXCEPT ![r] = @ + 1]
      [] OTHER -> weight

(* Mutant: union without its early return for elements of one set. *)
UnionLinkAlways ==
    /\ pc = "findq"
    /\ IsRoot(cursor)
    /\ call.op = "union"
    /\ parent' = Linked(pid, cursor)
    /\ weight' = Weighed(pid, cursor)
    /\ count' = count - 1
    /\ Return(Void)
    /\ UNCHANGED <<alg, canon>>

UnionLink ==
    /\ pc = "findq"
    /\ IsRoot(cursor)
    /\ call.op = "union"
    /\ pid # cursor
    /\ parent' = Linked(pid, cursor)
    /\ weight' = Weighed(pid, cursor)
    /\ count' = count - 1
    /\ Return(Void)
    /\ canon' = Merged(canon, pid, cursor,
                       IF FirstStays(pid, cursor) THEN pid ELSE cursor)
    /\ UNCHANGED alg

(* errmsg_exit has ended the program. *)
Stopped == pc = "exit" /\ UNCHANGED vars

(* The steps of a call once the caller has made it. *)
Work ==
    \/ Reject \/ BeginFind \/ FindStep \/ FoundFirst \/ FindReturn
    \/ ConnectedReturn \/ UnionSameReturn \/ UnionLink

Next == Invoke \/ Work \/ Stopped

Spec == Init /\ [][Next]_vars

(* A call that was made is executed: nothing preempts or blocks it. *)
FairSpec == Spec /\ WF_vars(Work)
-----------------------------------------------------------------------------
TypeOK ==
    /\ alg \in Algs
    /\ parent \in [Elems -> Elems]
    /\ weight \in [Elems -> Nat]
    /\ count \in 0 .. N
    /\ call \in Calls \cup {NoCall, Exited}
    /\ pc \in PCs
    /\ cursor \in Elems \cup {0}
    /\ pid \in Elems \cup {0}
    /\ ret \in Elems \cup {Void, 0, 1}
    /\ canon \in [Elems -> Elems]

(* The call and the program counter agree, and a running find reads inside
   the array. *)
Control ==
    /\ pc = "idle" <=> call = NoCall
    /\ pc = "exit" <=> call = Exited
    /\ pc \in {"find", "findq"} => Valid(call) /\ cursor \in Elems
    /\ pc = "find" => canon[cursor] = canon[call.p]
    /\ pc = "findq" =>
         /\ call.op # "find"
         /\ canon[cursor] = canon[call.q]
         /\ pid \in Elems
         /\ IsRoot(pid)
         /\ pid = canon[call.p]

(* Following parents never leaves a set, and a set has exactly one root:
   find of any element of the set ends at its canonical element, whichever
   calls were made before and in whatever order (uf_find, wquuf_find,
   quuf_find). *)
OneRootPerSet ==
    \A x \in Elems :
        /\ canon[parent[x]] = canon[x]
        /\ canon[canon[x]] = canon[x]
        /\ IsRoot(x) <=> canon[x] = x

(* Weights strictly increase towards the root, so that no parent chain is a
   cycle: the order of the writes of union by size and union by rank. *)
WeightGrowsUp ==
    alg # "quuf" =>
        \A x \in Elems :
            /\ ~IsRoot(x) => weight[x] < weight[parent[x]]
            /\ alg = "wquuf" => weight[x] > 0

(* count() is the number of sets: union decrements it exactly when two sets
   become one. *)
Roots == {x \in Elems : IsRoot(x)}
CountIsSets == count = Cardinality(Roots)

(* The inductive invariant. *)
Inv == TypeOK /\ Control /\ OneRootPerSet /\ WeightGrowsUp /\ CountIsSets

(* The rank of a root is at most the binary logarithm of its set's size, and
   a size is the number of the set's elements: "rank of subtree rooted at i
   (never more than 31)", include/unionfind/unionfind.h. *)
WeightMeasuresSet ==
    \A r \in Elems : IsRoot(r) =>
        LET set == {x \in Elems : canon[x] = r} IN
        /\ alg = "uf" => 2 ^ weight[r] <= Cardinality(set)
        /\ alg = "wquuf" => weight[r] = Cardinality(set)


(* The structure implements the partition of the header. *)
P == INSTANCE Partition
=============================================================================
