------------------------------ MODULE Partition ------------------------------
(***************************************************************************)
(* What include/unionfind/ promises of every union-find structure: "a      *)
(* collection of sets containing N elements, with each element in exactly  *)
(* one set", whose find "returns the same value for two elements if and    *)
(* only if they are in the same set".  A partition is represented by the   *)
(* map from an element to the canonical element of its set.                *)
(*                                                                         *)
(* One caller uses the structure; a call is invoked, and answered in one   *)
(* step.  An index that is not an element ends the program (validate()).   *)
(***************************************************************************)
EXTENDS Integers

CONSTANT N              \* the number of elements, uf->len

VARIABLES canon,        \* canon[x] is the canonical element of x's set
          count,        \* number of sets
          call,         \* the call in progress
          ret           \* the value the last call returned; Void if none

pvars == <<canon, count, call, ret>>

Elems   == 0 .. N - 1
Indices == -1 .. N      \* what a caller may pass: one index too low, one too high
Void    == -1

Ops   == {"find", "connected", "union"}
Calls == {c \in [op : Ops, p : Indices, q : Indices] : c.op = "find" => c.q = c.p}

NoCall == [op |-> "none", p |-> 0, q |-> 0]
Exited == [op |-> "exit", p |-> 0, q |-> 0]

(* validate(): both indices are checked before anything else is done. *)
Valid(c) == {c.p, c.q} \subseteq Elems

(* The canonical elements after the sets of r and s are merged into k's. *)
Merged(c, r, s, k) == [x \in Elems |-> IF c[x] \in {r, s} THEN k ELSE c[x]]
-----------------------------------------------------------------------------
Init ==
    /\ canon = [x \in Elems |-> x]
    /\ count = N
    /\ call = NoCall
    /\ ret = Void

Invoke ==
    /\ call = NoCall
    /\ call' \in Calls
    /\ UNCHANGED <<canon, count, ret>>

Exit ==
    /\ call \in Calls
    /\ ~Valid(call)
    /\ call' = Exited
    /\ UNCHANGED <<canon, count, ret>>

Answer(op, value) ==
    /\ call \in Calls
    /\ Valid(call)
    /\ call.op = op
    /\ call' = NoCall
    /\ ret' = value

Find ==
    /\ Answer("find", canon[call.p])
    /\ UNCHANGED <<canon, count>>

Connected ==
    /\ Answer("connected", IF canon[call.p] = canon[call.q] THEN 1 ELSE 0)
    /\ UNCHANGED <<canon, count>>

UnionSame ==
    /\ Answer("union", Void)
    /\ canon[call.p] = canon[call.q]
    /\ UNCHANGED <<canon, count>>

UnionMerge ==
    /\ Answer("union", Void)
    /\ canon[call.p] # canon[call.q]
    /\ \E k \in {canon[call.p], canon[call.q]} :
          canon' = Merged(canon, canon[call.p], canon[call.q], k)
    /\ count' = count - 1

Next == Invoke \/ Exit \/ Find \/ Connected \/ UnionSame \/ UnionMerge

Spec == Init /\ [][Next]_pvars
=============================================================================
