---------------------------- MODULE MCLinkedLists ----------------------------
(***************************************************************************)
(* The linear lists for TLC: a behaviour uses the queue and the stack, or  *)
(* the single lists; the lists not in use stay empty.                      *)
(***************************************************************************)
EXTENDS LinkedLists

VARIABLES used      \* the lists in use

mcvars == <<vars, used>>

MCInit == Init /\ used \in {Queues \cup Stacks, SLists}

MCNext ==
    /\ Next
    /\ \A l \in Lists \ used : first'[l] = first[l] /\ last'[l] = last[l]
    /\ UNCHANGED used

MCSpec == MCInit /\ [][MCNext]_mcvars

(* The nodes are interchangeable. *)
Symmetric == Permutations(Nodes)
-----------------------------------------------------------------------------
(* "Clones this single linked-list and output new": the keys of a list are
   changed by no call on another list, a clone of it included. *)
OthersKeepTheirKeys ==
    [][\A l \in SLists, k \in Keys :
           AppendTo(l, k) => \A m \in Lists \ {l} : Contents'[m] = Contents[m]]_mcvars
=============================================================================
