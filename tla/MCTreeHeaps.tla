----------------------------- MODULE MCTreeHeaps -----------------------------
(***************************************************************************)
(* The heaps of trees for TLC: a behaviour uses a pairing, a binomial or a *)
(* Fibonacci heap.                                                         *)
(***************************************************************************)
EXTENDS Integers

CONSTANTS PairingCap, BinomialCap, FibonacciCap,
          SecondCap,    \* the second binomial queue
          IndexCap, Keys, FibonacciKeys

VARIABLES kind,         \* which heap the behaviour uses
          indexed,      \* whether it is an indexed one
          pheap, psize, pastray,
          ntree, nhead, nnodes, nastray,
          fnode, fhead, fresult, fsize

pvars  == <<pheap, psize, pastray>>
nvars  == <<ntree, nhead, nnodes, nastray>>
fvars  == <<fnode, fhead, fresult, fsize>>
mcvars == <<kind, indexed, pvars, nvars, fvars>>

P == INSTANCE PairingHeap WITH
    Cap <- PairingCap, heap <- pheap, size <- psize, astray <- pastray
B == INSTANCE BinomialHeap WITH
    Cap <- BinomialCap, tree <- ntree, head <- nhead, nodes <- nnodes, astray <- nastray
F == INSTANCE FibonacciHeap WITH
    Cap <- FibonacciCap, SecondCap <- 1, Keys <- FibonacciKeys,
    node <- fnode, head <- fhead, result <- fresult, size <- fsize
-----------------------------------------------------------------------------
MCInit ==
    /\ kind \in {"pairing", "binomial", "fibonacci"}
    /\ P!Init /\ B!Init /\ F!Init

MCNext ==
    \/ kind = "pairing" /\ P!Next /\ UNCHANGED <<kind, nvars, fvars>>
    \/ kind = "binomial" /\ B!Next /\ UNCHANGED <<kind, pvars, fvars>>
    \/ kind = "fibonacci" /\ F!Next /\ UNCHANGED <<kind, pvars, nvars>>

MCSpec == MCInit /\ [][MCNext]_mcvars
-----------------------------------------------------------------------------
(* Types, and every tree has the shape the next operation relies on: heap order,
   links that agree in both directions, degrees and sizes that count what is
   there, in the binomial heap trees of different degrees, in the Fibonacci
   heap a result pointer that points to a smallest key. *)
PairingSound   == kind = "pairing" => P!TypeOK /\ P!Sound
BinomialSound  == kind = "binomial" => B!TypeOK /\ B!Sound
FibonacciSound == kind = "fibonacci" => F!TypeOK /\ F!Sound

(* No operation loses a key, doubles one or changes the key of another index,
   and each deletion takes a smallest key. *)
TreesKeepKeys == P!KeepsKeys /\ B!KeepsKeys /\ F!KeepsKeys
=============================================================================
