----------------------------- MODULE LinkedLists -----------------------------
(***************************************************************************)
(* linearlist/: a queue, a stack and single linked lists in one memory of  *)
(* nodes, which every removal frees and every insertion takes from.        *)
(*                                                                         *)
(* A pointer is a node, Null, or Wild when it was never assigned or points *)
(* to memory that slist_clear freed.  What a call does through a pointer   *)
(* that is not to a node of its list is undefined: astray records it, and  *)
(* the behaviour ends there.                                               *)
(***************************************************************************)
EXTENDS Integers, FiniteSets, SequencesExt

CONSTANTS Nodes,    \* bound: the nodes there is memory for
          Null, Wild,
          Keys,
          Queues, Stacks, SLists

ASSUME NodesAssumption ==
    IsFiniteSet(Nodes) /\ Null # Wild /\ {Null, Wild} \cap Nodes = {}
ASSUME KindsAssumption ==
    /\ Queues \cap Stacks = {}
    /\ Queues \cap SLists = {}
    /\ Stacks \cap SLists = {}

Lists == Queues \cup Stacks \cup SLists
M        == Cardinality(Nodes)
Pointers == Nodes \cup {Null, Wild}

VARIABLES live, key, next,      \* the allocated nodes and their fields
          first, last, size,    \* the headers; a stack has no last
          pc, list, to, arg,    \* the loop that runs, its lists and its key
          current, prev,        \* its local pointers
          got,                  \* what the last call returned
          was,                  \* history: the contents when the call began
          cloned,               \* history: lists whose last slist_clone left
          astray                \* history: a pointer was followed too far

heap  == <<live, key, next>>
heads == <<first, last, size>>
call  == <<pc, list, to, arg, current, prev, was>>
vars  == <<heap, heads, call, got, cloned, astray>>
-----------------------------------------------------------------------------
(* The nodes of a list in the order of its next pointers, which end at the
   first pointer that is not to a node. *)
After == [p \in Pointers |-> IF p \in live THEN next[p] ELSE p]

Chain(l) ==
    LET at[n \in 1 .. M] == IF n = 1 THEN first[l] ELSE After[at[n - 1]]
    IN  [n \in {m \in 1 .. M : at[m] \in live} |-> at[n]]

ChainSet(l) == ToSet(Chain(l))
Contents == [l \in Lists |-> [n \in DOMAIN Chain(l) |-> key[Chain(l)[n]]]]

(* last points to the last node, where it is used. *)
LastRight(l) == first[l] \in live => last[l] = Last(Chain(l))

Nothing == -1
NoList  == "none"
Empties == [l \in Lists |-> <<>>]
-----------------------------------------------------------------------------
(* QUEUE_INIT, STACK_INIT and slist_init; a list that will be the target of
   slist_clone need not be initialised. *)
Init ==
    /\ live = {}
    /\ key = [n \in Nodes |-> Nothing]
    /\ next = [n \in Nodes |-> Null]
    /\ \E unset \in SUBSET SLists :
           /\ first = [l \in Lists |-> IF l \in unset THEN Wild ELSE Null]
           /\ last = first
    /\ size = [l \in Lists |-> 0]
    /\ pc = "idle"
    /\ list = NoList
    /\ to = NoList
    /\ arg = Nothing
    /\ current = Null
    /\ prev = Null
    /\ got = Nothing
    /\ was = Empties
    /\ cloned = {}
    /\ astray = FALSE

Idle == pc = "idle" /\ ~astray

(* A call that returns within one step. *)
AtOnce == Idle /\ UNCHANGED call

Running(loop) == pc = loop /\ ~astray

(* A loop over list l starts; m and k are the call's other arguments. *)
Starts(loop, l, m, k) ==
    /\ pc' = loop
    /\ list' = l
    /\ to' = m
    /\ arg' = k
    /\ was' = Contents
    /\ got' = Nothing

(* The call returns; its locals are gone. *)
Returns ==
    /\ pc' = "idle"
    /\ list' = NoList
    /\ to' = NoList
    /\ arg' = Nothing
    /\ current' = Null
    /\ prev' = Null
    /\ was' = Empties

(* make_node, with the next pointer its caller gives it, and linked behind
   node p if there is one.  Which free node it is makes no difference. *)
Fresh == CHOOSE n \in Nodes : n \notin live

MakeNode(k, nxt, p) ==
    /\ live # Nodes
    /\ live' = live \cup {Fresh}
    /\ key' = [key EXCEPT ![Fresh] = k]
    /\ next' = [n \in Nodes |-> CASE n = Fresh -> nxt
                                  [] n = p     -> Fresh
                                  [] OTHER     -> next[n]]

(* ALGFREE, after node p, if there is one, got the next pointer nxt. *)
FreeNode(n, p, nxt) ==
    /\ live' = live \ {n}
    /\ key' = [key EXCEPT ![n] = Nothing]
    /\ next' = [m \in Nodes |-> CASE m = n -> Null
                                  [] m = p -> nxt
                                  [] OTHER -> next[m]]

(* A pointer to memory that was freed is Wild. *)
Dangling(pointers) ==
    [m \in Lists |-> IF pointers[m] \in Nodes \ live' THEN Wild ELSE pointers[m]]

(* first and last of list l, and whether its last is now its own. *)
SetEnds(l, f, t) ==
    /\ first' = [first EXCEPT ![l] = f]
    /\ last' = Dangling([last EXCEPT ![l] = t])
    /\ cloned' = IF t = last[l] THEN cloned ELSE cloned \ {l}

(* Mutant: a removal counts up like an insertion. *)
GrowsOnly(l, by) == size' = [size EXCEPT ![l] = @ + 1]

Grows(l, by) == size' = [size EXCEPT ![l] = @ + by]
-----------------------------------------------------------------------------
(* enqueue and slist_append: behind last, or as the only node. *)
AppendTo(l, k) ==
    /\ AtOnce
    /\ first[l] # Wild
    /\ \/ /\ first[l] = Null
          /\ MakeNode(k, Null, Null)
          /\ SetEnds(l, Fresh, Fresh)
          /\ UNCHANGED astray
       \/ /\ first[l] # Null
          /\ last[l] \in live
          /\ MakeNode(k, Null, last[l])
          /\ SetEnds(l, first[l], Fresh)
          /\ astray' = ~LastRight(l)
    /\ Grows(l, 1)
    /\ got' = Nothing

(* stack_push and slist_put. *)
PutFirst(l, k) ==
    /\ AtOnce
    /\ first[l] # Wild
    /\ MakeNode(k, first[l], Null)
    /\ SetEnds(l, Fresh, IF l \in SLists /\ first[l] = Null THEN Fresh ELSE last[l])
    /\ Grows(l, 1)
    /\ got' = Nothing
    /\ UNCHANGED astray

(* QUEUE_ISEMPTY asks both pointers, STACK_ISEMPTY one. *)
IsEmpty(l) == first[l] = Null /\ (l \in Queues => last[l] = Null)

(* dequeue and stack_pop of a list that is not empty. *)
Take(l) ==
    /\ FreeNode(first[l], Null, Null)
    /\ SetEnds(l, next[first[l]], IF l \in Queues /\ size[l] = 1 THEN Null ELSE last[l])
    /\ Grows(l, -1)
    /\ UNCHANGED astray

TakeOut(l) ==
    /\ AtOnce
    /\ \/ IsEmpty(l) /\ got' = Nothing /\ UNCHANGED <<heap, heads, cloned, astray>>
       \/ ~IsEmpty(l) /\ got' = key[first[l]] /\ Take(l)

(* queue_clear and stack_clear *)
ClearAll(l) ==
    /\ Idle
    /\ l \in Queues \cup Stacks
    /\ Starts("take", l, NoList, Nothing)
    /\ UNCHANGED <<heap, heads, current, prev, cloned, astray>>

ClearTake ==
    /\ Running("take")
    /\ ~IsEmpty(list)
    /\ Take(list)
    /\ UNCHANGED <<call, got>>

ClearAllEnd ==
    /\ Running("take")
    /\ IsEmpty(list)
    /\ Returns
    /\ UNCHANGED <<heap, heads, got, cloned, astray>>
-----------------------------------------------------------------------------
(* slist_contains: the loop reads and no more. *)
Locate(l, k) ==
    /\ AtOnce
    /\ first[l] # Wild
    /\ got' = SelectInSeq(Contents[l], LAMBDA e : e = k) - 1
    /\ UNCHANGED <<heap, heads, cloned, astray>>

(* Mutant: the loop stops at the first node with the key. *)
ChangeFirstKey(l, k, new) ==
    LET at == SelectInSeq(Chain(l), LAMBDA n : key[n] = k)
    IN  /\ AtOnce
        /\ first[l] # Wild
        /\ key' = IF at = 0 THEN key ELSE [key EXCEPT ![Chain(l)[at]] = new]
        /\ UNCHANGED <<live, next, heads, cloned, astray>>
        /\ got' = Nothing

(* slist_change: every node with the key gets the other. *)
ChangeKey(l, k, new) ==
    /\ AtOnce
    /\ first[l] # Wild
    /\ key' = [n \in Nodes |-> IF n \in ChainSet(l) /\ key[n] = k THEN new ELSE key[n]]
    /\ UNCHANGED <<live, next, heads, cloned, astray>>
    /\ got' = Nothing

(* slist_delete of an empty list, of the only node and of the first one.
   The key that keysize made the node own is not freed. *)
DeleteEmpty(l, k) ==
    /\ AtOnce
    /\ first[l] = Null
    /\ UNCHANGED <<heap, heads, cloned, astray>>
    /\ got' = Nothing

DeleteHead(l, k) ==
    /\ AtOnce
    /\ first[l] \in live
    /\ key[first[l]] = k
    /\ FreeNode(first[l], Null, Null)
    /\ IF first[l] = last[l]
       THEN SetEnds(l, Null, Null) /\ size' = [size EXCEPT ![l] = 0]
       ELSE SetEnds(l, next[first[l]], last[l]) /\ Grows(l, -1)
    /\ astray' = (first[l] = last[l] /\ ~LastRight(l))
    /\ got' = Nothing

DeleteLater(l, k) ==
    /\ Idle
    /\ first[l] \in live
    /\ key[first[l]] # k
    /\ Starts("delete", l, NoList, k)
    /\ current' = first[l]
    /\ UNCHANGED <<heap, heads, prev, cloned, astray>>

DeleteEnd ==
    /\ Running("delete")
    /\ IF current = Null THEN TRUE ELSE next[current] = Null
    /\ Returns
    /\ UNCHANGED <<heap, heads, got, cloned, astray>>

DeletePass ==
    /\ Running("delete")
    /\ current # Null
    /\ next[current] # Null
    /\ key[next[current]] # arg
    /\ current' = next[current]
    /\ UNCHANGED <<heap, heads, pc, list, to, arg, prev, was, got, cloned, astray>>

(* Mutant: the last node is unlinked like the others. *)
UnlinkKeepingLast ==
    LET gone == next[current]
    IN  /\ Running("delete")
        /\ current # Null
        /\ gone # Null
        /\ key[gone] = arg
        /\ FreeNode(gone, current, next[gone])
        /\ Grows(list, -1)
        /\ current' = next[gone]
        /\ UNCHANGED <<first, last, pc, list, to, arg, prev, was, got, cloned, astray>>

(* The successor is unlinked, and the loop moves on to the node behind it
   without looking at that node's key. *)
DeleteUnlink ==
    LET gone   == next[current]
        isLast == gone = last[list]
        behind == IF isLast THEN Null ELSE next[gone]
    IN  /\ Running("delete")
        /\ current # Null
        /\ gone # Null
        /\ key[gone] = arg
        /\ FreeNode(gone, current, behind)
        /\ SetEnds(list, first[list], IF isLast THEN current ELSE last[list])
        /\ Grows(list, -1)
        /\ current' = behind
        /\ astray' = (isLast /\ next[gone] # Null)
        /\ UNCHANGED <<pc, list, to, arg, prev, was, got>>
-----------------------------------------------------------------------------
(* slist_reverse turns the pointers one by one; pnext is next[current]
   while the loop runs. *)
ReverseBegin(l) ==
    /\ Idle
    /\ first[l] \in live
    /\ Starts("reverse", l, NoList, Nothing)
    /\ UNCHANGED heap
    /\ SetEnds(l, first[l], first[l])
    /\ current' = first[l]
    /\ UNCHANGED <<size, prev, astray>>

ReverseTurn ==
    /\ Running("reverse")
    /\ next[current] # Null
    /\ next' = [next EXCEPT ![current] = prev]
    /\ prev' = current
    /\ current' = next[current]
    /\ UNCHANGED <<live, key, heads, pc, list, to, arg, was, got, cloned, astray>>

(* Mutant: the original last node is not linked to the turned ones. *)
ReverseEndUnlinked ==
    /\ Running("reverse")
    /\ next[current] = Null
    /\ UNCHANGED heap
    /\ SetEnds(list, current, last[list])
    /\ Returns
    /\ UNCHANGED <<size, got, astray>>

ReverseEnd ==
    /\ Running("reverse")
    /\ next[current] = Null
    /\ next' = [next EXCEPT ![current] = prev]
    /\ UNCHANGED <<live, key, size, got, astray>>
    /\ SetEnds(list, current, last[list])
    /\ Returns

(* slist_clone to a list that holds nothing.  clone_node assigns through its
   second argument only in the innermost call, where that is the address of
   the next field of the last node but one; it is the address of the new
   list's last in the outermost call alone. *)
CloneBegin(l, m) ==
    /\ Idle
    /\ l # m
    /\ first[l] # Wild
    /\ first[m] \in {Null, Wild}
    /\ Len(Chain(l)) <= Cardinality(Nodes \ live)     \* bound: there is memory
    /\ Starts("clone", l, m, Nothing)
    /\ current' = first[l]
    /\ first' = [first EXCEPT ![m] = Null]
    /\ UNCHANGED <<heap, last, size, prev, cloned, astray>>

CloneNode ==
    /\ Running("clone")
    /\ current # Null
    /\ MakeNode(key[current], Null, prev)
    /\ first' = [first EXCEPT ![to] = IF prev = Null THEN Fresh ELSE @]
    /\ last' = [last EXCEPT ![to] =
                   IF prev = Null /\ next[current] = Null THEN current ELSE @]
    /\ prev' = Fresh
    /\ current' = next[current]
    /\ UNCHANGED <<size, pc, list, to, arg, was, got, cloned, astray>>

CloneEnd ==
    /\ Running("clone")
    /\ current = Null
    /\ size' = [size EXCEPT ![to] = size[list]]
    /\ cloned' = cloned \cup {to}
    /\ Returns
    /\ UNCHANGED <<heap, first, last, got, astray>>

(* slist_clear frees the nodes and leaves first and last as they are. *)
ClearBegin(l) ==
    /\ Idle
    /\ l \in SLists
    /\ first[l] # Wild
    /\ Starts("free", l, NoList, Nothing)
    /\ current' = first[l]
    /\ UNCHANGED <<heap, heads, prev, cloned, astray>>

ClearFree ==
    /\ Running("free")
    /\ current # Null
    /\ FreeNode(current, Null, Null)
    /\ last' = Dangling(last)
    /\ current' = next[current]
    /\ UNCHANGED <<first, size, pc, list, to, arg, prev, was, got, cloned, astray>>

ClearEnd ==
    /\ Running("free")
    /\ current = Null
    /\ LET freed == IF first[list] = Null THEN first[list] ELSE Wild
       IN  first' = [first EXCEPT ![list] = freed]
    /\ last' = [last EXCEPT ![list] = IF first[list] = Null THEN @ ELSE Wild]
    /\ size' = [size EXCEPT ![list] = 0]
    /\ Returns
    /\ UNCHANGED <<heap, got, cloned, astray>>

(* slist_init of a list that owns no node. *)
InitList(l) ==
    /\ AtOnce
    /\ first[l] \in {Null, Wild}
    /\ UNCHANGED <<heap, astray>>
    /\ SetEnds(l, Null, Null)
    /\ size' = [size EXCEPT ![l] = 0]
    /\ got' = Nothing

-----------------------------------------------------------------------------
Work ==
    \/ ClearTake \/ ClearAllEnd
    \/ DeletePass \/ DeleteUnlink \/ DeleteEnd
    \/ ReverseTurn \/ ReverseEnd
    \/ CloneNode \/ CloneEnd
    \/ ClearFree \/ ClearEnd

(* Without it a behaviour cannot go on. *)
Stopped == astray /\ UNCHANGED vars

SListCall(l) ==
    \/ \E k \in Keys : AppendTo(l, k) \/ PutFirst(l, k) \/ Locate(l, k)
    \/ \E k, new \in Keys : ChangeKey(l, k, new)
    \/ \E k \in Keys : DeleteEmpty(l, k) \/ DeleteHead(l, k) \/ DeleteLater(l, k)
    \/ ReverseBegin(l)
    \/ \E m \in SLists : CloneBegin(l, m)
    \/ ClearBegin(l)
    \/ InitList(l)

Next ==
    \/ \E l \in Queues, k \in Keys : AppendTo(l, k)
    \/ \E l \in Stacks, k \in Keys : PutFirst(l, k)
    \/ \E l \in Queues \cup Stacks : TakeOut(l) \/ ClearAll(l)
    \/ \E l \in SLists : SListCall(l)
    \/ Work
    \/ Stopped

Spec == Init /\ [][Next]_vars
-----------------------------------------------------------------------------
TypeOK ==
    /\ live \subseteq Nodes
    /\ key \in [Nodes -> Keys \cup {Nothing}]
    /\ next \in [Nodes -> Nodes \cup {Null}]
    /\ {first, last} \subseteq [Lists -> Pointers]
    /\ size \in [Lists -> 0 .. M]
    /\ pc \in {"idle", "take", "delete", "reverse", "clone", "free"}
    /\ {list, to} \subseteq Lists \cup {NoList}
    /\ {current, prev} \subseteq Nodes \cup {Null}
    /\ arg \in Keys \cup {Nothing}
    /\ cloned \subseteq SLists
    /\ astray \in BOOLEAN

Settled == pc = "idle" /\ ~astray

(* Between calls every allocated node is in one list, once: none is leaked,
   freed while a list still holds it, or in two lists. *)
NodesOwned ==
    Settled =>
        /\ live = UNION {ChainSet(l) : l \in Lists}
        /\ \A l \in Lists : IsInjective(Chain(l))
        /\ \A l, m \in Lists : l # m => ChainSet(l) \cap ChainSet(m) = {}

(* size counts the nodes, and a queue's two pointers are NULL together. *)
SizeIsLength ==
    Settled =>
        /\ \A l \in Lists : size[l] = Len(Chain(l))
        /\ \A l \in Queues : first[l] = Null <=> last[l] = Null

(* last points to the last node of every list but one that slist_clone made. *)
LastIsRight == Settled => \A l \in Lists \ (Stacks \cup cloned) : LastRight(l)

(* What a list keeps beside its chain agrees with the chain. *)
EndsAreRight == SizeIsLength /\ LastIsRight

-----------------------------------------------------------------------------
Sequences_ == INSTANCE KeySequences WITH
    seqs <- IF pc = "idle" THEN Contents ELSE was, answer <- got

(* What each call, when it returns, has done to the keys of its list, and that
   it has done nothing to the keys of the others. *)
CallsDone ==
    /\ \A l \in Lists, k \in Keys :
          /\ l \notin Stacks /\ AppendTo(l, k) => Sequences_!AddLast(l, k)
          /\ l \notin Queues /\ PutFirst(l, k) => Sequences_!Prepend(l, k)
    /\ \A l \in SLists, k \in Keys :
          /\ Locate(l, k) => Sequences_!Locate(l, k)
          /\ DeleteEmpty(l, k) \/ DeleteHead(l, k) => Sequences_!Delete(l, k)
          /\ \A new \in Keys : ChangeKey(l, k, new) => Sequences_!Change(l, k, new)
    /\ \A l \in Queues \cup Stacks : TakeOut(l) => Sequences_!TakeFirst(l)
    /\ \A l \in SLists : InitList(l) => Sequences_!Clear(l)
    /\ ClearAllEnd \/ ClearEnd => Sequences_!Clear(list)
    /\ DeleteEnd => Sequences_!Delete(list, arg)
    /\ ReverseEnd => Sequences_!Turn(list)
    /\ CloneEnd => Sequences_!Clone(list, to)
    /\ pc' # "idle" => Sequences_!Underway

(* The lists begin empty, and a call changes the keys of its list as the header
   says and those of no other list, whatever the node memory was used for
   before. *)
CallsKeepSequences == Sequences_!Init /\ [][~astray' => CallsDone]_vars
=============================================================================
