----------------------------- MODULE KeySequences -----------------------------
(***************************************************************************)
(* What the headers of the linear lists promise: every list is a sequence  *)
(* of keys, and a call changes the sequence it is given and no other.      *)
(***************************************************************************)
EXTENDS Integers, SequencesExt

CONSTANTS Lists

VARIABLES seqs,     \* seqs[l] is the sequence of keys in list l
          answer    \* what the last call returned

Nothing == -1

Init == seqs = [l \in Lists |-> <<>>] /\ answer = Nothing
-----------------------------------------------------------------------------
Becomes(l, s, a) == seqs' = [seqs EXCEPT ![l] = s] /\ answer' = a

(* "Inserts a key at the first location", "Adds the key to this stack". *)
Prepend(l, k) == Becomes(l, <<k>> \o seqs[l], Nothing)

(* "Inserts a key at the last location", "Adds the key to this queue". *)
AddLast(l, k) == Becomes(l, Append(seqs[l], k), Nothing)

(* The key least recently added to a queue, or most recently to a stack. *)
TakeFirst(l) ==
    IF seqs[l] = <<>> THEN Becomes(l, <<>>, Nothing)
                      ELSE Becomes(l, Tail(seqs[l]), Head(seqs[l]))

(* "return the index of loction, -1 is not contain" *)
Locate(l, k) == Becomes(l, seqs[l], SelectInSeq(seqs[l], LAMBDA e : e = k) - 1)

(* Keys other than k stay, in their order, and an occurrence of k goes; every
   one goes unless the first key is k or two of them are neighbours. *)
Delete(l, k) ==
    LET first == seqs[l] # <<>> /\ Head(seqs[l]) = k
        neighbours == \E n \in 2 .. Len(seqs[l]) : seqs[l][n - 1] = k /\ seqs[l][n] = k
    IN  /\ answer' = Nothing
        /\ \A m \in Lists \ {l} : seqs'[m] = seqs[m]
        /\ \E from \in [DOMAIN seqs'[l] -> DOMAIN seqs[l]] :
              /\ \A i, j \in DOMAIN seqs'[l] : i < j => from[i] < from[j]
              /\ \A i \in DOMAIN seqs'[l] : seqs'[l][i] = seqs[l][from[i]]
              /\ \A n \in DOMAIN seqs[l] : seqs[l][n] # k =>
                    \E i \in DOMAIN seqs'[l] : from[i] = n
        /\ Contains(seqs[l], k) => Len(seqs'[l]) < Len(seqs[l])
        /\ Contains(seqs'[l], k) => first \/ neighbours

(* "Changes the specified key SKEY become to TKEY", everywhere. *)
Change(l, k, new) ==
    Becomes(l, [n \in DOMAIN seqs[l] |-> IF seqs[l][n] = k THEN new ELSE seqs[l][n]],
            Nothing)

Turn(l) == Becomes(l, Reverse(seqs[l]), Nothing)

Clone(l, m) == Becomes(m, seqs[l], Nothing)

Clear(l) == Becomes(l, <<>>, Nothing)

(* A call that has not returned. *)
Underway == UNCHANGED seqs
=============================================================================
