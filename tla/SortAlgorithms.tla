--------------------------- MODULE SortAlgorithms ---------------------------
(***************************************************************************)
(* The sorts of sort/sortalg.c, as operators from an array to the array    *)
(* they leave behind.  An array is a sequence of records [key, id]: cmp    *)
(* compares keys (it returns 1 when its first argument is the smaller) and *)
(* id tells equal keys apart.  Positions count from 1.  Every sort works   *)
(* on the range lo..hi.                                                    *)
(***************************************************************************)
EXTENDS Integers, Sequences, SequencesExt, FiniteSets

CONSTANTS Cutoff,                \* INSERTION_SORT_CUTOFF
          Chars                  \* the characters of strings that occur
ASSUME CutoffAssumption == Cutoff \in Nat
ASSUME CharsAssumption == Chars \subseteq Nat \ {0}

Less(x, y) == x.key < y.key
Exch(a, i, j) == [a EXCEPT ![i] = a[j], ![j] = a[i]]
\* the loop  for (i = lo; i <= hi; i++)
Loop(Step(_, _), a, lo, hi) == FoldLeft(Step, a, [n \in 1..(hi - lo + 1) |-> lo + n - 1])

Ordered(a, lo, hi) == \A i \in (lo + 1)..hi : ~ Less(a[i], a[i - 1])

(* Moves a[j] back in strides of h while it is smaller, not below lo. *)
RECURSIVE SiftBack(_, _, _, _)
SiftBack(a, lo, h, j) ==
    IF j >= lo + h /\ Less(a[j], a[j - h])
    THEN SiftBack(Exch(a, j, j - h), lo, h, j - h)
    ELSE a

StrideSort(a, lo, hi, h) == Loop(LAMBDA b, i : SiftBack(b, lo, h, i), a, lo + h, hi)
InsertionSort(a, lo, hi) == StrideSort(a, lo, hi, 1)

(* The position of the first smallest element of lo..hi. *)
FirstMin(a, lo, hi) ==
    CHOOSE m \in lo..hi : /\ \A i \in lo..hi : ~ Less(a[i], a[m])
                          /\ \A i \in lo..(m - 1) : Less(a[m], a[i])
SelectionSort(a, lo, hi) == Loop(LAMBDA b, i : Exch(b, i, FirstMin(b, i, hi)), a, lo, hi)

RECURSIVE FirstStride(_, _)
FirstStride(h, n) == IF h < n \div 3 THEN FirstStride(3 * h + 1, n) ELSE h
RECURSIVE ShellFrom(_, _, _, _)
ShellFrom(a, lo, hi, h) ==
    IF h >= 1 THEN ShellFrom(StrideSort(a, lo, hi, h), lo, hi, h \div 3) ELSE a
ShellSort(a, lo, hi) == ShellFrom(a, lo, hi, FirstStride(1, hi - lo + 1))
-----------------------------------------------------------------------------
(* partition: the pivot is a[lo]; i and j meet from both ends, and stop at *)
(* keys equal to the pivot.                                                *)
ScanUp(a, lo, hi, i) ==
    CHOOSE k \in (i + 1)..hi : /\ k = hi \/ ~ Less(a[k], a[lo])
                               /\ \A m \in (i + 1)..(k - 1) : Less(a[m], a[lo])
ScanDown(a, lo, j) ==
    CHOOSE k \in lo..(j - 1) : /\ k = lo \/ ~ Less(a[lo], a[k])
                               /\ \A m \in (k + 1)..(j - 1) : Less(a[lo], a[m])
RECURSIVE Cross(_, _, _, _, _)
Cross(a, lo, hi, i0, j0) ==
    LET i == ScanUp(a, lo, hi, i0)
        j == ScanDown(a, lo, j0) IN
    IF i >= j THEN [array |-> Exch(a, j, lo), at |-> j]
    ELSE Cross(IF a[i].key # a[j].key THEN Exch(a, i, j) ELSE a, lo, hi, i, j)
Partition(a, lo, hi) == Cross(a, lo, hi, lo, hi + 1)

RECURSIVE QuickSort(_, _, _)
QuickSort(a, lo, hi) ==
    IF lo >= hi THEN a
    ELSE IF lo + Cutoff >= hi THEN InsertionSort(a, lo, hi)
    ELSE LET p == Partition(a, lo, hi) IN
         QuickSort(QuickSort(p.array, lo, p.at - 1), p.at + 1, hi)

(* a[lo..lt-1] < v, a[lt..i-1] = v and a[gt+1..hi] > v. *)
RECURSIVE ThreeWay(_, _, _, _, _)
ThreeWay(a, lt, i, gt, v) ==
    IF i > gt THEN [array |-> a, lt |-> lt, gt |-> gt]
    ELSE IF Less(a[i], v) THEN ThreeWay(Exch(a, i, lt), lt + 1, i + 1, gt, v)
    ELSE IF Less(v, a[i]) THEN ThreeWay(Exch(a, i, gt), lt, i, gt - 1, v)
    ELSE ThreeWay(a, lt, i + 1, gt, v)
RECURSIVE Quick3WaySort(_, _, _)
Quick3WaySort(a, lo, hi) ==
    IF lo >= hi THEN a
    ELSE IF lo + Cutoff >= hi THEN InsertionSort(a, lo, hi)
    ELSE LET p == ThreeWay(a, lo, lo + 1, hi, a[lo]) IN
         Quick3WaySort(Quick3WaySort(p.array, lo, p.lt - 1), p.gt + 1, hi)
-----------------------------------------------------------------------------
(* The element that position k receives: the left run wins ties. *)
RECURSIVE MergeFrom(_, _, _, _, _, _, _)
MergeFrom(a, aux, i, j, k, mid, hi) ==
    IF k > hi THEN a
    ELSE IF i <= mid /\ (j > hi \/ ~ Less(aux[j], aux[i]))
    THEN MergeFrom([a EXCEPT ![k] = aux[i]], aux, i + 1, j, k + 1, mid, hi)
    ELSE MergeFrom([a EXCEPT ![k] = aux[j]], aux, i, j + 1, k + 1, mid, hi)
\* mutant: the right run is taken to begin at mid
OrderedMergeAtMid(a, lo, mid, hi) == MergeFrom(a, a, lo, mid, lo, mid - 1, hi)
OrderedMerge(a, lo, mid, hi) == MergeFrom(a, a, lo, mid + 1, lo, mid, hi)

RECURSIVE MergeSortTopDown(_, _, _)
MergeSortTopDown(a, lo, hi) ==
    IF lo >= hi THEN a
    ELSE IF lo + Cutoff >= hi THEN InsertionSort(a, lo, hi)
    ELSE LET mid == lo + (hi - lo) \div 2 IN
         OrderedMerge(MergeSortTopDown(MergeSortTopDown(a, lo, mid), mid + 1, hi), lo, mid, hi)

\* merges neighbouring runs of length len, from position i on
RECURSIVE MergeRuns(_, _, _, _)
MergeRuns(a, i, hi, len) ==
    IF i < hi + 1 - len
    THEN MergeRuns(OrderedMerge(a, i, i + len - 1,
                                IF i + 2 * len - 1 < hi THEN i + 2 * len - 1 ELSE hi),
                   i + 2 * len, hi, len)
    ELSE a
RECURSIVE MergeUp(_, _, _, _)
MergeUp(a, lo, hi, len) ==
    IF len < hi - lo + 1 THEN MergeUp(MergeRuns(a, lo, hi, len), lo, hi, 2 * len) ELSE a
MergeSortBottomUp(a, lo, hi) == MergeUp(a, lo, hi, 1)

(* The place of v in the sorted range lo..hi-1: after its equals. *)
RECURSIVE PlaceOf(_, _, _, _)
PlaceOf(a, v, lo, hi) ==
    LET mid == lo + (hi - lo) \div 2 IN
    IF lo >= hi THEN lo
    ELSE IF Less(v, a[mid]) THEN PlaceOf(a, v, lo, mid)
    ELSE PlaceOf(a, v, mid + 1, hi)
\* a[p..i-1] moves up by one and v = a[i] takes position p
ShiftIn(a, p, i) ==
    [k \in DOMAIN a |-> IF k = p THEN a[i] ELSE IF k \in (p + 1)..i THEN a[k - 1] ELSE a[k]]
BinaryInsertionSort(a, lo, hi) ==
    Loop(LAMBDA b, i : ShiftIn(b, PlaceOf(b, b[i], lo, i), i), a, lo + 1, hi)
-----------------------------------------------------------------------------
(* strings/stringsort/stringsort.c sorts arrays of strings; stringsearch/
   stringsuffixes.c keeps the positions of a text in an array meant to be in
   the order of the suffixes; longestsubstring.c searches with it.  A string
   is a sequence of characters, which are positive numbers, and characters are
   counted from 0 as in the code. *)

CharAt(s, d) == IF d \in 0..(Len(s) - 1) THEN s[d + 1] ELSE -1
CharsInOrder == SetToSortSeq(Chars, <)
Longer(m, n) == IF m > n THEN m ELSE n
Shorter(m, n) == IF m < n THEN m ELSE n

(* Each pass of lsdsort deals the strings out by one character, stably. *)
Bucket(sa, d, c) == SelectSeq(sa, LAMBDA s : CharAt(s, d) = c)
Dealt(sa, d) == Bucket(sa, d, -1) \o FlattenSeq([n \in DOMAIN CharsInOrder |->
                                                  Bucket(sa, d, CharsInOrder[n])])
LsdSort(sa, w) == FoldRight(LAMBDA d, b : Dealt(b, d), [n \in 1..w |-> n - 1], sa)

(* The loop of less returns in its first round: it compares the characters
   at d and never those behind. *)
StrLess(s, t, d) ==
    IF d < Longer(Len(s), Len(t)) THEN CharAt(s, d) < CharAt(t, d) ELSE Len(s) < Len(t)
\* s settles behind the last string of the sorted part that it is not less than
Settle(sa, s, d) ==
    LET stop == {n \in DOMAIN sa : ~ StrLess(s, sa[n], d)}
        last == CHOOSE n \in stop \cup {0} : \A m \in stop : m <= n
    IN  InsertAt(sa, last + 1, s)
StrInsertionSort(sa, d) == FoldLeft(LAMBDA b, s : Settle(b, s, d), <<>>, sa)

(* mstsort_aux: a range of sa; ended strings stay where they are dealt. *)
RECURSIVE MsdSort(_, _)
MsdSort(sa, d) ==
    IF Len(sa) - 1 <= Cutoff THEN StrInsertionSort(sa, d)
    ELSE Bucket(sa, d, -1) \o FlattenSeq([n \in DOMAIN CharsInOrder |->
                                           MsdSort(Bucket(sa, d, CharsInOrder[n]), d + 1)])
MstSort(sa) == MsdSort(sa, 0)

(* ipmstsort: every string is swapped to the head of its own bucket. *)
Below(sa, d, r) == Cardinality({n \in DOMAIN sa : CharAt(sa[n], d) < r})
UpTo(sa, d, r) == Cardinality({n \in DOMAIN sa : CharAt(sa[n], d) <= r})
RECURSIVE Permuted(_, _, _, _, _)
Permuted(sa, d, heads, tails, todo) ==
    IF todo = <<>> THEN sa
    ELSE LET r == Head(todo)
             c == CharAt(sa[heads[r]], d) IN
         IF heads[r] > tails[r] THEN Permuted(sa, d, heads, tails, Tail(todo))
         ELSE Permuted(IF c = r THEN sa ELSE Exch(sa, heads[r], heads[c]), d,
                       [heads EXCEPT ![c] = @ + 1], tails, todo)
RECURSIVE InPlaceSort(_, _)
InPlaceSort(sa, d) ==
    IF Len(sa) - 1 <= Cutoff THEN StrInsertionSort(sa, d)
    ELSE LET rs == <<-1>> \o CharsInOrder
             heads == [r \in Chars \cup {-1} |-> Below(sa, d, r) + 1]
             tails == [r \in Chars \cup {-1} |-> UpTo(sa, d, r)]
             dealt == Permuted(sa, d, heads, tails, rs)
         IN  SubSeq(dealt, 1, tails[-1])
             \o FlattenSeq([n \in DOMAIN CharsInOrder |->
                    InPlaceSort(SubSeq(dealt, heads[CharsInOrder[n]], tails[CharsInOrder[n]]), d + 1)])
InPlaceMstSort(sa) == InPlaceSort(sa, 0)

(* quick_sort: three ways by the character at d of the first string. *)
Keyed(seq, Key(_)) == [n \in DOMAIN seq |-> [key |-> Key(seq[n]), id |-> seq[n]]]
Ids(a, lo, hi) == [n \in 1..(hi - lo + 1) |-> a[lo + n - 1].id]
RECURSIVE StrQuickSort(_, _)
StrQuickSort(sa, d) ==
    IF Len(sa) - 1 <= Cutoff THEN StrInsertionSort(sa, d)
    ELSE LET a == Keyed(sa, LAMBDA s : CharAt(s, d))
             p == ThreeWay(a, 1, 2, Len(a), a[1])
             middle == Ids(p.array, p.lt, p.gt)
         IN  StrQuickSort(Ids(p.array, 1, p.lt - 1), d)
             \o (IF a[1].key >= 0 THEN StrQuickSort(middle, d + 1) ELSE middle)
             \o StrQuickSort(Ids(p.array, p.gt + 1, Len(a)), d)
QuickSortStrings(sa) == StrQuickSort(sa, 0)
-----------------------------------------------------------------------------
(* The common prefix of two suffixes (lcp), and their order (compare). *)
RECURSIVE Lcp(_, _, _, _)
Lcp(s, i, t, j) ==
    IF i < Len(s) /\ j < Len(t) /\ s[i + 1] = t[j + 1] THEN 1 + Lcp(s, i + 1, t, j + 1) ELSE 0
Compare(s, p, t, q) ==
    LET n == Lcp(s, p, t, q) IN
    IF n < Shorter(Len(s) - p, Len(t) - q) THEN s[p + n + 1] - t[q + n + 1]
    ELSE (Len(s) - p) - (Len(t) - q)

(* less gets the places j and j - 1 of the index array, not the positions
   that the index holds there, and compares the suffixes at those places. *)
SuffixLess(text, i, j, d) ==
    LET n == Lcp(text, i + d, text, j + d) IN
    /\ i # j
    /\ IF Longer(i, j) + d + n < Len(text)
       THEN text[i + d + n + 1] < text[j + d + n + 1]
       ELSE i > j
RECURSIVE SuffixSink(_, _, _, _, _)
SuffixSink(text, index, lo, j, d) ==
    IF j > lo /\ SuffixLess(text, j, j - 1, d)
    THEN SuffixSink(text, Exch(index, j + 1, j), lo, j - 1, d)
    ELSE index
SuffixInsertionSort(text, index, lo, hi, d) ==
    Loop(LAMBDA x, i : SuffixSink(text, x, lo, i, d), index, lo, hi)
\* the text ends with a character 0
TextAt(text, i) == IF i < Len(text) THEN text[i + 1] ELSE 0
RECURSIVE SuffixSort(_, _, _, _, _)
SuffixSort(text, index, lo, hi, d) ==
    IF lo + Cutoff >= hi THEN SuffixInsertionSort(text, index, lo, hi, d)
    ELSE LET a == Keyed(index, LAMBDA i : TextAt(text, i + d))
             p == ThreeWay(a, lo + 1, lo + 2, hi + 1, a[lo + 1])
             split == Ids(p.array, 1, Len(a))
             below == SuffixSort(text, split, lo, p.lt - 2, d)
         IN  SuffixSort(text, SuffixSort(text, below, p.lt - 1, p.gt - 1, d + 1), p.gt, hi, d)
SuffixIndex(text) ==
    SuffixSort(text, [n \in 1..Len(text) |-> n - 1], 0, Len(text) - 1, 0)

(* strsuffix_rank: bisects the index; compare takes a query that ends
   within the suffix for smaller. *)
QueryCompare(text, query, i) ==
    LET n == Lcp(query, 0, text, i) IN
    IF n < Len(query) /\ i + n < Len(text) THEN query[n + 1] - text[i + n + 1]
    ELSE IF i + n < Len(text) THEN -1 ELSE IF n < Len(query) THEN 1 ELSE 0
RECURSIVE SuffixRank(_, _, _, _, _)
SuffixRank(text, index, query, lo, hi) ==
    LET mid == lo + (hi - lo) \div 2
        cmp == QueryCompare(text, query, index[mid + 1])
    IN  IF lo > hi THEN lo
        ELSE IF cmp < 0 THEN SuffixRank(text, index, query, lo, mid - 1)
        ELSE IF cmp > 0 THEN SuffixRank(text, index, query, mid + 1, hi)
        ELSE mid
\* strsuffix_select copies from position s to e = tlen - s
SuffixSelect(text, s) == SubSeq(text, s + 1, Len(text) - s + 1)

(* string_lrs: the longest common prefix of neighbours in the index. *)
RepeatedFrom(text, index) ==
    FoldLeft(LAMBDA best, i :
                 LET n == Lcp(text, index[i], text, index[i - 1]) IN
                 IF n > Len(best) THEN SubSeq(text, index[i] + 1, index[i] + n) ELSE best,
             <<>>, [n \in 1..(Len(text) - 1) |-> n + 1])
LongestRepeated(text) == RepeatedFrom(text, SuffixIndex(text))

(* string_lcs: both indexes are walked as in a merge. *)
RECURSIVE CommonFrom(_, _, _, _, _, _, _)
CommonFrom(s, x, i, t, y, j, best) ==
    IF i > Len(x) \/ j > Len(y) THEN best
    ELSE LET n == Lcp(s, x[i], t, y[j])
             now == IF n > Len(best) THEN SubSeq(s, x[i] + 1, x[i] + n) ELSE best
         IN  IF Compare(s, x[i], t, y[j]) < 0 THEN CommonFrom(s, x, i + 1, t, y, j, now)
             ELSE CommonFrom(s, x, i, t, y, j + 1, now)
LongestCommon(s, t) == CommonFrom(s, SuffixIndex(s), 1, t, SuffixIndex(t), 1, <<>>)
=============================================================================
