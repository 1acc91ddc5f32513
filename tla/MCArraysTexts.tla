---------------------------- MODULE MCArraysTexts ----------------------------
(***************************************************************************)
(* The arrays and texts that the algorithms of sort/, binarysearch/ and    *)
(* strings/ run on, for TLC.  A behaviour picks a kind of data and lets it *)
(* grow; each reachable array, list of strings and text is given to every  *)
(* algorithm, and the tries and the ordered array go through all sequences *)
(* of calls.                                                               *)
(***************************************************************************)
EXTENDS BinarySearchArray, SortAlgorithms, Strings

CONSTANTS Kinds,                 \* the kinds of data of this run
          SortKeys, MaxArray,    \* keys and length of the arrays
          MaxWords, WordLength,  \* length of the lists, and of the strings in them
          MaxText, MaxPattern,   \* length of the texts and patterns
          TrieKeyLength, MaxCalls

VARIABLES kind, array, words, text,
          trie, tst, sizes,      \* the two tries and their size fields
          calls                  \* calls made to the tries, at most MaxCalls

data == <<kind, array, words, text>>
tries == <<trie, tst, sizes, calls>>
allvars == <<vars, data, tries>>

Strings(chars, n) == UNION {[1..m -> chars] : m \in 0..n}
WordSet == Strings(Chars, WordLength)
\* one letter, and longer keys behind the middle letter
TrieKeys == {key \in Strings(Letters, TrieKeyLength) \ {<<>>} : Len(key) > 1 => key[1] = 2}

MCInit ==
    /\ Init
    /\ kind \in Kinds
    /\ array = <<>> /\ words = <<>> /\ text = <<>>
    /\ trie = NoNodes /\ tst = Nil
    /\ sizes = [trie |-> 0, tst |-> 0]
    /\ calls = 0

GrowArray ==
    /\ kind = "array" /\ Len(array) < MaxArray
    /\ \E k \in SortKeys : array' = Append(array, [key |-> k, id |-> Len(array) + 1])
    /\ UNCHANGED <<vars, kind, words, text, tries>>
GrowWords ==
    /\ kind = "words" /\ Len(words) < MaxWords
    /\ \E w \in WordSet : words' = Append(words, w)
    /\ UNCHANGED <<vars, kind, array, text, tries>>
GrowText ==
    /\ kind = "text" /\ Len(text) < MaxText
    /\ \E c \in Chars : text' = Append(text, c)
    /\ UNCHANGED <<vars, kind, array, words, tries>>

(* trie_put, tstrie_put, trie_delete and tstrie_delete with their sizes. *)
PutKey(key, value) ==
    /\ trie' = TriePut(trie, key, value)
    /\ tst' = TstPut(tst, key, value)
    /\ sizes' = [trie |-> sizes.trie + (IF TrieGet(trie, key) = NoValue THEN 1 ELSE 0),
                 tst |-> sizes.tst + (IF TstGet(tst, key) = NoValue THEN 1 ELSE 0)]
DeleteKey(key) ==
    /\ trie' = TrieDelete(trie, key)
    /\ tst' = TstDelete(tst, key)
    /\ sizes' = [trie |-> sizes.trie - (IF TrieGet(trie, key) # NoValue THEN 1 ELSE 0),
                 tst |-> sizes.tst - (IF TstGet(tst, key) # NoValue THEN 1 ELSE 0)]
CallTries ==
    /\ kind = "trie" /\ calls < MaxCalls
    /\ calls' = calls + 1
    /\ \E key \in TrieKeys : DeleteKey(key) \/ \E value \in Vals : PutKey(key, value)
    /\ UNCHANGED <<vars, data>>

MCNext ==
    \/ kind = "search" /\ Next /\ UNCHANGED <<data, tries>>
    \/ GrowArray \/ GrowWords \/ GrowText \/ CallTries

MCSpec == MCInit /\ [][MCNext]_allvars
-----------------------------------------------------------------------------
SameElements(a, b) == \A x \in Range(a) \cup Range(b) :
    Cardinality({i \in DOMAIN a : a[i] = x}) = Cardinality({i \in DOMAIN b : b[i] = x})
Outside(a, b, from, upto) == \A i \in DOMAIN a \ (from..upto) : a[i] = b[i]
InPlace(a, from, upto) ==
    {SelectionSort(a, from, upto), ShellSort(a, from, upto), QuickSort(a, from, upto), Quick3WaySort(a, from, upto)}
Stable(a, from, upto) ==
    {InsertionSort(a, from, upto), BinaryInsertionSort(a, from, upto),
     MergeSortTopDown(a, from, upto), MergeSortBottomUp(a, from, upto)}
KeepsTies(a) == \A i, j \in DOMAIN a : i < j /\ a[i].key = a[j].key => a[i].id < a[j].id

ArraysSorted(a) ==
    \A from \in {1, 2}, upto \in {Len(a) - 1, Len(a)} :
        0 < from /\ from <= upto =>
            /\ \A b \in InPlace(a, from, upto) \cup Stable(a, from, upto) :
                   Ordered(b, from, upto) /\ SameElements(a, b) /\ Outside(a, b, from, upto)
            /\ \A b \in Stable(a, from, upto) : KeepsTies(SubSeq(b, from, upto))

StringBefore(s, t) == Compare(s, 0, t, 0) < 0
Sharing(sa, s, n) == Cardinality({i \in DOMAIN sa : Len(sa[i]) >= n /\ Lcp(sa[i], 0, s, 0) >= n})
(* Strings are out of order only behind a common part that at most
   Cutoff + 1 of the strings have. *)
NearlyAscending(sa) ==
    \A i, j \in DOMAIN sa :
        i < j /\ StringBefore(sa[j], sa[i]) =>
            LET n == Lcp(sa[i], 0, sa[j], 0) IN n > 0 /\ Sharing(sa, sa[i], n) <= Cutoff + 1
WordsSorted(sa) ==
    /\ \A b \in {MstSort(sa), InPlaceMstSort(sa), QuickSortStrings(sa)} :
           SameElements(sa, b) /\ NearlyAscending(b)
    /\ (\A i \in DOMAIN sa : Len(sa[i]) = WordLength) =>
           LET b == LsdSort(sa, WordLength) IN
           /\ SameElements(sa, b)
           /\ \A i \in 2..Len(b) : ~ StringBefore(b[i], b[i - 1])

(* Every sort leaves its range ascending, keeps the elements and what lies *)
(* outside the range; insertion and merge sorts keep the order of equal    *)
(* keys.  The string sorts keep the strings; lsdsort orders them, the      *)
(* others up to small groups with a common part, which they leave in the   *)
(* order of one character (sort/sortalg.c, strings/stringsort/).           *)
SortsRight ==
    /\ kind = "array" => ArraysSorted(array)
    /\ kind = "words" => WordsSorted(words)
-----------------------------------------------------------------------------
Occurs(pat, txt, i) == i + Len(pat) <= Len(txt) /\ SubSeq(txt, i + 1, i + Len(pat)) = pat
First(txt, Test(_)) ==
    CHOOSE i \in 0..Len(txt) : (i = Len(txt) \/ Test(i)) /\ \A j \in 0..(i - 1) : ~ Test(j)
Patterns == Strings(Chars, MaxPattern) \ {<<>>}
SearchesRight(txt) ==
    \A pat \in Patterns :
        LET first == First(txt, LAMBDA i : Occurs(pat, txt, i))
            hashed == First(txt, LAMBDA i : /\ i + Len(pat) <= Len(txt)
                                            /\ Hash(SubSeq(txt, i + 1, i + Len(pat)), Len(pat))
                                                 = Hash(pat, Len(pat)))
        IN  /\ first = ViolenceSearch(pat, txt)
            /\ first = ViolenceSearchBack(pat, txt)
            /\ first = KmpSearch(pat, txt)
            /\ first = BoyerMooreSearch(pat, txt)
            /\ hashed = RabinKarpSearch(pat, txt) /\ hashed <= first

SuffixesRight(txt) ==
    LET index == SuffixIndex(txt)
        repeated == LongestRepeated(txt)
        common == LongestCommon(txt, Reverse(txt))
    IN  /\ Range(index) = 0..(Len(txt) - 1) /\ Len(index) = Len(txt)
        /\ repeated # <<>> => Cardinality({i \in 0..Len(txt) : Occurs(repeated, txt, i)}) > 1
        /\ \E i \in 0..Len(txt) : Occurs(common, txt, i)
        /\ \E i \in 0..Len(txt) : Occurs(common, Reverse(txt), i)
        /\ \A pat \in Patterns : SuffixRank(txt, index, pat, 0, Len(txt) - 1) \in 0..Len(txt)

(* Regular expressions as one or two items, each a letter or a group of
   alternatives with or without an operator, and the words they stand for. *)
Groups == {<< <<"a">> >>, << <<"b">> >>, << <<".">> >>, << <<"a", "b">> >>,
           << <<"a">>, <<"b">> >>, << <<"a", "b">>, <<"b">>, <<"a", ".">> >>}
Written(group, op) ==
    (IF Len(group) = 1 /\ Len(group[1]) = 1 THEN group[1]
     ELSE <<"(">> \o group[1]
          \o FlattenSeq([n \in 1..(Len(group) - 1) |-> <<"|">> \o group[n + 1]]) \o <<")">>)
    \o (IF op = "" THEN <<>> ELSE <<op>>)
Fits(pat, txt) == Len(pat) = Len(txt) /\ \A i \in DOMAIN pat : pat[i] \in {".", txt[i]}
Once(group, txt) == \E n \in DOMAIN group : Fits(group[n], txt)
RECURSIVE Often(_, _)
Often(group, txt) ==
    \/ txt = <<>>
    \/ \E n \in DOMAIN txt : /\ Once(group, SubSeq(txt, 1, n))
                            /\ Often(group, SubSeq(txt, n + 1, Len(txt)))
InItem(group, op, txt) ==
    CASE op = "*" -> Often(group, txt)
      [] op = "+" -> txt # <<>> /\ Often(group, txt)
      [] op = "?" -> txt = <<>> \/ Once(group, txt)
      [] OTHER -> Once(group, txt)
Operators == {"", "*", "+", "?"}
Lettered(txt) == [i \in DOMAIN txt |-> IF txt[i] = 1 THEN "a" ELSE "b"]
ExpressionsRight(txt) ==
    \A g1, g2 \in Groups, op1, op2 \in Operators :
        (\E n \in 0..Len(txt) : /\ InItem(g1, op1, SubSeq(txt, 1, n))
                                /\ InItem(g2, op2, SubSeq(txt, n + 1, Len(txt))))
        => Recognises(Written(g1, op1) \o Written(g2, op2), txt)

(* The exact searches find the first occurrence, Rabin-Karp the first      *)
(* window with the pattern's hash; the suffix index is a permutation, and  *)
(* what the substring functions return does occur twice, or in both texts; *)
(* an automaton accepts every word of its expression                       *)
(* (stringsearch.c, stringsuffixes.c, longestsubstring.c, nfaregexp.c).    *)
TextsRight ==
    kind = "text" =>
        /\ SearchesRight(text) /\ SuffixesRight(text)
        /\ 3 \notin Range(text) => ExpressionsRight(Lettered(text))
-----------------------------------------------------------------------------
(* Values of the uncleared counters of huffman_compress. *)
Stale == {[c \in 0..(ByteRadix - 1) |-> n] : n \in {-1, 0, 1}}
Counted(txt, stale) ==
    \A c \in Range(txt) : stale[c] + Cardinality({i \in DOMAIN txt : txt[i] = c}) > 0
(* What a code of least length costs, by Kraft's inequality. *)
Frequency(txt, c) == Cardinality({i \in DOMAIN txt : txt[i] = c})
TotalOver(S, F(_)) == FoldSet(LAMBDA c, n : n + F(c), 0, S)
LeastCost(txt) ==
    LET S == Range(txt)
        lengths == {l \in [S -> 1..Cardinality(S)] : TotalOver(S, LAMBDA c : 2 ^ (4 - l[c])) <= 2 ^ 4}
        Cost(l) == TotalOver(S, LAMBDA c : l[c] * Frequency(txt, c))
    IN  CHOOSE n \in {Cost(l) : l \in lengths} : \A l \in lengths : n <= Cost(l)
HuffmanCost(txt) ==
    LET codes == BuildCode(BuildTrie(Leaves(txt, [c \in 0..(ByteRadix - 1) |-> 0])), <<>>) IN
    TotalOver(Range(txt), LAMBDA c : Len(CodeOf(codes, c)) * Frequency(txt, c))

(* Runs of bits come back exactly, also at the limit of a byte; Huffman's  *)
(* code gives the text back whenever the counters of its characters are    *)
(* positive, whatever the others hold, and is as short as a code can be;   *)
(* the Lempel-Ziv-Welch code gives back the text or all but its last       *)
(* character (strings/compression/, utils/binaryin.c, utils/binaryout.c).  *)
CodesRight ==
    kind = "text" /\ text # <<>> =>
        /\ RunlenExpand(RunlenCompress(text)) = text
        /\ \A stale \in Stale : Counted(text, stale) =>
               HuffmanExpand(HuffmanCompress(text, stale)) = text
        /\ Cardinality(Range(text)) > 1 => HuffmanCost(text) = LeastCost(text)
        /\ LzwExpand(LzwCompress(text), <<>>) \in {text, Front(text)}
-----------------------------------------------------------------------------
Values(Of(_)) == [key \in TrieKeys |-> Of(key)]
KeysOf(value) == {key \in TrieKeys : value[key] # NoValue}
Lists(seq, S) == Range(seq) = S /\ \A i \in 2..Len(seq) : StringBefore(seq[i - 1], seq[i])
TriePatterns == {pat \in Strings(Letters \cup {Dot}, TrieKeyLength) : pat # <<>>}
(* The queries of both tries answer from the keys that they hold. *)
QueriesAnswer(t, root) ==
    LET tkeys == KeysOf(Values(LAMBDA key : TrieGet(t, key)))
        skeys == KeysOf(Values(LAMBDA key : TstGet(root, key)))
        Behind(keys, prefix) == {key \in keys : IsPrefix(prefix, key)}
        FitsPat(key, pat) == Len(key) = Len(pat) /\ \A i \in DOMAIN key : pat[i] \in {Dot, key[i]}
    IN  /\ Lists(TrieKeysPrefix(t, <<>>), tkeys) /\ Lists(TstKeys(root), skeys)
        /\ \A key \in TrieKeys :
               /\ Lists(TrieKeysPrefix(t, key), Behind(tkeys, key))
               /\ Lists(TstKeysPrefix(root, key), Behind(skeys, key))
               /\ LET len == TrieLongestPrefix(t, key)
                      held == {n \in DOMAIN key : SubSeq(key, 1, n) \in tkeys} IN
                  IF held = {} THEN len = -1 ELSE len \in held /\ \A n \in held : n <= len
        /\ \A pat \in TriePatterns :
               /\ Lists(TrieKeysMatch(t, pat), {key \in tkeys : FitsPat(key, pat)})
               /\ Lists(TstKeysMatch(root, pat), {key \in skeys : FitsPat(key, pat)})
        /\ DOMAIN t = UNION {Prefixes(key) : key \in tkeys}

BothNeighbours(root, key) ==
    LET n == TstNode(root, key, 0) IN n.left # Nil /\ n.right # Nil /\ n.mid = Nil
OthersKept(before, after, key) == \A other \in TrieKeys \ {key} : after[other] = before[other]
TriesStep ==
    LET Trie(t) == Values(LAMBDA key : TrieGet(t, key))
        Tst(root) == Values(LAMBDA key : TstGet(root, key))
    IN  /\ QueriesAnswer(trie', tst')
        /\ sizes'.trie = Cardinality(KeysOf(Trie(trie')))
        /\ \E key \in TrieKeys :
               /\ OthersKept(Trie(trie), Trie(trie'), key)
               /\ OthersKept(Tst(tst), Tst(tst'), key)
               /\ \/ /\ Trie(trie')[key] \in Vals
                     /\ Tst(tst')[key] = IF Tst(tst)[key] # NoValue THEN Tst(tst)[key]
                                         ELSE Trie(trie')[key]
                  \/ /\ Trie(trie')[key] = NoValue
                     /\ \/ Tst(tst')[key] = NoValue
                        \/ BothNeighbours(tst, key) /\ tst' = tst

(* Each call to the tries changes one key alone, leaves no node without a  *)
(* key below in the R-way trie, and keeps every query right; the ternary   *)
(* trie overwrites no value, and it deletes a key unless the key's node    *)
(* has both neighbours and nothing below (trie.c, tstrie.c).               *)
TriesRight == [][kind = "trie" => TriesStep]_tries
=============================================================================
