------------------------------- MODULE Strings -------------------------------
(***************************************************************************)
(* strings/: five searches for a pattern in a text, regular expressions    *)
(* as automata, symbol tables of strings, and compression.                 *)
(***************************************************************************)
EXTENDS Integers, Sequences, SequencesExt, FiniteSets, FiniteSetsExt

CONSTANTS Radix,                 \* STRING_RADIX
          Prime                  \* a prime of get_prime_number's table
ASSUME RadixAssumption == Radix \in Nat \ {0}
ASSUME PrimeAssumption == Prime \in Nat \ {0}

CONSTANTS Letters,               \* the characters of keys
          Dot                    \* the wildcard '.' of patterns
ASSUME DotAssumption == Letters \subseteq Nat /\ Dot \in Nat \ Letters

CONSTANTS ByteBits,      \* 8, the bits of a byte and LGR
          LongBytes,     \* 8, the bytes of a long
          Width          \* WIDTH, the bits of a codeword

ByteRadix == 2 ^ ByteBits        \* RADIX of huffman.c and runlength.c
LzwRadix == 2 ^ (ByteBits - 1)   \* RADIX of lempelzivwelch.c, which ends a file
LzwLength == 2 ^ Width           \* LENGTH
ASSUME CodesAssumption ==
    /\ ByteBits \in Nat \ {0} /\ LongBytes \in Nat \ {0}
    /\ Width \in Nat /\ Width >= ByteBits
    /\ Letters = 1..(LzwRadix - 1)
-----------------------------------------------------------------------------
(* strings/stringsearch/stringsearch.c: every search returns the first     *)
(* position found, counted from 0, or the length of the text.  Strings are *)
(* sequences of positive numbers below Radix.                              *)
At(s, d) == IF d < Len(s) THEN s[d + 1] ELSE -1
Greater(m, n) == IF m > n THEN m ELSE n

RECURSIVE Violence(_, _, _)
Violence(pat, txt, i) ==
    IF i > Len(txt) - Len(pat) THEN Len(txt)
    ELSE IF \A j \in 0..(Len(pat) - 1) : At(txt, i + j) = At(pat, j) THEN i
    ELSE Violence(pat, txt, i + 1)
ViolenceSearch(pat, txt) == Violence(pat, txt, 0)

(* After a mismatch i goes back by j, and the loop's i++ moves it on. *)
RECURSIVE ViolenceBack(_, _, _, _)
ViolenceBack(pat, txt, i, j) ==
    IF j = Len(pat) THEN i - Len(pat)
    ELSE IF i >= Len(txt) THEN Len(txt)
    ELSE IF At(txt, i) = At(pat, j) THEN ViolenceBack(pat, txt, i + 1, j + 1)
    ELSE ViolenceBack(pat, txt, i - j + 1, 0)
ViolenceSearchBack(pat, txt) == ViolenceBack(pat, txt, 0, 0)

(* dfa[c][j]: the state after reading c in state j; column j copies column
   x, the state the automaton is in after reading pat[1..j-1]. *)
RECURSIVE DfaFrom(_, _, _, _)
DfaFrom(pat, dfa, x, j) ==
    IF j >= Len(pat) THEN dfa
    ELSE DfaFrom(pat,
                 [c \in 0..(Radix - 1) |->
                     [dfa[c] EXCEPT ![j] = IF c = At(pat, j) THEN j + 1 ELSE dfa[c][x]]],
                 dfa[At(pat, j)][x], j + 1)
Dfa(pat) ==
    DfaFrom(pat, [c \in 0..(Radix - 1) |-> [j \in 0..(Len(pat) - 1) |->
                     IF j = 0 /\ c = At(pat, 0) THEN 1 ELSE 0]], 0, 1)
RECURSIVE DfaRun(_, _, _, _)
DfaRun(dfa, txt, i, j) ==
    IF i < Len(txt) /\ j \in DOMAIN dfa[0] THEN DfaRun(dfa, txt, i + 1, dfa[At(txt, i)][j])
    ELSE <<i, j>>
KmpSearch(pat, txt) ==
    LET end == DfaRun(Dfa(pat), txt, 0, 0) IN
    IF end[2] = Len(pat) THEN end[1] - Len(pat) ELSE Len(txt)

(* The window moves so that the mismatched character of the text meets its
   last place in the pattern, or by 1. *)
\* mutant: the first place, as if right[] were filled from the end
FirstPlace(pat, c) ==
    LET places == {j \in 0..(Len(pat) - 1) : At(pat, j) = c} IN
    IF places = {} THEN -1 ELSE CHOOSE j \in places : \A k \in places : j <= k
LastPlace(pat, c) ==
    LET places == {j \in 0..(Len(pat) - 1) : At(pat, j) = c} IN
    IF places = {} THEN -1 ELSE CHOOSE j \in places : \A k \in places : k <= j
RECURSIVE BoyerMoore(_, _, _)
BoyerMoore(pat, txt, i) ==
    LET wrong == {j \in 0..(Len(pat) - 1) : At(pat, j) # At(txt, i + j)}
        j == CHOOSE m \in wrong : \A n \in wrong : n <= m
    IN  IF i > Len(txt) - Len(pat) THEN Len(txt)
        ELSE IF wrong = {} THEN i
        ELSE BoyerMoore(pat, txt, i + Greater(1, j - LastPlace(pat, At(txt, i + j))))
BoyerMooreSearch(pat, txt) == BoyerMoore(pat, txt, 0)

RECURSIVE Hash(_, _)
Hash(key, len) == IF len = 0 THEN 0 ELSE (Radix * Hash(key, len - 1) + At(key, len - 1)) % Prime
RECURSIVE Power(_)
Power(n) == IF n <= 0 THEN 1 ELSE (Power(n - 1) * Radix) % Prime
\* check is called with length 0 and compares nothing: equal hashes decide
Rolled(thash, rm, out, in) ==
    (((thash + Prime - ((rm * out) % Prime)) % Prime) * Radix + in) % Prime
RECURSIVE Roll(_, _, _, _)
Roll(pat, txt, thash, i) ==
    LET next == Rolled(thash, Power(Len(pat) - 1), At(txt, i - Len(pat)), At(txt, i)) IN
    IF i >= Len(txt) THEN Len(txt)
    ELSE IF next = Hash(pat, Len(pat)) THEN i - Len(pat) + 1
    ELSE Roll(pat, txt, next, i + 1)
RabinKarpSearch(pat, txt) ==
    IF Len(txt) < Len(pat) THEN Len(txt)
    ELSE IF Hash(txt, Len(pat)) = Hash(pat, Len(pat)) THEN 0
    ELSE Roll(pat, txt, Hash(txt, Len(pat)), Len(pat))
-----------------------------------------------------------------------------
(* Regular expressions and the texts for them are sequences of strings of  *)
(* one character.  State i stands before character i of the expression.    *)
Item(re, i) == re[i + 1]

(* nfa_regexp_init's loop body.  A ")" pops every operator of the stack,   *)
(* whatever group it belongs to, and lp ends as the last "(" popped.       *)
Popped(re, i, ops) ==
    LET bars == {o \in ops : Item(re, o) = "|"}
        opens == {o \in ops : Item(re, o) = "("}
        lp == IF opens = {} THEN i ELSE CHOOSE o \in opens : \A p \in opens : o <= p
    IN  [lp |-> lp, arcs |-> {<<b, i>> : b \in bars} \cup {<<lp, b + 1>> : b \in bars}]
Closure(re, i, lp) ==
    IF i + 1 >= Len(re) THEN {}
    ELSE CASE Item(re, i + 1) = "*" -> {<<lp, i + 1>>, <<i + 1, lp>>}
           [] Item(re, i + 1) = "+" -> {<<i + 1, lp>>}
           [] Item(re, i + 1) = "?" -> {<<lp, i + 1>>}
           [] OTHER -> {}
RECURSIVE Epsilon(_, _, _, _)
Epsilon(re, i, ops, arcs) ==
    LET ch == Item(re, i)
        popped == IF ch = ")" THEN Popped(re, i, ops) ELSE [lp |-> i, arcs |-> {}]
    IN  IF i >= Len(re) THEN arcs
        ELSE Epsilon(re, i + 1,
                     CASE ch \in {"(", "|"} -> ops \cup {i}
                       [] ch = ")" -> {}
                       [] OTHER -> ops,
                     arcs \cup popped.arcs \cup Closure(re, i, popped.lp)
                          \cup (IF ch \in {"(", "*", "+", "?", ")"} THEN {<<i, i + 1>>} ELSE {}))
EpsilonArcs(re) == Epsilon(re, 0, {}, {})

RECURSIVE Reached(_, _)
Reached(arcs, states) ==
    LET more == {a[2] : a \in {b \in arcs : b[1] \in states}} \ states IN
    IF more = {} THEN states ELSE Reached(arcs, states \cup more)

(* A character that no state accepts is passed over: the states stay. *)
Match(re, pc, ch) == {w + 1 : w \in {v \in pc : v < Len(re) /\ Item(re, v) \in {ch, "."}}}
RECURSIVE Recognise(_, _, _, _)
Recognise(re, arcs, pc, txt) ==
    IF txt = <<>> THEN Len(re) \in pc
    ELSE LET match == Match(re, pc, Head(txt)) IN
         Recognise(re, arcs, IF match = {} THEN pc ELSE Reached(arcs, match), Tail(txt))
Recognises(re, txt) ==
    LET arcs == EpsilonArcs(re) IN Recognise(re, arcs, Reached(arcs, {0}), txt)
-----------------------------------------------------------------------------
(* strings/stringsearch/trie.c and tstrie.c: symbol tables of strings, as  *)
(* a tree with a child for every character and as a ternary tree.  A       *)
(* string is a sequence of characters (numbers); NoValue is the value -1   *)
(* of a node that ends no key.                                             *)
NoValue == -1
LettersInOrder == SetToSortSeq(Letters, <)
ForLetters(Op(_)) == FlattenSeq([n \in DOMAIN LettersInOrder |-> Op(LettersInOrder[n])])
-----------------------------------------------------------------------------
(* The R-way trie: its nodes are the strings that lead to them, t[p] the   *)
(* value of node p.  The empty function is a null root.                    *)
NoNodes == [p \in {} |-> NoValue]
TrieContains(t, key) == key \in DOMAIN t
TrieGet(t, key) == IF key \in DOMAIN t THEN t[key] ELSE NoValue

TriePut(t, key, value) ==
    [p \in DOMAIN t \cup Prefixes(key) |-> IF p = key THEN value ELSE TrieGet(t, p)]

(* On the way back from the key every node without value and children is
   freed. *)
TrieDelete(t, key) ==
    LET path == Prefixes(key)
        left == [p \in DOMAIN t |-> IF p = key THEN NoValue ELSE t[p]]
        Needed(p) == \E q \in DOMAIN t : /\ IsPrefix(p, q)
                                         /\ q \notin path \/ left[q] # NoValue
    IN  [p \in {q \in DOMAIN t : q \in path => Needed(q)} |-> left[p]]

RECURSIVE TrieCollect(_, _)
TrieCollect(t, p) ==
    IF p \notin DOMAIN t THEN <<>>
    ELSE (IF t[p] # NoValue THEN <<p>> ELSE <<>>)
         \o ForLetters(LAMBDA c : TrieCollect(t, Append(p, c)))
TrieKeysPrefix(t, prefix) == TrieCollect(t, prefix)

RECURSIVE TrieCollectPat(_, _, _)
TrieCollectPat(t, p, pat) ==
    IF p \notin DOMAIN t THEN <<>>
    ELSE IF Len(p) = Len(pat) THEN (IF t[p] # NoValue THEN <<p>> ELSE <<>>)
    ELSE IF At(pat, Len(p)) = Dot
         THEN ForLetters(LAMBDA c : TrieCollectPat(t, Append(p, c), pat))
         ELSE TrieCollectPat(t, Append(p, At(pat, Len(p))), pat)
TrieKeysMatch(t, pat) == TrieCollectPat(t, <<>>, pat)

RECURSIVE LongestKey(_, _, _, _)
LongestKey(t, query, d, len) ==
    LET p == SubSeq(query, 1, d)
        now == IF TrieGet(t, p) # NoValue THEN d ELSE len
    IN  IF p \notin DOMAIN t THEN len
        ELSE IF d = Len(query) THEN now
        ELSE LongestKey(t, query, d + 1, now)
TrieLongestPrefix(t, query) == LongestKey(t, query, 0, -1)
-----------------------------------------------------------------------------
(* The ternary trie: a node leads to smaller, to equal and to larger       *)
(* characters.                                                             *)
Nil == <<>>
Leaf(ch) == [ch |-> ch, left |-> Nil, mid |-> Nil, right |-> Nil, value |-> NoValue]

RECURSIVE TstNode(_, _, _)
TstNode(n, key, d) ==
    IF n = Nil THEN Nil
    ELSE IF At(key, d) < n.ch THEN TstNode(n.left, key, d)
    ELSE IF At(key, d) > n.ch THEN TstNode(n.right, key, d)
    ELSE IF d < Len(key) - 1 THEN TstNode(n.mid, key, d + 1)
    ELSE n
TstGet(root, key) ==
    LET n == TstNode(root, key, 0) IN IF key = <<>> \/ n = Nil THEN NoValue ELSE n.value

RECURSIVE TstPutNode(_, _, _, _)
TstPutNode(node, key, value, d) ==
    LET c == At(key, d)
        n == IF node = Nil THEN Leaf(c) ELSE node
    IN  IF c < n.ch THEN [n EXCEPT !.left = TstPutNode(n.left, key, value, d)]
        ELSE IF c > n.ch THEN [n EXCEPT !.right = TstPutNode(n.right, key, value, d)]
        ELSE IF d < Len(key) - 1 THEN [n EXCEPT !.mid = TstPutNode(n.mid, key, value, d + 1)]
        ELSE [n EXCEPT !.value = value]
\* a key that is there keeps its value
TstPut(root, key, value) ==
    IF TstGet(root, key) # NoValue THEN root ELSE TstPutNode(root, key, value, 0)

RECURSIVE TstCollect(_, _)
TstCollect(n, prefix) ==
    IF n = Nil THEN <<>>
    ELSE LET here == Append(prefix, n.ch) IN
         TstCollect(n.left, prefix)
         \o (IF n.value # NoValue THEN <<here>> ELSE <<>>)
         \o TstCollect(n.mid, here)
         \o TstCollect(n.right, prefix)
TstKeys(root) == TstCollect(root, <<>>)
TstKeysPrefix(root, prefix) ==
    LET n == TstNode(root, prefix, 0) IN
    IF n = Nil THEN <<>>
    ELSE (IF n.value # NoValue THEN <<prefix>> ELSE <<>>) \o TstCollect(n.mid, prefix)

RECURSIVE TstCollectPat(_, _, _)
TstCollectPat(n, prefix, pat) ==
    LET d == Len(prefix)
        c == At(pat, d)
        here == Append(prefix, n.ch)
        Meets(related) == c = Dot \/ related
    IN  IF n = Nil THEN <<>>
        ELSE (IF Meets(c < n.ch) THEN TstCollectPat(n.left, prefix, pat) ELSE <<>>)
             \o (IF Meets(c = n.ch) /\ d = Len(pat) - 1 /\ n.value # NoValue THEN <<here>> ELSE <<>>)
             \o (IF Meets(c = n.ch) /\ d < Len(pat) - 1 THEN TstCollectPat(n.mid, here, pat) ELSE <<>>)
             \o (IF Meets(c > n.ch) THEN TstCollectPat(n.right, prefix, pat) ELSE <<>>)
TstKeysMatch(root, pat) == TstCollectPat(root, <<>>, pat)

(* The longest prefix of the query that leads to a node, key or not. *)
RECURSIVE LongestPath(_, _, _)
LongestPath(n, query, i) ==
    IF n = Nil \/ i = Len(query) THEN i
    ELSE IF At(query, i) < n.ch THEN LongestPath(n.left, query, i)
    ELSE IF At(query, i) > n.ch THEN LongestPath(n.right, query, i)
    ELSE LongestPath(n.mid, query, i + 1)
TstLongestPrefix(root, query) == LongestPath(root, query, 0)

\* mutant: the node is unlinked whatever lies below it
UnlinkedAlways(n) ==
    IF n.left = Nil THEN n.right ELSE IF n.right = Nil THEN n.left ELSE n
(* What becomes of the node of the last character.  One with a smaller and
   a larger neighbour and nothing below stays as it is. *)
Unlinked(n) ==
    IF n.mid # Nil /\ n.value # NoValue THEN [n EXCEPT !.value = NoValue]
    ELSE IF n.left = Nil THEN n.right
    ELSE IF n.right = Nil THEN n.left
    ELSE n
RECURSIVE TstDeleteNode(_, _, _)
TstDeleteNode(n, key, d) ==
    IF n = Nil THEN Nil
    ELSE IF At(key, d) < n.ch THEN [n EXCEPT !.left = TstDeleteNode(n.left, key, d)]
    ELSE IF At(key, d) > n.ch THEN [n EXCEPT !.right = TstDeleteNode(n.right, key, d)]
    ELSE IF d < Len(key) - 1 THEN [n EXCEPT !.mid = TstDeleteNode(n.mid, key, d + 1)]
    ELSE Unlinked(n)
\* then the nodes of its prefixes, as long as no key is below them
RECURSIVE TstPruned(_, _)
TstPruned(root, buf) ==
    IF Len(buf) <= 1 \/ TstKeysPrefix(root, Front(buf)) # <<>> THEN root
    ELSE TstPruned(TstDeleteNode(root, Front(buf), 0), Front(buf))
TstDelete(root, key) ==
    IF TstGet(root, key) = NoValue THEN root
    ELSE TstPruned(TstDeleteNode(root, key, 0), key)
-----------------------------------------------------------------------------
(* utils/binaryin.c and binaryout.c, streams of bits over files of bytes,  *)
(* and the three compressions of strings/compression made with them.  A    *)
(* file is a sequence of bytes of ByteBits bits; a text holds characters   *)
(* that are positive as signed chars, and lies in memory before a byte 0.  *)
Bit(x, i) == (x \div (2 ^ i)) % 2
-----------------------------------------------------------------------------
(* Output: the bytes written and a buffer of size bits. *)
NewOutput == [file |-> <<>>, buffer |-> 0, size |-> 0]
ClearBuffer(bo) ==
    IF bo.size = 0 THEN bo
    ELSE [file |-> Append(bo.file, bo.buffer * 2 ^ (ByteBits - bo.size)), buffer |-> 0, size |-> 0]
OutputFile(bo) == ClearBuffer(bo).file
WriteBool(bo, bit) ==
    LET next == [bo EXCEPT !.buffer = 2 * @ + bit, !.size = @ + 1] IN
    IF next.size = ByteBits THEN ClearBuffer(next) ELSE next
WriteBits(bo, x, r) ==           \* boutput_write_char_r, boutput_write_int_r
    FoldLeft(LAMBDA b, i : WriteBool(b, Bit(x, r - i)), bo, [i \in 1..r |-> i])
WriteChar(bo, x) ==
    IF bo.size = 0 THEN [bo EXCEPT !.file = Append(@, x)] ELSE WriteBits(bo, x, ByteBits)
WriteLong(bo, x) ==
    FoldLeft(LAMBDA b, i : WriteChar(b, (x \div ByteRadix ^ (LongBytes - i)) % ByteRadix),
             bo, [i \in 1..LongBytes |-> i])

(* Input: the bytes not read, the byte in the buffer and its bits left. *)
EOF == -1
FillBuffer(file) ==
    IF file = <<>> THEN [file |-> <<>>, buffer |-> EOF, size |-> ByteBits]
    ELSE [file |-> Tail(file), buffer |-> Head(file), size |-> ByteBits]
OpenInput(file) == FillBuffer(file)
IsEmpty(bi) == bi.buffer = EOF
ReadBool(bi) ==
    [value |-> Bit(bi.buffer, bi.size - 1),
     in |-> IF bi.size = 1 THEN FillBuffer(bi.file) ELSE [bi EXCEPT !.size = @ - 1]]
\* mutant: the number of bits left is not restored
ReadCharFull(bi) ==
    LET next == FillBuffer(bi.file) IN
    IF bi.size = ByteBits THEN [value |-> bi.buffer, in |-> next]
    ELSE [value |-> (bi.buffer * 2 ^ (ByteBits - bi.size) + next.buffer \div 2 ^ bi.size) % ByteRadix,
          in |-> next]
\* an unaligned byte: the bits left in the buffer, and the next byte above
\* the same number of bits
ReadChar(bi) ==
    LET next == FillBuffer(bi.file) IN
    IF bi.size = ByteBits THEN [value |-> bi.buffer, in |-> next]
    ELSE [value |-> (bi.buffer * 2 ^ (ByteBits - bi.size) + next.buffer \div 2 ^ bi.size) % ByteRadix,
          in |-> [next EXCEPT !.size = bi.size]]
Appended(r, one, base) == [value |-> r.value * base + one.value, in |-> one.in]
ReadBits(bi, r) ==               \* binput_read_char_r, binput_read_int_r
    FoldLeft(LAMBDA a, i : Appended(a, ReadBool(a.in), 2), [value |-> 0, in |-> bi],
             [i \in 1..r |-> i])
ReadLong(bi) ==
    FoldLeft(LAMBDA a, i : Appended(a, ReadChar(a.in), ByteRadix), [value |-> 0, in |-> bi],
             [i \in 1..LongBytes |-> i])
-----------------------------------------------------------------------------
(* Run lengths: runs of the bits 0 and 1 in turn, each in one byte; a run  *)
(* that is full is followed by an empty one of the other bit.              *)
RECURSIVE RunsOf(_, _, _, _)
RunsOf(bi, bo, run, old) ==
    LET r == ReadBool(bi) IN
    IF IsEmpty(bi) THEN WriteChar(bo, run)
    ELSE IF r.value # old THEN RunsOf(r.in, WriteChar(bo, run), 1, 1 - old)
    ELSE IF run = ByteRadix - 1 THEN RunsOf(r.in, WriteChar(WriteChar(bo, run), 0), 1, old)
    ELSE RunsOf(r.in, bo, run + 1, old)
RunlenCompress(file) == OutputFile(RunsOf(OpenInput(file), NewOutput, 0, 0))
RECURSIVE RunsBack(_, _, _)
RunsBack(bi, bo, b) ==
    LET run == ReadBits(bi, ByteBits) IN
    IF IsEmpty(bi) THEN bo
    ELSE RunsBack(run.in, FoldLeft(LAMBDA o, i : WriteBool(o, b), bo, [i \in 1..run.value |-> i]),
                  1 - b)
RunlenExpand(file) == OutputFile(RunsBack(OpenInput(file), NewOutput, 0))
-----------------------------------------------------------------------------
(* Huffman's code.  The queue hands out a node of least frequency.  The    *)
(* counters are not cleared: stale[c] is what the memory of freq[c] held.  *)
HLeaf(c, freq) == [ch |-> c, freq |-> freq, kids |-> <<>>]
HPair(l, r) == [ch |-> 0, freq |-> l.freq + r.freq, kids |-> <<l, r>>]
IsLeaf(node) == node.kids = <<>>
Leaves(text, stale) ==
    LET freq == [c \in 0..(ByteRadix - 1) |->
                    stale[c] + Cardinality({i \in DOMAIN text : text[i] = c})] IN
    {HLeaf(c, freq[c]) : c \in {d \in 0..(ByteRadix - 1) : freq[d] > 0}}
Least(nodes) == CHOOSE n \in nodes : \A m \in nodes : n.freq <= m.freq
RECURSIVE BuildTrie(_)
BuildTrie(nodes) ==
    IF Cardinality(nodes) = 1 THEN Least(nodes)
    ELSE LET left == Least(nodes)
             right == Least(nodes \ {left})
         IN  BuildTrie((nodes \ {left, right}) \cup {HPair(left, right)})
\* the characters below a node with their codes
RECURSIVE BuildCode(_, _)
BuildCode(node, code) ==
    IF IsLeaf(node) THEN {<<node.ch, code>>}
    ELSE BuildCode(node.kids[1], Append(code, 0)) \cup BuildCode(node.kids[2], Append(code, 1))
CodeOf(codes, c) ==
    IF \E p \in codes : p[1] = c THEN (CHOOSE p \in codes : p[1] = c)[2] ELSE <<>>
RECURSIVE WriteTrie(_, _)
WriteTrie(node, bo) ==
    IF IsLeaf(node) THEN WriteBits(WriteBool(bo, 1), node.ch, ByteBits)
    ELSE WriteTrie(node.kids[2], WriteTrie(node.kids[1], WriteBool(bo, 0)))
HuffmanCompress(text, stale) ==
    LET root == BuildTrie(Leaves(text, stale))
        codes == BuildCode(root, <<>>)
        bits == FlattenSeq([i \in DOMAIN text |-> CodeOf(codes, text[i])])
        head == WriteLong(WriteTrie(root, NewOutput), Len(text))
    IN  OutputFile(FoldLeft(WriteBool, head, bits))

RECURSIVE ReadTrie(_)
ReadTrie(bi) ==
    LET isleaf == ReadBool(bi) IN
    IF isleaf.value = 1
    THEN LET c == ReadBits(isleaf.in, ByteBits) IN [value |-> HLeaf(c.value, -1), in |-> c.in]
    ELSE LET left == ReadTrie(isleaf.in)
             right == ReadTrie(left.in)
         IN  [value |-> HPair(left.value, right.value), in |-> right.in]
RECURSIVE Decode(_, _, _, _, _)
Decode(root, x, bi, len, out) ==
    IF len = 0 THEN out
    ELSE IF IsLeaf(x) THEN Decode(root, root, bi, len - 1, Append(out, x.ch))
    ELSE LET bit == ReadBool(bi) IN Decode(root, x.kids[bit.value + 1], bit.in, len, out)
HuffmanExpand(file) ==
    LET root == ReadTrie(OpenInput(file))
        len == ReadLong(root.in)
    IN  Decode(root.value, root.value, len.in, len.value, <<>>)
-----------------------------------------------------------------------------
(* Lempel-Ziv-Welch: the codewords below LzwRadix are the characters.      *)
(* lzw_compress stops when one character is left.                          *)
Characters == FoldLeft(LAMBDA st, c : TstPut(st, <<c>>, c), Nil, [c \in 1..(LzwRadix - 1) |-> c])
RECURSIVE CodewordsFrom(_, _, _, _)
CodewordsFrom(st, code, input, bo) ==
    LET plen == TstLongestPrefix(st, input)
        coded == WriteBits(bo, TstGet(st, SubSeq(input, 1, plen)), Width)
        rest == SubSeq(input, plen + 1, Len(input))
    IN  IF Len(input) <= 1 THEN WriteBits(bo, LzwRadix, Width)
        ELSE IF rest # <<>> /\ code < LzwLength
        THEN CodewordsFrom(TstPut(st, SubSeq(input, 1, plen + 1), code), code + 1, rest, coded)
        ELSE CodewordsFrom(st, code, rest, coded)
LzwCompress(text) == OutputFile(CodewordsFrom(Characters, LzwRadix + 1, text, NewOutput))

(* A codeword that is not in the table yet can only be the next one; what
   the code copies for it first, stale, is memory that was never written. *)
Phrase(st, codeword, val, stale) ==
    IF codeword = Len(st) + 1 THEN stale \o val \o <<val[1]>> ELSE st[codeword]
RECURSIVE Phrases(_, _, _, _, _)
Phrases(st, val, bi, out, stale) ==
    LET codeword == ReadBits(bi, Width)
        tmp == Phrase(st, codeword.value, val, stale)
    IN  IF codeword.value = LzwRadix THEN out \o val
        ELSE Phrases(IF Len(st) + 1 < LzwLength THEN Append(st, Append(val, tmp[1])) ELSE st,
                     tmp, codeword.in, out \o val, stale)
LzwExpand(file, stale) ==
    LET first == ReadBits(OpenInput(file), Width) IN
    IF first.value = LzwRadix THEN <<>>
    ELSE Phrases([c \in 1..LzwRadix |-> <<c>>], <<first.value>>, first.in, <<>>, stale)
=============================================================================
