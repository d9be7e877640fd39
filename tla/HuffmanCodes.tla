---------------------------- MODULE HuffmanCodes -----------------------------
(***************************************************************************)
(* The prefix codes of a group: from how often each symbol occurs to the    *)
(* lengths of its code, the lengths written with run lengths and a prefix   *)
(* code of their own, and the tables the decoder looks symbols up in.  The  *)
(* five codes of a group go through this one after the other.               *)
(***************************************************************************)
EXTENDS Integers, SequencesExt, FiniteSetsExt

CONSTANTS Groups,                \* groups: five populations, and the bits that follow
          MaxAllowedCodeLength,  \* 15
          HuffmanTableBits,      \* 8
          HuffmanPackedBits      \* 6

CodeLengthCodes == 19
LengthsTableBits == 7
MaxLengthsCode == 7
DefaultCodeLength == 8
CodeLengthCodeOrder == <<17, 18, 0, 1, 2, 3, 4, 5, 16, 6, 7, 8, 9, 10, 11, 12, 13, 14, 15>>

\* A code is a function from symbols 0..n-1 to lengths; no length, no code.
Coded(lengths) == {s \in DOMAIN lengths : lengths[s] > 0}
Longest(lengths) == Max({lengths[s] : s \in DOMAIN lengths})
InOrder(code, Is(_)) == SelectSeq([i \in 1..Cardinality(DOMAIN code) |-> i - 1], Is)

VARIABLES group, channel, stage, countMin, lengths, written, bits, pos, read, table, decoded, packed

vars == <<group, channel, stage, countMin, lengths, written, bits, pos, read, table, decoded, packed>>

\* A population holds the symbols that occur.
Population == group.pops[channel]
AlphabetSize == group.sizes[channel]

-----------------------------------------------------------------------------
(* Lengths *)

\* The two nodes with the least counts become one, the oldest first among
\* equals, and every symbol below them is a bit deeper.
Least(nodes) == CHOOSE a \in nodes : \A b \in nodes : a.count < b.count \/ (a.count = b.count /\ a.idx <= b.idx)
\* mutant: the node above two others counts as one of them.
JoinTwoLight(nodes, a, b, next) ==
    (nodes \ {a, b}) \cup
        {[idx |-> next, count |-> a.count,
          depth |-> [s \in DOMAIN a.depth \cup DOMAIN b.depth |->
                        1 + (IF s \in DOMAIN a.depth THEN a.depth[s] ELSE b.depth[s])]]}
JoinTwo(nodes, a, b, next) ==
    (nodes \ {a, b}) \cup
        {[idx |-> next, count |-> a.count + b.count,
          depth |-> [s \in DOMAIN a.depth \cup DOMAIN b.depth |->
                        1 + (IF s \in DOMAIN a.depth THEN a.depth[s] ELSE b.depth[s])]]}
JoinLeast(nodes, next) == JoinTwo(nodes, Least(nodes), Least(nodes \ {Least(nodes)}), next)
Leaves(counts, least) ==
    {[idx |-> Cardinality({t \in DOMAIN counts : t < s}), count |-> Max({counts[s], least}),
      depth |-> [t \in {s} |-> 0]] : s \in DOMAIN counts}

\* buildTreeAndExtractLengths, with counts of at least so many.
TreeDepths(counts, least) ==
    LET n == Cardinality(DOMAIN counts)
        nodes[k \in 0..n - 1] ==
            IF k = 0 THEN Leaves(counts, least) ELSE JoinLeast(nodes[k - 1], n + k - 1)
    IN  (CHOOSE root \in nodes[n - 1] : TRUE).depth
Spread(depth, size) == [s \in 0..size - 1 |-> IF s \in DOMAIN depth THEN depth[s] ELSE 0]
LengthsAt(counts, size, least) ==
    IF Cardinality(DOMAIN counts) <= 2 THEN [s \in 0..size - 1 |-> IF s \in DOMAIN counts THEN 1 ELSE 0]
    ELSE Spread(TreeDepths(counts, least), size)

\* For the code of the lengths the search for a floor of the counts is one step.
CreateHuffmanTree(counts, size, limit) ==
    LET fits(k) == Longest(LengthsAt(counts, size, 2^k)) <= limit
    IN  LengthsAt(counts, size, 2^(CHOOSE k \in 0..20 : fits(k) /\ \A l \in 0..k - 1 : ~fits(l)))

\* Codes in the order of lengths, then symbols; the first bit comes first.
CountOfLength(code, l) == IF l = 0 THEN 0 ELSE Cardinality({s \in DOMAIN code : code[s] = l})
FirstCode(code, l) ==
    LET first[b \in 0..l] == IF b = 0 THEN 0 ELSE 2 * (first[b - 1] + CountOfLength(code, b - 1))
    IN  first[l]
CanonicalCode(code, s) ==
    FirstCode(code, code[s]) + Cardinality({t \in DOMAIN code : t < s /\ code[t] = code[s]})
BitsOfCode(code, s) ==
    [i \in 1..code[s] |-> (CanonicalCode(code, s) \div 2^(code[s] - i)) % 2]

\* A code of one symbol takes no bits (clearHuffmanTreeIfOnlyOneSymbol).
ClearIfOnlyOneSymbol(code) ==
    IF Cardinality(Coded(code)) > 1 THEN code ELSE [s \in DOMAIN code |-> 0]

-----------------------------------------------------------------------------
(* Writing a code *)

WriteBits(v, n) == [i \in 1..n |-> (v \div 2^(i - 1)) % 2]
Token(code, extra) == [code |-> code, extra |-> extra]
Repeat(token, n) == [i \in 1..n |-> token]

\* mutant: eleven zeros in the three bits of code 17.
CodeRepeatedZerosByEleven(run) ==
    LET full == IF run < 139 THEN 0 ELSE (run - 139) \div 138 + 1
        rest == run - 138 * full
    IN  Repeat(Token(18, 127), full) \o
        CASE rest < 3 -> Repeat(Token(0, 0), rest)
          [] rest \in 3..11 -> <<Token(17, rest - 3)>>
          [] OTHER -> <<Token(18, rest - 11)>>
\* How runs of zeros, and of a length after the length before, are written.
CodeRepeatedZeros(run) ==
    LET full == IF run < 139 THEN 0 ELSE (run - 139) \div 138 + 1
        rest == run - 138 * full
    IN  Repeat(Token(18, 127), full) \o
        CASE rest < 3 -> Repeat(Token(0, 0), rest)
          [] rest \in 3..10 -> <<Token(17, rest - 3)>>
          [] OTHER -> <<Token(18, rest - 11)>>
CodeRepeatedValues(run, value, prev) ==
    LET literal == IF value = prev THEN 0 ELSE 1
        full == IF run - literal < 7 THEN 0 ELSE (run - literal - 7) \div 6 + 1
        rest == run - literal - 6 * full
    IN  Repeat(Token(value, 0), literal) \o Repeat(Token(16, 3), full) \o
        (IF rest < 3 THEN Repeat(Token(value, 0), rest) ELSE <<Token(16, rest - 3)>>)

\* BuildCodeLengthTokens: the runs of equal lengths in their order.
StartsRun(code, s) == s = 0 \/ code[s] # code[s - 1]
RunLength(code, s) ==
    LET ends == {t \in DOMAIN code : t > s /\ code[t] # code[s]}
    IN  (IF ends = {} THEN Cardinality(DOMAIN code) ELSE Min(ends)) - s
PrevValue(code, s) ==
    LET before == {t \in 0..s - 1 : code[t] > 0}
    IN  IF before = {} THEN DefaultCodeLength ELSE code[Max(before)]
BuildCodeLengthTokens(code) ==
    LET starts == InOrder(code, LAMBDA s : StartsRun(code, s))
        run(s) == IF code[s] = 0 THEN CodeRepeatedZeros(RunLength(code, s))
                  ELSE CodeRepeatedValues(RunLength(code, s), code[s], PrevValue(code, s))
    IN  FlattenSeq([k \in DOMAIN starts |-> run(starts[k])])

ExtraBits(code) == CASE code = 16 -> 2 [] code = 17 -> 3 [] code = 18 -> 7 [] OTHER -> 0
TokenCounts(tokens) ==
    [c \in {tokens[k].code : k \in DOMAIN tokens} |-> Cardinality({k \in DOMAIN tokens : tokens[k].code = c})]

\* The lengths of the code of the lengths, in their own order, at least four.
NumCodes(cl) == Max({4} \cup {i \in 1..CodeLengthCodes : cl[CodeLengthCodeOrder[i]] # 0})
StoreCodeOfLengths(cl) ==
    WriteBits(NumCodes(cl) - 4, 4) \o
    FlattenSeq([i \in 1..NumCodes(cl) |-> WriteBits(cl[CodeLengthCodeOrder[i]], 3)])

\* The tokens that end in zeros are left out when that saves over twelve bits.
Trailing(tokens) ==
    {k \in DOMAIN tokens : \A l \in k..Len(tokens) : tokens[l].code \in {0, 17, 18}}
TrimmedLength(tokens) == Len(tokens) - Cardinality(Trailing(tokens))
TrailingBits(tokens, cl) == MapThenSumSet(LAMBDA k : cl[tokens[k].code] + ExtraBits(tokens[k].code), Trailing(tokens))
WriteTrimmed(tokens, cl) == TrimmedLength(tokens) > 1 /\ TrailingBits(tokens, cl) > 12
FloorLog2(n) == CHOOSE b \in 0..30 : 2^b <= n /\ n < 2^(b + 1)
StoreLength(n) ==
    LET pairs == IF n = 2 THEN 1 ELSE FloorLog2(n - 2) \div 2 + 1
    IN  WriteBits(pairs - 1, 3) \o WriteBits(n - 2, 2 * pairs)
StoreTokens(tokens, n, cl) ==
    FlattenSeq([k \in 1..n |-> BitsOfCode(cl, tokens[k].code) \o WriteBits(tokens[k].extra, ExtraBits(tokens[k].code))])

StoreFull(code) ==
    LET tokens == BuildCodeLengthTokens(code)
        full == CreateHuffmanTree(TokenCounts(tokens), CodeLengthCodes, MaxLengthsCode)
        cl == ClearIfOnlyOneSymbol(full)
        trimmed == WriteTrimmed(tokens, cl)
        n == IF trimmed THEN TrimmedLength(tokens) ELSE Len(tokens)
    IN  <<0>> \o StoreCodeOfLengths(full)
              \o (IF trimmed THEN <<1>> \o StoreLength(n) ELSE <<0>>)
              \o StoreTokens(tokens, n, cl)

\* storeSimpleHuffmanCode: up to two symbols, the first in a bit if it is 0 or 1.
StoreSimple(symbols) ==
    LET first == IF symbols = {} THEN 0 ELSE Min(symbols)
    IN  <<1>> \o WriteBits(IF Cardinality(symbols) = 2 THEN 1 ELSE 0, 1)
              \o (IF first < 2 THEN <<0>> \o WriteBits(first, 1) ELSE <<1>> \o WriteBits(first, 8))
              \o (IF Cardinality(symbols) = 2 THEN WriteBits(Max(symbols), 8) ELSE <<>>)
IsSimple(code) == Cardinality(Coded(code)) <= 2 /\ \A s \in Coded(code) : s < 256
StoreHuffmanCode(code) == IF IsSimple(code) THEN StoreSimple(Coded(code)) ELSE StoreFull(code)

-----------------------------------------------------------------------------
(* The decoder's tables *)

\* A code that leaves bits without a meaning, or gives some two, has no table.
Complete(code) ==
    Cardinality(Coded(code)) = 1
      \/ MapThenSumSet(LAMBDA s : 2^(MaxAllowedCodeLength - code[s]), Coded(code)) = 2^MaxAllowedCodeLength
Sorted(code) == FlattenSeq([l \in 1..Longest(code) |-> InOrder(code, LAMBDA s : code[s] = l)])

\* getNextKey: the next code of a length, in reversed bits.
NextKey(key, l) ==
    LET clear == {i \in 0..l - 1 : (key \div 2^i) % 2 = 0}
    IN  IF clear = {} THEN key ELSE (key % 2^Max(clear)) + 2^Max(clear)

Entry(b, v) == [bits |-> b, value |-> v]
Replicate(t, from, step, size, entry) ==
    [i \in DOMAIN t |-> IF i >= from /\ i < from + size /\ (i - from) % step = 0 THEN entry ELSE t[i]]

\* mutant: as wide as the first code of the table needs.
NextTableBitSizeOfFirst(left, l, root) == l - root
\* nextTableBitSize: until the codes left fill the table.
NextTableBitSize(left, l, root) ==
    LET free[k \in l..MaxAllowedCodeLength] == IF k = l THEN 2^(l - root) - left[l] ELSE 2 * free[k - 1] - left[k]
        full == {k \in l..MaxAllowedCodeLength - 1 : free[k] <= 0}
    IN  (IF full = {} THEN MaxAllowedCodeLength ELSE Min(full)) - root

SubTable(b, code, l, root) ==
    IF b.key % 2^root = b.low THEN b
    ELSE LET tableBits == NextTableBitSize(b.left, l, root)
             off == b.off + 2^b.tableBits
         IN  [b EXCEPT !.low = b.key % 2^root, !.off = off, !.tableBits = tableBits,
                       !.table = [i \in 0..off + 2^tableBits - 1 |->
                            CASE i = b.key % 2^root -> Entry(tableBits + root, off)
                              [] i # b.key % 2^root /\ i < off -> b.table[i]
                              [] OTHER -> Entry(0, 0)]]
Advance(b, l) == [b EXCEPT !.key = NextKey(b.key, l), !.left[l] = @ - 1]
PlaceSymbol(b, code, s, root) ==
    LET l == code[s] IN
    IF l <= root
    THEN Advance([b EXCEPT !.table = Replicate(b.table, b.key, 2^l, 2^root, Entry(l, s))], l)
    ELSE LET sub == SubTable(b, code, l, root)
         IN  Advance([sub EXCEPT !.table = Replicate(sub.table, sub.off + sub.key \div 2^root, 2^(l - root),
                                                     2^sub.tableBits - sub.key \div 2^root, Entry(l - root, s))], l)
NoTable == <<>>
BuildHuffmanTable(code, root) ==
    LET empty == [key |-> 0, low |-> -1, off |-> 0, tableBits |-> root,
                  left |-> [l \in 0..MaxAllowedCodeLength |-> Cardinality({s \in DOMAIN code : code[s] = l})],
                  table |-> [i \in 0..2^root - 1 |-> Entry(0, 0)]]
    IN  IF Coded(code) = {} \/ ~Complete(code) THEN NoTable
        ELSE IF Cardinality(Coded(code)) = 1
             THEN [i \in 0..2^root - 1 |-> Entry(0, CHOOSE s \in Coded(code) : TRUE)]
        ELSE FoldLeft(LAMBDA b, s : PlaceSymbol(b, code, s, root), empty, Sorted(code)).table

-----------------------------------------------------------------------------
(* The encoder: the five codes of the group *)

Init ==
    /\ group \in Groups
    /\ channel = 1 /\ stage = "tree" /\ countMin = 1
    /\ lengths = <<>> /\ written = <<>> /\ bits = <<>>
    /\ pos = 0 /\ read = <<>> /\ table = NoTable /\ decoded = <<>> /\ packed = <<>>

\* The tree is built again with the small counts raised, until no code is too long.
BuildTree ==
    /\ stage = "tree"
    /\ lengths' = LengthsAt(Population, AlphabetSize, countMin)
    /\ IF Longest(lengths') <= MaxAllowedCodeLength
       THEN stage' = "store" /\ UNCHANGED countMin
       ELSE countMin' = 2 * countMin /\ UNCHANGED stage
    /\ UNCHANGED <<group, channel, written, bits, pos, read, table, decoded, packed>>

Store ==
    /\ stage = "store"
    /\ written' = Append(written, lengths)
    /\ countMin' = 1
    /\ IF channel < 5
       THEN /\ channel' = channel + 1 /\ stage' = "tree"
            /\ bits' = bits \o StoreHuffmanCode(lengths)
       ELSE /\ channel' = 1 /\ stage' = "read"
            /\ bits' = bits \o StoreHuffmanCode(lengths) \o group.tail
    /\ UNCHANGED <<group, lengths, pos, read, table, decoded, packed>>

-----------------------------------------------------------------------------
(* The decoder: the same five *)

BitsAt(b, p, n) == MapThenSumSet(LAMBDA i : b[p + i] * 2^(i - 1), 1..n)
Bits(p, n) == BitsAt(bits, p, n)

\* ReadSymbol: a first look at the root, and a second in the table it names.
ReadSymbol(t, b, p) ==
    LET entry == t[BitsAt(b, p, HuffmanTableBits)]
        n == entry.bits - HuffmanTableBits
    IN  IF n <= 0 THEN entry
        ELSE LET i == entry.value + BitsAt(b, p + HuffmanTableBits, n)
             IN  IF i \notin DOMAIN t THEN Entry(-1, 0)
                 ELSE Entry(HuffmanTableBits + t[i].bits, t[i].value)

NoLengths == [s \in 0..AlphabetSize - 1 |-> 0]
Fail == /\ stage' = "error"
        /\ UNCHANGED <<pos, read, table>>

ReadSimpleCode ==
    /\ stage = "read" /\ Bits(pos, 1) = 1
    /\ LET width == IF Bits(pos + 2, 1) = 0 THEN 1 ELSE 8
           first == Bits(pos + 3, width)
           second == Bits(pos + 3 + width, 8)
           two == Bits(pos + 1, 1) = 1
           symbols == IF two THEN {first, second} ELSE {first}
       IN  IF \E s \in symbols : s >= AlphabetSize THEN Fail
           ELSE /\ read' = [NoLengths EXCEPT ![first] = 1, ![IF two THEN second ELSE first] = 1]
                /\ pos' = pos + 3 + width + (IF two THEN 8 ELSE 0)
                /\ stage' = "table"
                /\ UNCHANGED table
    /\ UNCHANGED <<group, channel, countMin, lengths, written, bits, decoded, packed>>

\* The code of the lengths, and how many of its symbols follow.
CodeOfLengthsAt(p, n) ==
    [c \in 0..CodeLengthCodes - 1 |->
        LET i == CHOOSE i \in 1..CodeLengthCodes : CodeLengthCodeOrder[i] = c
        IN  IF i <= n THEN Bits(p + 3 * (i - 1), 3) ELSE 0]
ReadCodeOfLengths ==
    /\ stage = "read" /\ Bits(pos, 1) = 0
    /\ LET n == Min({Bits(pos + 1, 4) + 4, CodeLengthCodes})
           p == pos + 5 + 3 * n
           pairs == Bits(p + 1, 3)
           width == 2 + 2 * pairs
           limited == Bits(p, 1) = 1
           maxSymbol == IF limited THEN 2 + Bits(p + 4, width) ELSE AlphabetSize
           t == BuildHuffmanTable(CodeOfLengthsAt(pos + 5, n), LengthsTableBits)
       IN  IF t = NoTable \/ maxSymbol > AlphabetSize THEN Fail
           ELSE /\ table' = t
                /\ read' = [symbol |-> 0, remaining |-> maxSymbol, prev |-> DefaultCodeLength, lengths |-> NoLengths]
                /\ pos' = p + 1 + (IF limited THEN 3 + width ELSE 0)
                /\ stage' = "lengths"
    /\ UNCHANGED <<group, channel, countMin, lengths, written, bits, decoded, packed>>

RepeatOffset(code) == IF code = 18 THEN 11 ELSE 3
ReadLength ==
    /\ stage = "lengths" /\ read.symbol < AlphabetSize /\ read.remaining > 0
    /\ LET entry == table[Bits(pos, LengthsTableBits)]
           code == entry.value
           times == IF code < 16 THEN 1
                    ELSE Bits(pos + entry.bits, ExtraBits(code)) + RepeatOffset(code)
           value == CASE code < 16 -> code [] code = 16 -> read.prev [] OTHER -> 0
       IN  IF read.symbol + times > AlphabetSize THEN Fail
           ELSE /\ read' = [symbol |-> read.symbol + times, remaining |-> read.remaining - 1,
                            prev |-> IF code < 16 /\ code # 0 THEN code ELSE read.prev,
                            lengths |-> [s \in DOMAIN read.lengths |->
                                IF s >= read.symbol /\ s < read.symbol + times THEN value ELSE read.lengths[s]]]
                /\ pos' = pos + entry.bits + ExtraBits(code)
                /\ UNCHANGED <<stage, table>>
    /\ UNCHANGED <<group, channel, countMin, lengths, written, bits, decoded, packed>>
EndLengths ==
    /\ stage = "lengths" /\ ~(read.symbol < AlphabetSize /\ read.remaining > 0)
    /\ read' = read.lengths
    /\ stage' = "table"
    /\ UNCHANGED <<group, channel, countMin, lengths, written, bits, pos, table, decoded, packed>>

MakeTable ==
    /\ stage = "table"
    /\ LET t == BuildHuffmanTable(read, HuffmanTableBits)
       IN  IF t = NoTable THEN stage' = "error" /\ UNCHANGED <<decoded, channel>>
           ELSE /\ decoded' = Append(decoded, [lengths |-> read, table |-> t])
                /\ stage' = IF channel = 5 THEN "group" ELSE "read"
                /\ channel' = IF channel = 5 THEN 1 ELSE channel + 1
    /\ UNCHANGED <<group, countMin, lengths, written, bits, pos, read, table, packed>>

\* Codes short enough are looked up together: green, red, blue and alpha in one
\* word, unless green says that it is not a pixel.
Table(c) == decoded[c].table
IsTrivialLiteral == \A c \in 2..4 : Table(c)[0].bits = 0
IsTrivialCode == IsTrivialLiteral /\ Table(1)[0].bits + Table(5)[0].bits = 0 /\ Table(1)[0].value < 256
MaxBits == MapThenSumSet(LAMBDA c : Longest(decoded[c].lengths), 1..4)
\* mutant: whatever the lengths of the codes.
UsePackedTableAlways == ~IsTrivialCode
UsePackedTable == ~IsTrivialCode /\ MaxBits < HuffmanPackedBits

Accumulate(acc, c) ==
    LET entry == Table(c)[acc.rest % 2^HuffmanTableBits]
    IN  [bits |-> acc.bits + entry.bits, value |-> Append(acc.value, entry.value), rest |-> acc.rest \div 2^entry.bits]
PackedEntry(word) ==
    LET green == Table(1)[word % 2^HuffmanTableBits]
        all == FoldLeft(Accumulate, [bits |-> 0, value |-> <<>>, rest |-> word], <<1, 2, 3, 4>>)
    IN  IF green.value >= 256 THEN [literal |-> FALSE, bits |-> green.bits, value |-> <<green.value>>]
        ELSE [literal |-> TRUE, bits |-> all.bits, value |-> all.value]
BuildPackedTable ==
    /\ stage = "group"
    /\ packed' = IF UsePackedTable THEN [w \in 0..2^HuffmanPackedBits - 1 |-> PackedEntry(w)] ELSE <<>>
    /\ stage' = "done"
    /\ UNCHANGED <<group, channel, countMin, lengths, written, bits, pos, read, table, decoded>>

Done == stage \in {"done", "error"} /\ UNCHANGED vars

Next ==
    \/ BuildTree \/ Store
    \/ ReadSimpleCode \/ ReadCodeOfLengths \/ ReadLength \/ EndLengths \/ MakeTable \/ BuildPackedTable
    \/ Done

Spec == Init /\ [][Next]_vars

-----------------------------------------------------------------------------
\* The decoder reads the lengths that the encoder gave the symbols, and stops
\* at the bit after them, whatever follows: runs, trimmed zeros, codes of one
\* symbol and of none (StoreHuffmanCode against readHuffmanCode).
Given(code) == IF Coded(code) = {} THEN [code EXCEPT ![0] = 1] ELSE code
LengthsRoundTrip ==
    /\ stage # "error"
    /\ \A c \in DOMAIN decoded : decoded[c].lengths = Given(written[c])
    /\ stage = "done" => pos + Len(group.tail) = Len(bits)

\* Each symbol that occurs has a code, and its bits, whatever follows them, are
\* looked up as that symbol and as so many bits, through one table or two.
CodesDecode ==
    stage = "group" =>
        \A c \in 1..5 : \A s \in DOMAIN group.pops[c] : \A b \in {0, 1} :
            LET code == ClearIfOnlyOneSymbol(written[c])
                word == BitsOfCode(code, s) \o Repeat(b, MaxAllowedCodeLength + HuffmanTableBits)
            IN  /\ written[c][s] \in 1..MaxAllowedCodeLength
                /\ ReadSymbol(Table(c), word, 0) = Entry(code[s], s)

\* Looked up together, four codes say what they say one after the other.
OneByOne(word, n) ==
    FoldLeft(LAMBDA acc, c :
                 LET e == ReadSymbol(Table(c), word, acc.bits)
                 IN  [bits |-> acc.bits + e.bits, value |-> Append(acc.value, e.value)],
             [bits |-> 0, value |-> <<>>], [c \in 1..n |-> c])
PackedAgrees ==
    stage = "done" => \A w \in DOMAIN packed :
        LET word == WriteBits(w, HuffmanPackedBits) \o Repeat(0, 4 * (MaxAllowedCodeLength + HuffmanTableBits))
            one == OneByOne(word, IF packed[w].literal THEN 4 ELSE 1)
        IN  packed[w].bits = one.bits /\ packed[w].value = one.value

\* Unless counts had to be raised, no other code takes fewer bits in all.
CostOf(code, counts) == MapThenSumSet(LAMBDA s : code[s] * counts[s], DOMAIN counts)
Prefix(code) == MapThenSumSet(LAMBDA s : 2^(MaxAllowedCodeLength - code[s]), DOMAIN code) <= 2^MaxAllowedCodeLength
CodesOptimal ==
    (stage = "store" /\ countMin = 1 /\ Cardinality(DOMAIN Population) \in 2..5) =>
        \A other \in [DOMAIN Population -> 1..4] :
            Prefix(other) => CostOf(lengths, Population) <= CostOf(other, Population)

=============================================================================
