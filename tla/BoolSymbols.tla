----------------------------- MODULE BoolSymbols -----------------------------
(***************************************************************************)
(* The symbols of a lossy frame (internal/lossy, internal/bitio).           *)
(*                                                                         *)
(* A partition of a VP8 frame is an arithmetic code.  What matters to its   *)
(* writer and its reader is that they agree on the probability of every     *)
(* bit: a partition is here the sequence of the <<probability, bit>> pairs  *)
(* put into it, and a reader that asks for a bit with another probability   *)
(* is lost ("bad").  A probability is a number: itself when the code writes *)
(* a number, its place in its table when it comes from a table.             *)
(***************************************************************************)
EXTENDS Integers, Sequences

\* The frequency band of each coefficient.
KBands == <<0, 1, 2, 3, 6, 4, 5, 6, 6, 6, 6, 6, 6, 6, 6, 7, 0>>

\* Probas[ctx][i] of the band of coefficient n, in one of three tables.
CoeffProba(table, type, n, ctx, i) ==
    256 + (((table * 4 + type) * 8 + KBands[n + 1]) * 3 + ctx) * 11 + i

\* The symbol that stands for the 1056 updates of a whole table.
CoeffTable == 3999

\* KBModesProba[top][left][i].
KBModesProba(top, left, i) == 4000 + (top * 10 + left) * 9 + i

NewBoolReader(symbols) == [data |-> symbols, pos |-> 1, eof |-> FALSE, bad |-> FALSE]

\* Past its end a reader sees zeros and remembers it.
GetBit(br, prob) ==
    IF br.pos > Len(br.data)
    THEN [br |-> [br EXCEPT !.eof = TRUE], val |-> 0]
    ELSE LET symbol == br.data[br.pos]
         IN [br |-> [br EXCEPT !.pos = @ + 1, !.bad = @ \/ symbol[1] # prob],
             val |-> symbol[2]]

\* The bits of probabilities probs, the highest first, after the value v.
RECURSIVE GetBits(_, _, _, _)
GetBits(br, probs, i, v) ==
    IF i > Len(probs) THEN [br |-> br, val |-> v]
    ELSE LET bit == GetBit(br, probs[i])
         IN GetBits(bit.br, probs, i + 1, 2 * v + bit.val)

Uniform(n) == [i \in 1 .. n |-> 128]

GetValue(br, n) == GetBits(br, Uniform(n), 1, 0)

\* A value in n bits for each n of widths.
RECURSIVE GetFields(_, _, _)
GetFields(br, widths, got) ==
    LET value == GetValue(br, widths[Len(got) + 1])
    IN IF Len(got) = Len(widths) THEN [br |-> br, val |-> got]
       ELSE GetFields(value.br, widths, Append(got, value.val))

\* A walk down a tree from a node <<probability, child of 0, child of 1>>;
\* a child that is not positive is a leaf.
RECURSIVE GetTree(_, _, _)
GetTree(br, tree, node) ==
    LET bit == GetBit(br, tree[node][1])
        child == tree[node][2 + bit.val]
    IN IF child > 0 THEN GetTree(bit.br, tree, child) ELSE [br |-> bit.br, val |-> - child]

GetSignedValue(br, n) ==
    LET value == GetValue(br, n)
        sign == GetBit(value.br, 128)
    IN [br |-> sign.br, val |-> IF sign.val = 1 THEN - value.val ELSE value.val]

Flag(b) == IF b THEN 1 ELSE 0
Magnitude(v) == IF v < 0 THEN - v ELSE v

PutBit(bit, prob) == << <<prob, bit>> >>

\* v in as many bits as there are probabilities.
PutBitsWith(v, probs) ==
    [i \in 1 .. Len(probs) |-> <<probs[i], (v \div 2 ^ (Len(probs) - i)) % 2>>]

PutBits(v, n) == PutBitsWith(v, Uniform(n))

PutBitUniform(b) == PutBits(Flag(b), 1)

PutSignedBits(v, n) ==
    IF v = 0 THEN PutBitUniform(FALSE)
    ELSE PutBitUniform(TRUE) \o PutBits(2 * Magnitude(v) + Flag(v < 0), n + 1)
=============================================================================
