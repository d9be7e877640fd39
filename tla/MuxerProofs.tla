------------------------------ MODULE MuxerProofs ------------------------------
(***************************************************************************)
(* ReadsBack, ReadersAgree and CutIsPrefix for every image, every metadata *)
(* and every sequence of calls.  A list of pieces is given as a list of    *)
(* chunks, and the walk over the chunk headers is shown to find exactly    *)
(* those chunks, at both levels of nesting.  Each reader is then a run     *)
(* over the chunks, one step for each; its last state is compared with     *)
(* what the writer was given.  Of a file that is cut off the walk finds    *)
(* the first of the chunks, and the run stops earlier.  The invariant says *)
(* of the Muxer that its fields are in range, and of a written file that   *)
(* both readers read it right, whole or cut off.                           *)
(***************************************************************************)
EXTENDS ContainerChunks, FiniteSetTheorems, SequenceTheorems, TLAPS

(***************************************************************************)
(* Induction over the natural numbers                                       *)
(***************************************************************************)

\* A set that holds 0 and the successor of each of its elements holds every
\* natural number: below one it lacks, the successor would map a finite set
\* one to one into a smaller one.
LEMMA CountUp ==
    ASSUME NEW T \in SUBSET Nat, 0 \in T, \A n \in T : n + 1 \in T, NEW m \in Nat
    PROVE  m \in T
<1> SUFFICES ASSUME m \notin T PROVE FALSE
  OBVIOUS
<1> DEFINE S == T \cap (0 .. m)
           succ == [k \in S |-> k + 1]
<1>1. IsFiniteSet(S)
  <2>1. IsFiniteSet(0 .. m) /\ S \subseteq 0 .. m
    BY FS_Interval
  <2>2. QED
    BY <2>1, FS_Subset
<1>2. 0 \in S /\ succ \in [S -> S \ {0}] /\ \A i, j \in S : succ[i] = succ[j] => i = j
  OBVIOUS
<1> HIDE DEF S, succ
<1>3. IsFiniteSet(S \ {0}) /\ Cardinality(S \ {0}) = Cardinality(S) - 1
  BY <1>1, <1>2, FS_RemoveElement
<1>4. Cardinality(S \ {0}) < Cardinality(S)
  BY <1>1, <1>3, FS_CardinalityType
<1>5. \E i, j \in S : i # j /\ succ[i] = succ[j]
  BY <1>1, <1>2, <1>3, <1>4, FS_PigeonHole
<1>6. QED
  BY <1>2, <1>5

\* What Min and Max of a set of natural numbers are.
LEMMA NatMin ==
    ASSUME NEW T \in SUBSET Nat, T # {}
    PROVE  Min(T) \in T /\ \A t \in T : Min(T) <= t
<1>1. \E x \in T : \A t \in T : x <= t
  <2> SUFFICES ASSUME \A x \in T : \E t \in T : ~(x <= t) PROVE FALSE
    OBVIOUS
  <2> DEFINE Below == {n \in Nat : \A m \in 0 .. n : m \notin T}
  <2>1. 0 \in Below
    OBVIOUS
  <2>2. \A n \in Below : n + 1 \in Below
    OBVIOUS
  <2>3. PICK x \in T : TRUE
    OBVIOUS
  <2>4. Below \in SUBSET Nat /\ x \in Nat
    OBVIOUS
  <2>5. \A n \in Below : n \notin T
    OBVIOUS
  <2> HIDE DEF Below
  <2>6. x \in Below
    BY <2>1, <2>2, <2>4, CountUp
  <2>7. QED
    BY <2>3, <2>5, <2>6
<1>2. QED
  BY <1>1 DEF Min

LEMMA NatMax ==
    ASSUME NEW k \in Nat, NEW T \in SUBSET (0 .. k), T # {}
    PROVE  Max(T) \in T /\ \A t \in T : Max(T) >= t
<1>1. PICK R : R = {n \in 0 .. k : k - n \in T}
  OBVIOUS
<1>2. \A x \in T : k - x \in R
  <2> TAKE x \in T
  <2>1. x \in 0 .. k /\ k - x \in 0 .. k /\ k - (k - x) = x
    OBVIOUS
  <2>2. QED
    BY <1>1, <2>1
<1>3. R # {} /\ R \in SUBSET Nat
  <2>1. PICK x \in T : TRUE
    OBVIOUS
  <2>2. R # {}
    BY <1>2, <2>1
  <2>3. R \subseteq Nat
    BY <1>1
  <2>4. QED
    BY <2>2, <2>3
<1>4. Min(R) \in R /\ \A t \in R : Min(R) <= t
  BY <1>3, NatMin
<1>5. PICK x \in T : Min(R) = k - x
  <2>1. Min(R) \in 0 .. k /\ k - Min(R) \in T
    BY <1>1, <1>4
  <2>2. Min(R) = k - (k - Min(R))
    BY <2>1
  <2>3. QED
    BY <2>1, <2>2
<1>6. \A t \in T : x >= t
  <2> TAKE t \in T
  <2>1. k - x <= k - t
    BY <1>2, <1>4, <1>5
  <2>2. QED
    BY <2>1
<1>7. QED
  BY <1>6 DEF Max

(***************************************************************************)
(* Lists                                                                    *)
(***************************************************************************)

LEMMA ListParts ==
    ASSUME NEW s, IsList(s)
    PROVE  Len(s) \in Nat /\ DOMAIN s = 1 .. Len(s) /\ s = [i \in 1 .. Len(s) |-> s[i]]
BY DEF IsList

LEMMA Joined ==
    ASSUME NEW s, NEW t, IsList(s), IsList(t)
    PROVE  /\ IsList(s \o t) /\ Len(s) \in Nat /\ Len(t) \in Nat
           /\ Len(s \o t) = Len(s) + Len(t)
           /\ \A i \in 1 .. Len(s) : (s \o t)[i] = s[i]
           /\ \A i \in 1 .. Len(t) : (s \o t)[Len(s) + i] = t[i]
<1>1. PICK A : s \in Seq(A)
  BY DEF IsList
<1>2. PICK B : t \in Seq(B)
  BY DEF IsList
<1> DEFINE S == A \cup B
<1>3. s \in Seq(S) /\ t \in Seq(S)
  BY <1>1, <1>2, SeqMonotonic
<1> HIDE DEF S
<1>4. /\ s \o t \in Seq(S) /\ Len(s \o t) = Len(s) + Len(t) /\ Len(s) \in Nat /\ Len(t) \in Nat
      /\ \A i \in 1 .. Len(s) + Len(t) : (s \o t)[i] = IF i <= Len(s) THEN s[i] ELSE t[i - Len(s)]
  BY <1>3, ConcatProperties
<1>5. IsList(s \o t)
  BY <1>4 DEF IsList
<1>6. ASSUME NEW i \in 1 .. Len(t) PROVE (s \o t)[Len(s) + i] = t[i]
  <2>1. Len(s) + i \in 1 .. Len(s) + Len(t) /\ ~(Len(s) + i <= Len(s)) /\ (Len(s) + i) - Len(s) = i
    BY <1>4
  <2>2. QED
    BY <1>4, <2>1
<1>7. \A i \in 1 .. Len(s) : (s \o t)[i] = s[i]
  BY <1>4
<1>8. QED
  BY <1>4, <1>5, <1>6, <1>7

LEMMA SameList ==
    ASSUME NEW s, NEW t, IsList(s), IsList(t), Len(s) = Len(t), \A i \in 1 .. Len(s) : s[i] = t[i]
    PROVE  s = t
<1>1. s = [i \in 1 .. Len(s) |-> s[i]] /\ t = [i \in 1 .. Len(t) |-> t[i]]
  BY ListParts
<1>2. [i \in 1 .. Len(s) |-> s[i]] = [i \in 1 .. Len(t) |-> t[i]]
  OBVIOUS
<1>3. QED
  BY <1>1, <1>2

LEMMA EmptyList == IsList(<<>>) /\ Len(<<>>) = 0
<1>1. <<>> \in Seq({})
  OBVIOUS
<1>2. QED
  BY <1>1 DEF IsList

LEMMA NothingJoined == ASSUME NEW s, IsList(s) PROVE s \o <<>> = s /\ <<>> \o s = s
BY ConcatEmptySeq DEF IsList

LEMMA JoinedTwice ==
    ASSUME NEW s, NEW t, NEW u, IsList(s), IsList(t), IsList(u)
    PROVE  (s \o t) \o u = s \o (t \o u)
<1>1. PICK A : s \in Seq(A)
  BY DEF IsList
<1>2. PICK B : t \in Seq(B)
  BY DEF IsList
<1>3. PICK C : u \in Seq(C)
  BY DEF IsList
<1> DEFINE S == A \cup B \cup C
<1>4. s \in Seq(S) /\ t \in Seq(S) /\ u \in Seq(S)
  BY <1>1, <1>2, <1>3, SeqMonotonic
<1> HIDE DEF S
<1>5. QED
  BY <1>4, ConcatAssociative

LEMMA ShortLists ==
    ASSUME NEW a, NEW b, NEW c
    PROVE  /\ IsList(<<a>>) /\ Len(<<a>>) = 1 /\ <<a>>[1] = a
           /\ IsList(<<a, b>>) /\ Len(<<a, b>>) = 2 /\ <<a, b>>[1] = a /\ <<a, b>>[2] = b
           /\ IsList(<<a, b, c>>) /\ Len(<<a, b, c>>) = 3
           /\ <<a, b, c>>[1] = a /\ <<a, b, c>>[2] = b /\ <<a, b, c>>[3] = c
<1> DEFINE S == {a, b, c}
<1>1. <<a>> \in Seq(S) /\ <<a, b>> \in Seq(S) /\ <<a, b, c>> \in Seq(S)
  OBVIOUS
<1>2. QED
  BY <1>1 DEF IsList

LEMMA FunctionList ==
    ASSUME NEW n \in Nat, NEW f, f = [i \in 1 .. n |-> f[i]]
    PROVE  IsList(f) /\ Len(f) = n
<1> DEFINE S == {f[i] : i \in 1 .. n}
<1>1. f \in [1 .. n -> S]
  OBVIOUS
<1> HIDE DEF S
<1>2. f \in Seq(S) /\ Len(f) = n
  BY <1>1
<1>3. QED
  BY <1>2 DEF IsList

(***************************************************************************)
(* Pieces                                                                   *)
(***************************************************************************)

LEMMA PiecesJoined ==
    ASSUME NEW p, NEW q, Pieces(p), Pieces(q)
    PROVE  Pieces(p \o q)
<1>1. IsList(p) /\ IsList(q)
  BY DEF Pieces
<1>2. /\ IsList(p \o q) /\ Len(p) \in Nat /\ Len(q) \in Nat
      /\ Len(p \o q) = Len(p) + Len(q)
      /\ \A i \in 1 .. Len(p) : (p \o q)[i] = p[i]
      /\ \A i \in 1 .. Len(q) : (p \o q)[Len(p) + i] = q[i]
  BY <1>1, Joined
<1>3. ASSUME NEW i \in 1 .. Len(p \o q) PROVE IsPiece((p \o q)[i])
  <2>1. CASE i \in 1 .. Len(p)
    BY <1>2, <2>1 DEF Pieces
  <2>2. CASE i \notin 1 .. Len(p)
    <3>1. i - Len(p) \in 1 .. Len(q) /\ Len(p) + (i - Len(p)) = i
      BY <1>2, <2>2
    <3>2. (p \o q)[i] = q[i - Len(p)]
      BY <1>2, <3>1
    <3>3. QED
      BY <3>1, <3>2 DEF Pieces
  <2>3. QED
    BY <2>1, <2>2
<1>4. QED
  BY <1>2, <1>3 DEF Pieces

LEMMA NoPieces == Pieces(<<>>)
BY EmptyList DEF Pieces

LEMMA WrittenPieces ==
    ASSUME NEW n \in Nat, NEW v, NEW id
    PROVE  /\ IsPiece(ChunkHeader(id, n)) /\ IsPiece(Data(n, v)) /\ IsPiece(Pad) /\ IsPiece(RiffHeader(n))
           /\ ChunkHeader(id, n).kind = "header" /\ ChunkHeader(id, n).n = 8
           /\ ChunkHeader(id, n).v.id = id /\ ChunkHeader(id, n).v.size = n
           /\ Data(n, v).kind = "data" /\ Data(n, v).n = n /\ Data(n, v).v = v
           /\ Pad.kind = "pad" /\ Pad.n = 1
           /\ RiffHeader(n).kind = "riff" /\ RiffHeader(n).n = 12 /\ RiffHeader(n).v = n
BY DEF IsPiece, ChunkHeader, Data, Pad, RiffHeader, Piece, ChunkHeaderSize, RIFFHeaderSize

LEMMA FewPieces ==
    ASSUME NEW a, NEW b, NEW c, IsPiece(a), IsPiece(b), IsPiece(c)
    PROVE  Pieces(<<a>>) /\ Pieces(<<a, b>>) /\ Pieces(<<a, b, c>>)
<1>1. Pieces(<<a>>)
  <2> DEFINE q == <<a>>
  <2>1. IsList(q) /\ Len(q) = 1 /\ q[1] = a
    BY ShortLists
  <2> HIDE DEF q
  <2>2. \A i \in 1 .. Len(q) : i = 1
    BY <2>1
  <2>3. Pieces(q)
    BY <2>1, <2>2 DEF Pieces
  <2>4. QED
    BY <2>3 DEF q
<1>2. Pieces(<<a, b>>)
  <2> DEFINE q == <<a, b>>
  <2>1. IsList(q) /\ Len(q) = 2 /\ q[1] = a /\ q[2] = b
    BY ShortLists
  <2> HIDE DEF q
  <2>2. \A i \in 1 .. Len(q) : i = 1 \/ i = 2
    BY <2>1
  <2>3. Pieces(q)
    BY <2>1, <2>2 DEF Pieces
  <2>4. QED
    BY <2>3 DEF q
<1>3. Pieces(<<a, b, c>>)
  <2> DEFINE q == <<a, b, c>>
  <2>1. IsList(q) /\ Len(q) = 3 /\ q[1] = a /\ q[2] = b /\ q[3] = c
    BY ShortLists
  <2> HIDE DEF q
  <2>2. \A i \in 1 .. Len(q) : i = 1 \/ i = 2 \/ i = 3
    BY <2>1
  <2>3. Pieces(q)
    BY <2>1, <2>2 DEF Pieces
  <2>4. QED
    BY <2>3 DEF q
<1>4. QED
  BY <1>1, <1>2, <1>3

(***************************************************************************)
(* Where a piece lies                                                       *)
(***************************************************************************)

LEMMA SomeOffsets ==
    ASSUME NEW p, Pieces(p)
    PROVE  \E at : at = [i \in 1 .. Len(p) + 1 |-> OffsetAt(p, at, i)]
<1> DEFINE P(m) == \E at : at = [i \in 1 .. m + 1 |-> OffsetAt(p, at, i)]
           T == {m \in Nat : P(m)}
<1>1. 0 \in T
  <2> DEFINE at == [i \in 1 .. 0 + 1 |-> 0]
  <2>1. at = [i \in 1 .. 0 + 1 |-> OffsetAt(p, at, i)]
    BY DEF OffsetAt
  <2>2. QED
    BY <2>1
<1>2. ASSUME NEW m \in T PROVE m + 1 \in T
  <2>1. PICK c : c = [i \in 1 .. m + 1 |-> OffsetAt(p, c, i)]
    OBVIOUS
  <2> DEFINE e == [i \in 1 .. (m + 1) + 1 |-> IF i <= m + 1 THEN c[i] ELSE OffsetAt(p, c, i)]
  <2>2. ASSUME NEW i \in 1 .. (m + 1) + 1 PROVE e[i] = OffsetAt(p, e, i)
    <3>1. i # 1 => i - 1 \in 1 .. m + 1 /\ e[i - 1] = c[i - 1]
      OBVIOUS
    <3>2. OffsetAt(p, e, i) = OffsetAt(p, c, i)
      BY <3>1 DEF OffsetAt
    <3>3. i \in 1 .. m + 1 => c[i] = OffsetAt(p, c, i)
      BY <2>1
    <3>4. QED
      BY <3>2, <3>3
  <2>3. e = [i \in 1 .. (m + 1) + 1 |-> OffsetAt(p, e, i)]
    BY <2>2
  <2>4. P(m + 1)
    BY <2>3
  <2>5. QED
    BY <2>4
<1> HIDE DEF P
<1>3. Len(p) \in T
  <2>1. Len(p) \in Nat /\ T \in SUBSET Nat
    BY ListParts DEF Pieces
  <2> HIDE DEF T
  <2>2. QED
    BY <1>1, <1>2, <2>1, CountUp
<1>4. QED
  BY <1>3 DEF P

\* Where each piece starts: the first at 0, each other behind the one before it.
LEMMA AtRules ==
    ASSUME NEW p, Pieces(p)
    PROVE  /\ At(p, 1) = 0
           /\ \A i \in 1 .. Len(p) : At(p, i + 1) = At(p, i) + p[i].n
<1>1. Offsets(p) = [i \in 1 .. Len(p) + 1 |-> OffsetAt(p, Offsets(p), i)]
  BY SomeOffsets DEF Offsets, OffsetAt
<1>2. Len(p) \in Nat
  BY ListParts DEF Pieces
<1>3. \A i \in 1 .. Len(p) + 1 : Offsets(p)[i] = OffsetAt(p, Offsets(p), i)
  BY <1>1
<1>4. 1 \in 1 .. Len(p) + 1
  BY <1>2
<1>5. ASSUME NEW i \in 1 .. Len(p) PROVE At(p, i + 1) = At(p, i) + p[i].n
  <2>1. i + 1 \in 1 .. Len(p) + 1 /\ i + 1 # 1 /\ (i + 1) - 1 = i
    BY <1>2
  <2>2. QED
    BY <1>3, <2>1 DEF At, OffsetAt
<1>6. QED
  BY <1>3, <1>4, <1>5 DEF At, OffsetAt

LEMMA AtType ==
    ASSUME NEW p, Pieces(p)
    PROVE  Len(p) \in Nat /\ Size(p) \in Nat /\ \A i \in 1 .. Len(p) + 1 : At(p, i) \in Nat
<1>0. Len(p) \in Nat /\ \A i \in 1 .. Len(p) : p[i].n \in Nat
  BY ListParts DEF Pieces, IsPiece
<1> DEFINE T == {m \in Nat : m <= Len(p) => At(p, m + 1) \in Nat}
<1>1. 0 \in T
  BY AtRules
<1>2. ASSUME NEW m \in T PROVE m + 1 \in T
  <2> SUFFICES ASSUME m + 1 <= Len(p) PROVE At(p, (m + 1) + 1) \in Nat
    OBVIOUS
  <2>1. m + 1 \in 1 .. Len(p) /\ At(p, m + 1) \in Nat
    BY <1>0
  <2>2. QED
    BY <1>0, <2>1, AtRules
<1>3. \A m \in Nat : m \in T
  <2>1. T \in SUBSET Nat
    OBVIOUS
  <2> HIDE DEF T
  <2>2. QED
    BY <1>1, <1>2, <2>1, CountUp
<1>4. ASSUME NEW i \in 1 .. Len(p) + 1 PROVE At(p, i) \in Nat
  <2>1. i - 1 \in Nat /\ i - 1 <= Len(p) /\ (i - 1) + 1 = i
    BY <1>0
  <2>2. i - 1 \in T
    BY <1>3, <2>1
  <2>3. QED
    BY <2>1, <2>2
<1>5. Len(p) + 1 \in 1 .. Len(p) + 1
  BY <1>0
<1>6. QED
  BY <1>0, <1>4, <1>5 DEF Size

\* Later pieces lie behind earlier ones.
LEMMA AtGrows ==
    ASSUME NEW p, Pieces(p), NEW i \in 1 .. Len(p), NEW j \in 1 .. Len(p) + 1, i < j
    PROVE  At(p, i) + p[i].n <= At(p, j)
<1>0. Len(p) \in Nat /\ (\A k \in 1 .. Len(p) : p[k].n \in Nat)
      /\ \A k \in 1 .. Len(p) + 1 : At(p, k) \in Nat
  BY AtType DEF Pieces, IsPiece
<1> DEFINE T == {m \in Nat : i + 1 + m <= Len(p) + 1 => At(p, i) + p[i].n <= At(p, i + 1 + m)}
<1>1. 0 \in T
  <2>1. At(p, i + 1) = At(p, i) + p[i].n /\ i + 1 + 0 = i + 1
    BY <1>0, AtRules
  <2>2. i + 1 \in 1 .. Len(p) + 1
    BY <1>0
  <2>3. QED
    BY <1>0, <2>1, <2>2
<1>2. ASSUME NEW m \in T PROVE m + 1 \in T
  <2> SUFFICES ASSUME i + 1 + (m + 1) <= Len(p) + 1
               PROVE  At(p, i) + p[i].n <= At(p, i + 1 + (m + 1))
    OBVIOUS
  <2>1. PICK k \in 1 .. Len(p) : k = i + 1 + m /\ k + 1 = i + 1 + (m + 1) /\ At(p, i) + p[i].n <= At(p, k)
    <3>1. i + 1 + m \in 1 .. Len(p) /\ (i + 1 + m) + 1 = i + 1 + (m + 1) /\ i + 1 + m <= Len(p) + 1
      BY <1>0
    <3>2. QED
      BY <3>1
  <2>2. At(p, k + 1) = At(p, k) + p[k].n
    BY AtRules
  <2>3. p[k].n \in Nat /\ At(p, k) \in Nat /\ At(p, i) \in Nat /\ p[i].n \in Nat
    BY <1>0
  <2>4. At(p, i) + p[i].n <= At(p, k + 1)
    BY <2>1, <2>2, <2>3
  <2>5. QED
    BY <2>1, <2>4
<1>3. \A m \in Nat : m \in T
  <2>1. T \in SUBSET Nat
    OBVIOUS
  <2> HIDE DEF T
  <2>2. QED
    BY <1>1, <1>2, <2>1, CountUp
<1>4. j - i - 1 \in Nat /\ i + 1 + (j - i - 1) = j /\ j <= Len(p) + 1
  BY <1>0
<1>5. j - i - 1 \in T
  BY <1>3, <1>4
<1>6. QED
  BY <1>4, <1>5

\* A run of pieces takes as much anywhere.
LEMMA Run ==
    ASSUME NEW p, Pieces(p), NEW c, Pieces(c), NEW s, Within(c, p, s)
    PROVE  \A j \in 1 .. Len(c) + 1 : At(p, s + j) = At(p, s + 1) + At(c, j)
<1>0. /\ Len(p) \in Nat /\ Len(c) \in Nat
      /\ (\A k \in 1 .. Len(p) + 1 : At(p, k) \in Nat)
      /\ \A k \in 1 .. Len(c) + 1 : At(c, k) \in Nat
      /\ \A k \in 1 .. Len(c) : c[k].n \in Nat
      /\ s \in Nat /\ s + Len(c) <= Len(p)
      /\ \A j \in 1 .. Len(c) : p[s + j] = c[j]
  BY AtType DEF Pieces, IsPiece, Within
<1> DEFINE T == {m \in Nat : m <= Len(c) => At(p, s + (m + 1)) = At(p, s + 1) + At(c, m + 1)}
<1>1. 0 \in T
  <2>1. At(c, 1) = 0 /\ s + (0 + 1) = s + 1 /\ 0 + 1 = 1
    BY AtRules
  <2>2. s + 1 \in 1 .. Len(p) + 1
    BY <1>0
  <2>3. At(p, s + 1) + 0 = At(p, s + 1)
    BY <1>0, <2>2
  <2>4. QED
    BY <2>1, <2>3
<1>2. ASSUME NEW m \in T PROVE m + 1 \in T
  <2> SUFFICES ASSUME m + 1 <= Len(c)
               PROVE  At(p, s + ((m + 1) + 1)) = At(p, s + 1) + At(c, (m + 1) + 1)
    OBVIOUS
  <2>1. PICK k \in 1 .. Len(p) : k = s + (m + 1) /\ k + 1 = s + ((m + 1) + 1)
    BY <1>0
  <2>2. PICK l \in 1 .. Len(c) : l = m + 1
    BY <1>0
  <2>3. At(p, k) = At(p, s + 1) + At(c, l) /\ p[k] = c[l]
    BY <1>0, <2>1, <2>2
  <2>4. At(p, k + 1) = At(p, k) + p[k].n /\ At(c, l + 1) = At(c, l) + c[l].n
    BY AtRules
  <2>5. s + 1 \in 1 .. Len(p) + 1 /\ l \in 1 .. Len(c) + 1
    BY <1>0
  <2>6. c[l].n \in Nat /\ At(p, s + 1) \in Nat /\ At(c, l) \in Nat
    BY <1>0, <2>5
  <2>7. At(p, k + 1) = At(p, s + 1) + At(c, l + 1)
    BY <2>3, <2>4, <2>6
  <2>8. QED
    BY <2>1, <2>2, <2>7
<1>3. \A m \in Nat : m \in T
  <2>1. T \in SUBSET Nat
    OBVIOUS
  <2> HIDE DEF T
  <2>2. QED
    BY <1>1, <1>2, <2>1, CountUp
<1>4. SUFFICES ASSUME NEW j \in 1 .. Len(c) + 1 PROVE At(p, s + j) = At(p, s + 1) + At(c, j)
  OBVIOUS
<1>5. j - 1 \in Nat /\ j - 1 <= Len(c) /\ (j - 1) + 1 = j
  BY <1>0
<1>6. j - 1 \in T
  BY <1>3, <1>5
<1>7. QED
  BY <1>5, <1>6

\* The size of two lists of pieces, one behind the other.
LEMMA SizeJoined ==
    ASSUME NEW p, NEW q, Pieces(p), Pieces(q)
    PROVE  Size(p \o q) = Size(p) + Size(q)
<1> DEFINE r == p \o q
<1>1. Pieces(r)
  BY PiecesJoined
<1>2. /\ Len(p) \in Nat /\ Len(q) \in Nat /\ Len(r) = Len(p) + Len(q)
      /\ \A i \in 1 .. Len(p) : r[i] = p[i]
      /\ \A i \in 1 .. Len(q) : r[Len(p) + i] = q[i]
  BY Joined DEF Pieces
<1> HIDE DEF r
<1>3. At(r, 1) = 0
  BY <1>1, AtRules
<1>4. At(r, Len(p) + 1) = Size(p)
  <2>1. PICK z \in Nat : z = 0
    OBVIOUS
  <2>2. \A j \in 1 .. Len(p) : z + j = j
    BY <2>1
  <2>3. z + Len(p) <= Len(r) /\ Len(p) + 1 \in 1 .. Len(p) + 1 /\ z + (Len(p) + 1) = Len(p) + 1 /\ z + 1 = 1
    BY <1>2, <2>1
  <2>4. \A j \in 1 .. Len(p) : r[z + j] = p[j]
    BY <1>2, <2>2
  <2>5. At(r, z + (Len(p) + 1)) = At(r, z + 1) + At(p, Len(p) + 1)
    <3>1. Within(p, r, z)
      BY <2>3, <2>4 DEF Within
    <3>2. QED
      BY <1>1, <2>3, <3>1, Run
  <2>6. At(p, Len(p) + 1) \in Nat
    BY <2>3, AtType
  <2>7. QED
    BY <1>3, <2>3, <2>5, <2>6 DEF Size
<1>5. At(r, Len(p) + (Len(q) + 1)) = At(r, Len(p) + 1) + At(q, Len(q) + 1)
  <2>1. PICK z \in Nat : z = Len(p)
    BY <1>2
  <2>2. z + Len(q) <= Len(r) /\ Len(q) + 1 \in 1 .. Len(q) + 1
    BY <1>2, <2>1
  <2>3. \A j \in 1 .. Len(q) : r[z + j] = q[j]
    BY <1>2, <2>1
  <2>4. At(r, z + (Len(q) + 1)) = At(r, z + 1) + At(q, Len(q) + 1)
    <3>1. Within(q, r, z)
      BY <2>2, <2>3 DEF Within
    <3>2. QED
      BY <1>1, <2>2, <3>1, Run
  <2>5. QED
    BY <2>1, <2>4
<1>6. Len(r) + 1 = Len(p) + (Len(q) + 1)
  BY <1>2
<1>7. QED
  BY <1>4, <1>5, <1>6 DEF Size, r

LEMMA SizeOfNone == Size(<<>>) = 0
BY NoPieces, EmptyList, AtRules DEF Size

LEMMA SizeOfOne == ASSUME NEW a, IsPiece(a) PROVE Size(<<a>>) = a.n
<1> DEFINE p == <<a>>
<1>0. a.n \in Nat
  BY DEF IsPiece
<1>1. Pieces(p) /\ Len(p) = 1 /\ p[1] = a
  BY FewPieces, ShortLists
<1> HIDE DEF p
<1>2. At(p, 1) = 0 /\ At(p, 1 + 1) = At(p, 1) + a.n
  BY <1>1, AtRules
<1>3. QED
  BY <1>0, <1>1, <1>2 DEF Size, p

LEMMA SizeOfTwo == ASSUME NEW a, NEW b, IsPiece(a), IsPiece(b) PROVE Size(<<a, b>>) = a.n + b.n
<1> DEFINE p == <<a, b>>
<1>0. a.n \in Nat /\ b.n \in Nat
  BY DEF IsPiece
<1>1. Pieces(p) /\ Len(p) = 2 /\ p[1] = a /\ p[2] = b
  BY FewPieces, ShortLists
<1> HIDE DEF p
<1>2. 1 \in 1 .. Len(p) /\ 2 \in 1 .. Len(p)
  BY <1>1
<1>3. At(p, 1) = 0 /\ At(p, 1 + 1) = At(p, 1) + a.n /\ At(p, 2 + 1) = At(p, 2) + b.n
  BY <1>1, <1>2, AtRules
<1>4. QED
  BY <1>0, <1>1, <1>3 DEF Size, p

LEMMA SizeOfThree ==
    ASSUME NEW a, NEW b, NEW c, IsPiece(a), IsPiece(b), IsPiece(c)
    PROVE  Size(<<a, b, c>>) = a.n + b.n + c.n
<1> DEFINE p == <<a, b, c>>
<1>0. a.n \in Nat /\ b.n \in Nat /\ c.n \in Nat
  BY DEF IsPiece
<1>1. Pieces(p) /\ Len(p) = 3 /\ p[1] = a /\ p[2] = b /\ p[3] = c
  BY FewPieces, ShortLists
<1> HIDE DEF p
<1>2. 1 \in 1 .. Len(p) /\ 2 \in 1 .. Len(p) /\ 3 \in 1 .. Len(p)
  BY <1>1
<1>3. /\ At(p, 1) = 0 /\ At(p, 1 + 1) = At(p, 1) + a.n /\ At(p, 2 + 1) = At(p, 2) + b.n
      /\ At(p, 3 + 1) = At(p, 3) + c.n
  BY <1>1, <1>2, AtRules
<1>4. QED
  BY <1>0, <1>1, <1>3 DEF Size, p

\* What writing pieces gives.
LEMMA WrittenRules ==
    ASSUME NEW p, Pieces(p)
    PROVE  /\ IsList(Written(p)) /\ Len(Written(p)) = Len(p) /\ DOMAIN Written(p) = 1 .. Len(p)
           /\ \A i \in 1 .. Len(p) : /\ Written(p)[i].kind = p[i].kind /\ Written(p)[i].n = p[i].n
                                     /\ Written(p)[i].v = p[i].v /\ Written(p)[i].at = At(p, i)
           /\ Bytes(Written(p)) = Size(p)
<1> DEFINE f == Written(p)
           at == Offsets(p)
<1>0. Len(p) \in Nat
  BY AtType
<1>1. f = [i \in 1 .. Len(p) |-> [p[i] EXCEPT !.at = at[i]]]
  BY DEF Written
<1> HIDE DEF f, at
<1>2. f = [i \in 1 .. Len(p) |-> f[i]]
  BY <1>1
<1>3. IsList(f) /\ Len(f) = Len(p) /\ DOMAIN f = 1 .. Len(p)
  BY <1>0, <1>2, FunctionList
<1>4. ASSUME NEW i \in 1 .. Len(p)
      PROVE  f[i].kind = p[i].kind /\ f[i].n = p[i].n /\ f[i].v = p[i].v /\ f[i].at = At(p, i)
  <2>1. p[i] = [kind |-> p[i].kind, at |-> p[i].at, n |-> p[i].n, v |-> p[i].v]
    BY DEF Pieces, IsPiece
  <2>2. f[i] = [p[i] EXCEPT !.at = at[i]]
    BY <1>1
  <2>3. f[i] = [kind |-> p[i].kind, at |-> at[i], n |-> p[i].n, v |-> p[i].v]
    BY <2>1, <2>2
  <2>4. QED
    BY <2>3 DEF At, at
<1>5. Bytes(f) = Size(p)
  <2>1. CASE Len(p) = 0
    <3>1. f = <<>>
      BY <1>3, <2>1, EmptyList, SameList
    <3>2. At(p, 1) = 0
      BY AtRules
    <3>3. QED
      BY <2>1, <3>1, <3>2 DEF Bytes, Size
  <2>2. CASE Len(p) # 0
    <3>1. Len(p) \in 1 .. Len(p) /\ f # <<>>
      BY <1>0, <1>3, <2>2, EmptyList
    <3>2. Bytes(f) = f[Len(p)].at + f[Len(p)].n
      BY <1>3, <3>1 DEF Bytes, Last
    <3>3. At(p, Len(p) + 1) = At(p, Len(p)) + p[Len(p)].n
      BY <3>1, AtRules
    <3>4. QED
      BY <1>4, <3>1, <3>2, <3>3 DEF Size
  <2>3. QED
    BY <2>1, <2>2
<1>6. QED
  BY <1>3, <1>4, <1>5 DEF f

(***************************************************************************)
(* The walk over the chunks                                                 *)
(***************************************************************************)

LEMMA WrittenHeaded == ASSUME NEW p, Pieces(p) PROVE Headed(Written(p))
<1> DEFINE f == Written(p)
<1>1. /\ DOMAIN f = 1 .. Len(p)
      /\ \A i \in 1 .. Len(p) : f[i].kind = p[i].kind /\ f[i].v = p[i].v /\ f[i].at = At(p, i)
  BY WrittenRules
<1> HIDE DEF f
<1>2. /\ Len(p) \in Nat
      /\ \A i \in 1 .. Len(p) : p[i].kind = "header" => p[i].n = 8 /\ p[i].v.size \in Nat
  BY AtType DEF Pieces, IsPiece, ChunkHeaderSize
<1>3. \A i \in 1 .. Len(p) : At(p, i) \in Nat
  BY <1>2, AtType
<1>4. ASSUME NEW i \in 1 .. Len(p), NEW j \in 1 .. Len(p), i < j,
             p[i].kind = "header"
      PROVE  At(p, i) # At(p, j)
  <2>1. j \in 1 .. Len(p) + 1
    BY <1>2
  <2>2. At(p, i) + p[i].n <= At(p, j)
    BY <1>4, <2>1, AtGrows
  <2>3. QED
    BY <1>2, <1>3, <1>4, <2>2
<1>5. ASSUME NEW i \in 1 .. Len(p), NEW j \in 1 .. Len(p),
             p[i].kind = "header", p[j].kind = "header", At(p, i) = At(p, j)
      PROVE  i = j
  <2>1. i < j \/ j < i \/ i = j
    BY <1>2
  <2>2. QED
    BY <1>4, <1>5, <2>1
<1>6. Headed(f)
  BY <1>1, <1>2, <1>5 DEF Headed
<1>7. QED
  BY <1>6 DEF f

\* The two ways a walk tests the end of the room agree on what fits.
LEMMA Ends ==
    ASSUME NEW pos \in Nat, NEW size \in Nat, NEW end \in Nat, NEW needPad
    PROVE  /\ size % 2 \in 0 .. 1
           /\ chunkTotalSize(size) \in Nat /\ chunkTotalSize(size) >= 8
           /\ pos + chunkTotalSize(size) = pos + ChunkHeaderSize + size + (size % 2)
           /\ Fits(pos, size, end, needPad) => pos + chunkTotalSize(size) \in 0 .. end + 1
<1>1. size % 2 \in 0 .. 1
  OBVIOUS
<1>2. PICK q \in 0 .. 1 : q = size % 2
  BY <1>1
<1>3. QED
  BY <1>2 DEF chunkTotalSize, ChunkHeaderSize, Fits, CutOff

LEMMA FitsRoom ==
    ASSUME NEW pos \in Nat, NEW size \in Nat, NEW end \in Nat, NEW needPad, Fits(pos, size, end, needPad)
    PROVE  /\ pos + 8 <= end /\ pos + 8 + size <= end
           /\ needPad => pos + chunkTotalSize(size) <= end
<1>1. PICK q \in 0 .. 1 : q = size % 2
  BY Ends
<1>2. (IF needPad THEN pos + 8 + size + q ELSE pos + 8 + size) <= end
  BY <1>1 DEF Fits, CutOff, ChunkHeaderSize
<1>3. pos + 8 + size + q = pos + chunkTotalSize(size)
  BY <1>1 DEF chunkTotalSize, ChunkHeaderSize
<1>4. QED
  BY <1>2, <1>3

LEMMA SizeNat == ASSUME NEW f, Headed(f), NEW pos, HeadersAt(f, pos) # {} PROVE SizeAt(f, pos) \in Nat /\ HeaderAt(f, pos) \in HeadersAt(f, pos)
<1>1. HeaderAt(f, pos) \in HeadersAt(f, pos)
  BY DEF HeaderAt
<1>2. QED
  BY <1>1 DEF HeadersAt, SizeAt, Headed

LEMMA SomeWalk ==
    ASSUME NEW f, Headed(f), NEW end \in Nat, NEW needPad
    PROVE  \E from : from = [pos \in 0 .. (end + 1) |-> WalkStep(f, end, needPad, from, pos)]
<1> DEFINE low(m) == end + 1 - m
           P(m) == \E from : from = [pos \in low(m) .. (end + 1) |-> WalkStep(f, end, needPad, from, pos)]
           T == {m \in Nat : m <= end + 1 => P(m)}
<1>1. 0 \in T
  <2> DEFINE from == [pos \in low(0) .. (end + 1) |-> <<>>]
  <2>1. from = [pos \in low(0) .. (end + 1) |-> WalkStep(f, end, needPad, from, pos)]
    <3>1. \A pos \in low(0) .. (end + 1) : pos + ChunkHeaderSize > end
      BY DEF ChunkHeaderSize
    <3>2. QED
      BY <3>1 DEF WalkStep
  <2>2. QED
    BY <2>1
<1>2. ASSUME NEW m \in T PROVE m + 1 \in T
  <2> SUFFICES ASSUME m + 1 <= end + 1 PROVE P(m + 1)
    OBVIOUS
  <2>0. m \in Nat /\ m <= end + 1 /\ low(m + 1) = low(m) - 1 /\ low(m) \in Nat /\ low(m + 1) \in Nat
    OBVIOUS
  <2>1. PICK c : c = [pos \in low(m) .. (end + 1) |-> WalkStep(f, end, needPad, c, pos)]
    BY <2>0
  <2> DEFINE e == [pos \in low(m + 1) .. (end + 1) |->
                      IF pos >= low(m) THEN c[pos] ELSE WalkStep(f, end, needPad, c, pos)]
  <2>2. ASSUME NEW pos \in low(m + 1) .. (end + 1) PROVE e[pos] = WalkStep(f, end, needPad, e, pos)
    <3>0. pos \in Nat
      BY <2>0
    <3>1. WalkStep(f, end, needPad, e, pos) = WalkStep(f, end, needPad, c, pos)
      <4>1. CASE pos + ChunkHeaderSize > end \/ HeadersAt(f, pos) = {}
                 \/ ~Fits(pos, SizeAt(f, pos), end, needPad)
        BY <4>1 DEF WalkStep, Fits
      <4>2. CASE ~(pos + ChunkHeaderSize > end) /\ HeadersAt(f, pos) # {}
                 /\ Fits(pos, SizeAt(f, pos), end, needPad)
        <5>1. PICK q : q = pos + ChunkHeaderSize + SizeAt(f, pos) + (SizeAt(f, pos) % 2)
          OBVIOUS
        <5>2. SizeAt(f, pos) \in Nat
          BY <4>2, SizeNat
        <5>3. /\ q \in 0 .. end + 1 /\ q = pos + chunkTotalSize(SizeAt(f, pos))
              /\ chunkTotalSize(SizeAt(f, pos)) \in Nat /\ chunkTotalSize(SizeAt(f, pos)) >= 8
          BY <3>0, <4>2, <5>1, <5>2, Ends
        <5>4. q >= low(m) /\ q \in low(m + 1) .. (end + 1)
          BY <2>0, <3>0, <5>3
        <5>5. e[q] = c[q]
          BY <5>4
        <5> HIDE DEF e
        <5>6. QED
          BY <4>2, <5>1, <5>5 DEF WalkStep, Fits
      <4>3. QED
        BY <4>1, <4>2
    <3>2. pos >= low(m) => c[pos] = WalkStep(f, end, needPad, c, pos)
      <4>1. pos >= low(m) => pos \in low(m) .. (end + 1)
        BY <2>0, <3>0
      <4> HIDE DEF low
      <4>2. QED
        BY <2>1, <4>1
    <3>3. QED
      BY <3>1, <3>2
  <2>3. e = [pos \in low(m + 1) .. (end + 1) |-> WalkStep(f, end, needPad, e, pos)]
    BY <2>2
  <2>4. QED
    BY <2>3
<1> HIDE DEF P
<1>3. P(end + 1)
  <2>1. T \in SUBSET Nat /\ end + 1 \in Nat
    OBVIOUS
  <2>2. end + 1 \in T => P(end + 1)
    OBVIOUS
  <2> HIDE DEF T
  <2>3. QED
    BY <1>1, <1>2, <2>1, <2>2, CountUp
<1>4. low(end + 1) = 0
  OBVIOUS
<1>5. QED
  BY <1>3, <1>4 DEF P

\* What each step of the walk over chunk headers computes.
LEMMA WalkRules ==
    ASSUME NEW f, Headed(f), NEW end \in Nat, NEW needPad, NEW pos \in 0 .. (end + 1)
    PROVE  /\ pos + 8 > end => Walk(f, pos, end, needPad) = <<>>
           /\ \A i \in DOMAIN f :
                  f[i].kind = "header" /\ f[i].at = pos /\ pos + 8 <= end =>
                      Walk(f, pos, end, needPad) =
                          IF Fits(pos, f[i].v.size, end, needPad)
                          THEN <<i>> \o Walk(f, pos + chunkTotalSize(f[i].v.size), end, needPad)
                          ELSE <<0>>
<1> DEFINE from == CHOOSE from : from = [q \in 0 .. (end + 1) |-> WalkStep(f, end, needPad, from, q)]
<1>1. from = [q \in 0 .. (end + 1) |-> WalkStep(f, end, needPad, from, q)]
  BY SomeWalk
<1>2. \A q : Walk(f, q, end, needPad) = from[q]
  BY DEF Walk, WalkStep, HeadersAt, HeaderAt, SizeAt, CutOff
<1> HIDE DEF from
<1>3. Walk(f, pos, end, needPad) = WalkStep(f, end, needPad, from, pos)
  BY <1>1, <1>2
<1>4. pos \in Nat
  OBVIOUS
<1>5. pos + 8 > end => Walk(f, pos, end, needPad) = <<>>
  BY <1>3 DEF WalkStep, ChunkHeaderSize
<1>6. ASSUME NEW i \in DOMAIN f, f[i].kind = "header", f[i].at = pos, pos + 8 <= end
      PROVE  Walk(f, pos, end, needPad) =
                          IF Fits(pos, f[i].v.size, end, needPad)
                          THEN <<i>> \o Walk(f, pos + chunkTotalSize(f[i].v.size), end, needPad)
                          ELSE <<0>>
  <2>1. i \in HeadersAt(f, pos)
    BY <1>6 DEF HeadersAt
  <2>2. HeaderAt(f, pos) \in HeadersAt(f, pos) /\ SizeAt(f, pos) \in Nat
    BY <2>1, SizeNat
  <2>3. HeaderAt(f, pos) = i
    BY <1>6, <2>2 DEF HeadersAt, Headed
  <2>4. SizeAt(f, pos) = f[i].v.size
    BY <2>3 DEF SizeAt
  <2>5. ~(pos + ChunkHeaderSize > end)
    BY <1>4, <1>6 DEF ChunkHeaderSize
  <2>6. pos + chunkTotalSize(f[i].v.size) = pos + ChunkHeaderSize + SizeAt(f, pos) + (SizeAt(f, pos) % 2)
    BY <1>4, <2>2, <2>4, Ends
  <2>7. QED
    BY <1>2, <1>3, <2>1, <2>3, <2>4, <2>5, <2>6 DEF WalkStep, Fits
<1>7. QED
  BY <1>5, <1>6

\* The walk finds the headers of the chunks of a chain that fit before end.
LEMMA WalkFinds ==
    ASSUME NEW f, Headed(f), NEW end \in Nat, NEW needPad, NEW m, NEW hs, NEW pos, NEW j,
           Chain(f, m, hs, pos), Stops(f, m, hs, pos, j, end, needPad), pos[1] <= end + 1
    PROVE  LET w == Walk(f, pos[1], end, needPad)
           IN  /\ IsList(w) /\ Len(w) = j + Rest(pos, j, end)
               /\ \A k \in 1 .. j : w[k] = hs[k]
               /\ pos[j + 1] + 8 <= end => w[j + 1] = 0
<1> DEFINE W(k) == Walk(f, pos[k], end, needPad)
           Good(i) == /\ IsList(W(j + 1 - i)) /\ Len(W(j + 1 - i)) = i + Rest(pos, j, end)
                      /\ \A k \in 1 .. i : W(j + 1 - i)[k] = hs[j - i + k]
                      /\ pos[j + 1] + 8 <= end => W(j + 1 - i)[i + 1] = 0
           T == {i \in Nat : i <= j => Good(i)}
<1>0. /\ m \in Nat /\ j \in Nat /\ j <= m
      /\ \A k \in 1 .. m + 1 : pos[k] \in Nat
      /\ \A k \in 1 .. m : /\ hs[k] \in DOMAIN f /\ f[hs[k]].kind = "header" /\ f[hs[k]].at = pos[k]
                           /\ pos[k + 1] = pos[k] + chunkTotalSize(f[hs[k]].v.size)
                           /\ f[hs[k]].v.size \in Nat
  BY DEF Chain, Stops, Headed
<1>1. ASSUME NEW k \in 1 .. j PROVE pos[k + 1] \in 0 .. (end + 1)
  <2>1. k \in 1 .. m
    BY <1>0
  <2>2. Fits(pos[k], f[hs[k]].v.size, end, needPad)
    BY DEF Stops, FitsAt
  <2>3. pos[k] \in Nat
    BY <1>0, <2>1
  <2>4. QED
    BY <1>0, <2>1, <2>2, <2>3, Ends
<1>2. ASSUME NEW k \in 1 .. j + 1 PROVE pos[k] \in 0 .. (end + 1)
  <2>1. CASE k = 1
    <3>1. 1 \in 1 .. m + 1
      BY <1>0
    <3>2. pos[1] \in Nat
      BY <1>0, <3>1
    <3>3. QED
      BY <2>1, <3>2
  <2>2. CASE k # 1
    <3>1. k - 1 \in 1 .. j /\ (k - 1) + 1 = k
      BY <1>0, <2>2
    <3>2. QED
      BY <1>1, <3>1
  <2>3. QED
    BY <2>1, <2>2
<1>3. 0 \in T
  <2>1. j + 1 - 0 = j + 1 /\ j + 1 \in 1 .. j + 1 /\ j + 1 \in 1 .. m + 1
    BY <1>0
  <2>2. pos[j + 1] \in 0 .. (end + 1)
    BY <1>2, <2>1
  <2>3. CASE pos[j + 1] + 8 > end
    <3>1. W(j + 1) = <<>>
      BY <2>2, <2>3, WalkRules
    <3>2. Rest(pos, j, end) = 0 /\ ~(pos[j + 1] + 8 <= end)
      BY <2>2, <2>3 DEF Rest
    <3>3. QED
      BY <2>1, <3>1, <3>2, EmptyList
  <2>4. CASE ~(pos[j + 1] + 8 > end)
    <3>1. j < m
      BY <1>0, <2>4 DEF Stops
    <3>2. j + 1 \in 1 .. m /\ pos[j + 1] + 8 <= end
      BY <1>0, <2>2, <2>4, <3>1
    <3>3. ~Fits(pos[j + 1], f[hs[j + 1]].v.size, end, needPad)
      BY <3>1 DEF Stops, FitsAt
    <3>4. hs[j + 1] \in DOMAIN f /\ f[hs[j + 1]].kind = "header" /\ f[hs[j + 1]].at = pos[j + 1]
      BY <1>0, <3>2
    <3>5. W(j + 1) = <<0>>
      BY <2>2, <3>2, <3>3, <3>4, WalkRules
    <3>6. Rest(pos, j, end) = 1
      BY <2>4 DEF Rest
    <3> DEFINE z == <<0>>
    <3>7. IsList(z) /\ Len(z) = 1 /\ z[1] = 0
      BY ShortLists
    <3>8. W(j + 1 - 0) = z
      BY <2>1, <3>5
    <3> HIDE DEF z, W
    <3>9. QED
      BY <3>6, <3>7, <3>8
  <2>5. QED
    BY <2>3, <2>4
<1>4. ASSUME NEW i \in T PROVE i + 1 \in T
  <2> SUFFICES ASSUME i + 1 <= j PROVE Good(i + 1)
    OBVIOUS
  <2>0. i \in Nat /\ Good(i)
    <3> HIDE DEF Good
    <3>1. QED
      BY <1>0
  <2>1. PICK k \in 1 .. j : k = j - i /\ k + 1 = j + 1 - i /\ k = j + 1 - (i + 1) /\ k \in 1 .. m /\ k \in 1 .. j + 1
    <3>1. j - i \in 1 .. j /\ (j - i) + 1 = j + 1 - i /\ j - i = j + 1 - (i + 1)
      BY <1>0, <2>0
    <3>2. j - i \in 1 .. m /\ j - i \in 1 .. j + 1
      BY <1>0, <3>1
    <3>3. QED
      BY <3>1, <3>2
  <2>2. pos[k] \in 0 .. (end + 1) /\ pos[k] \in Nat
    BY <1>0, <1>2, <2>1
  <2>3. Fits(pos[k], f[hs[k]].v.size, end, needPad)
    BY DEF Stops, FitsAt
  <2>4. pos[k] + 8 <= end
    <3>1. PICK size \in Nat : size = f[hs[k]].v.size
      BY <1>0, <2>1
    <3>2. QED
      BY <2>2, <2>3, <3>1, FitsRoom
  <2>5. W(k) = <<hs[k]>> \o W(k + 1)
    BY <1>0, <2>1, <2>2, <2>3, <2>4, WalkRules
  <2> DEFINE t == W(k + 1)
  <2>6. /\ IsList(t) /\ Len(t) = i + Rest(pos, j, end)
        /\ \A x \in 1 .. i : t[x] = hs[k + x]
        /\ pos[j + 1] + 8 <= end => t[i + 1] = 0
    <3>1. W(j + 1 - i) = t
      BY <2>1
    <3> HIDE DEF W
    <3>2. \A x \in 1 .. i : j - i + x = k + x
      BY <2>1
    <3>3. QED
      BY <2>0, <3>1, <3>2
  <2>7. Rest(pos, j, end) \in 0 .. 1
    BY DEF Rest
  <2>8. Rest(pos, j, end) = 1 <=> pos[j + 1] + 8 <= end
    <3>1. j + 1 \in 1 .. m + 1
      BY <1>0
    <3>2. pos[j + 1] \in Nat
      BY <1>0, <3>1
    <3>3. QED
      BY <3>2 DEF Rest
  <2> DEFINE u == <<hs[k]>>
  <2>9. IsList(u) /\ Len(u) = 1 /\ u[1] = hs[k]
    BY ShortLists
  <2>10. W(k) = u \o t
    BY <2>5
  <2> HIDE DEF t, u, W
  <2>11. /\ IsList(W(k)) /\ Len(W(k)) = 1 + Len(t)
         /\ (\A x \in 1 .. 1 : W(k)[x] = u[x])
         /\ \A x \in 1 .. Len(t) : W(k)[1 + x] = t[x]
    <3>1. /\ IsList(u \o t) /\ Len(u \o t) = Len(u) + Len(t)
          /\ \A x \in 1 .. Len(u) : (u \o t)[x] = u[x]
          /\ \A x \in 1 .. Len(t) : (u \o t)[Len(u) + x] = t[x]
      <4>1. IsList(u) /\ IsList(t)
        BY <2>6, <2>9
      <4>2. QED
        BY <4>1, Joined
    <3>2. QED
      BY <2>9, <2>10, <3>1
  <2>12. Len(W(k)) = (i + 1) + Rest(pos, j, end)
    BY <2>0, <2>6, <2>7, <2>11
  <2>13. ASSUME NEW x \in 1 .. i + 1 PROVE W(k)[x] = hs[j - (i + 1) + x]
    <3>1. CASE x = 1
      <4>1. j - (i + 1) + x = k
        BY <1>0, <2>0, <2>1, <3>1
      <4>2. QED
        BY <2>9, <2>11, <3>1, <4>1
    <3>2. CASE x # 1
      <4>1. x - 1 \in 1 .. i /\ x - 1 \in 1 .. Len(t) /\ 1 + (x - 1) = x
        BY <2>0, <2>6, <2>7, <3>2
      <4>2. k + (x - 1) = j - (i + 1) + x
        BY <1>0, <2>0, <2>1
      <4>3. W(k)[x] = t[x - 1]
        BY <2>11, <4>1
      <4>4. t[x - 1] = hs[k + (x - 1)]
        BY <2>6, <4>1
      <4>5. QED
        BY <4>2, <4>3, <4>4
    <3>3. QED
      BY <3>1, <3>2
  <2>14. ASSUME pos[j + 1] + 8 <= end PROVE W(k)[(i + 1) + 1] = 0
    <3>1. i + 1 \in 1 .. Len(t) /\ 1 + (i + 1) = (i + 1) + 1
      BY <2>0, <2>6, <2>8, <2>14
    <3>2. QED
      BY <2>6, <2>11, <2>14, <3>1
  <2>15. QED
    BY <2>1, <2>11, <2>12, <2>13, <2>14
<1>5. j \in T
  <2>1. T \in SUBSET Nat
    OBVIOUS
  <2> HIDE DEF T
  <2>2. QED
    BY <1>0, <1>3, <1>4, <2>1, CountUp
<1>6. j + 1 - j = 1 /\ (\A k \in 1 .. j : j - j + k = k) /\ j <= j
  BY <1>0
<1>7. Good(j)
  BY <1>5, <1>6
<1> HIDE DEF W
<1>8. QED
  BY <1>6, <1>7 DEF W

(***************************************************************************)
(* Chunks                                                                   *)
(***************************************************************************)

LEMMA ChunkedNone == Chunked(<<>>, <<>>)
<1> DEFINE st == [k \in 1 .. 1 |-> 0]
<1>1. Starts(<<>>, <<>>, st)
  BY EmptyList DEF Starts
<1>2. QED
  BY <1>1, NoPieces, EmptyList DEF Chunked

LEMMA ChunkedOne == ASSUME NEW c, IsChunk(c) PROVE Chunked(c, <<c>>)
<1> DEFINE cs == <<c>>
           st == [k \in 1 .. 2 |-> IF k = 1 THEN 0 ELSE Len(c)]
<1>1. IsList(cs) /\ Len(cs) = 1 /\ cs[1] = c
  BY ShortLists
<1>2. Pieces(c) /\ Len(c) \in Nat
  BY AtType DEF IsChunk
<1>3. Within(c, c, 0)
  BY <1>2 DEF Within
<1>4. st[1] = 0 /\ st[1 + 1] = Len(c) /\ 0 + Len(c) = Len(c)
  BY <1>2
<1> HIDE DEF cs, st
<1>5. \A k \in 1 .. Len(cs) : k = 1
  BY <1>1
<1>6. Starts(c, cs, st)
  BY <1>1, <1>3, <1>4, <1>5 DEF Starts
<1>7. Chunked(c, cs)
  BY <1>1, <1>2, <1>6 DEF Chunked
<1>8. QED
  BY <1>7 DEF cs

LEMMA WithinLeft ==
    ASSUME NEW p, NEW q, Pieces(p), Pieces(q), NEW c, Pieces(c), NEW s
    PROVE  /\ Within(c, p, s) => Within(c, p \o q, s)
           /\ Within(c, q, s) => Within(c, p \o q, Len(p) + s)
<1> DEFINE r == p \o q
<1>1. /\ Len(p) \in Nat /\ Len(q) \in Nat /\ Len(r) = Len(p) + Len(q) /\ Len(c) \in Nat
      /\ \A i \in 1 .. Len(p) : r[i] = p[i]
      /\ \A i \in 1 .. Len(q) : r[Len(p) + i] = q[i]
  BY Joined, AtType DEF Pieces
<1> HIDE DEF r
<1>2. ASSUME Within(c, p, s) PROVE Within(c, r, s)
  <2>1. s \in Nat /\ s + Len(c) <= Len(p) /\ \A j \in 1 .. Len(c) : p[s + j] = c[j]
    BY <1>2 DEF Within
  <2>2. \A j \in 1 .. Len(c) : s + j \in 1 .. Len(p)
    BY <1>1, <2>1
  <2>3. \A j \in 1 .. Len(c) : r[s + j] = c[j]
    BY <1>1, <2>1, <2>2
  <2>4. s + Len(c) <= Len(r)
    BY <1>1, <2>1
  <2>5. QED
    BY <2>1, <2>3, <2>4 DEF Within
<1>3. ASSUME Within(c, q, s) PROVE Within(c, r, Len(p) + s)
  <2>1. s \in Nat /\ s + Len(c) <= Len(q) /\ \A j \in 1 .. Len(c) : q[s + j] = c[j]
    BY <1>3 DEF Within
  <2>2. ASSUME NEW j \in 1 .. Len(c) PROVE r[(Len(p) + s) + j] = c[j]
    <3>1. s + j \in 1 .. Len(q) /\ (Len(p) + s) + j = Len(p) + (s + j)
      BY <1>1, <2>1
    <3>2. QED
      BY <1>1, <2>1, <3>1
  <2>3. Len(p) + s \in Nat /\ (Len(p) + s) + Len(c) <= Len(r)
    BY <1>1, <2>1
  <2>4. QED
    BY <2>2, <2>3 DEF Within
<1>4. QED
  BY <1>2, <1>3 DEF r

\* Two lists of pieces that are chunks are chunks one behind the other.
LEMMA ChunkedJoined ==
    ASSUME NEW p, NEW cs, Chunked(p, cs), NEW q, NEW ds, Chunked(q, ds)
    PROVE  Chunked(p \o q, cs \o ds)
<1> DEFINE r == p \o q
           es == cs \o ds
           m == Len(cs)
           n == Len(ds)
<1>1. Pieces(p) /\ Pieces(q) /\ IsList(cs) /\ IsList(ds) /\ Pieces(r)
  BY PiecesJoined DEF Chunked
<1>2. /\ Len(p) \in Nat /\ Len(q) \in Nat /\ Len(r) = Len(p) + Len(q)
  BY <1>1, Joined DEF Pieces
<1>3. /\ IsList(es) /\ m \in Nat /\ n \in Nat /\ Len(es) = m + n
      /\ \A i \in 1 .. m : es[i] = cs[i]
      /\ \A i \in 1 .. n : es[m + i] = ds[i]
  BY <1>1, Joined
<1>4. PICK a : Starts(p, cs, a)
  BY DEF Chunked
<1>5. PICK b : Starts(q, ds, b)
  BY DEF Chunked
<1> DEFINE st == [k \in 1 .. m + n + 1 |-> IF k <= m THEN a[k] ELSE Len(p) + b[k - m]]
<1> HIDE DEF es, r, m, n
<1>6. /\ a[1] = 0 /\ a[m + 1] = Len(p)
      /\ \A k \in 1 .. m : /\ IsChunk(cs[k]) /\ Within(cs[k], p, a[k])
                           /\ a[k + 1] = a[k] + Len(cs[k])
  BY <1>4 DEF Starts, m
<1>7. /\ b[1] = 0 /\ b[n + 1] = Len(q)
      /\ \A k \in 1 .. n : /\ IsChunk(ds[k]) /\ Within(ds[k], q, b[k])
                           /\ b[k + 1] = b[k] + Len(ds[k])
  BY <1>5 DEF Starts, n
<1>8. ASSUME NEW k \in 1 .. m + 1 PROVE st[k] = a[k]
  <2>1. k \in 1 .. m + n + 1
    BY <1>3
  <2>2. CASE k <= m
    BY <2>1, <2>2
  <2>3. CASE k > m
    <3>1. k = m + 1 /\ k - m = 1 /\ ~(k <= m)
      BY <1>3, <2>3
    <3>2. st[k] = Len(p) + b[1]
      BY <2>1, <3>1
    <3>3. Len(p) + b[1] = Len(p)
      BY <1>2, <1>7
    <3>4. a[k] = Len(p)
      BY <1>6, <3>1
    <3>5. QED
      BY <3>2, <3>3, <3>4
  <2>4. QED
    BY <1>3, <2>2, <2>3
<1>9. ASSUME NEW k \in 1 .. n + 1 PROVE st[m + k] = Len(p) + b[k]
  <2>1. m + k \in 1 .. m + n + 1 /\ ~(m + k <= m) /\ (m + k) - m = k
    BY <1>3
  <2>2. QED
    BY <2>1
<1> HIDE DEF st
<1>10. ASSUME NEW k \in 1 .. Len(es)
       PROVE  /\ IsChunk(es[k]) /\ Within(es[k], r, st[k]) /\ st[k + 1] = st[k] + Len(es[k])
  <2>1. CASE k \in 1 .. m
    <3>1. k \in 1 .. m + 1 /\ k + 1 \in 1 .. m + 1
      BY <1>3, <2>1
    <3>2. st[k] = a[k] /\ st[k + 1] = a[k + 1] /\ es[k] = cs[k]
      BY <1>3, <1>8, <2>1, <3>1
    <3>3. IsChunk(cs[k]) /\ Within(cs[k], p, a[k]) /\ Pieces(cs[k])
      BY <1>6, <2>1 DEF IsChunk
    <3>4. Within(cs[k], r, a[k])
      BY <1>1, <3>3, WithinLeft DEF r
    <3>5. QED
      BY <1>6, <2>1, <3>2, <3>3, <3>4
  <2>2. CASE k \notin 1 .. m
    <3>1. PICK l \in 1 .. n : k = m + l /\ k + 1 = m + (l + 1) /\ l \in 1 .. n + 1 /\ l + 1 \in 1 .. n + 1
      <4>1. k - m \in 1 .. n /\ k = m + (k - m) /\ k + 1 = m + ((k - m) + 1) /\ k - m \in 1 .. n + 1 /\ (k - m) + 1 \in 1 .. n + 1
        BY <1>3, <2>2
      <4>2. QED
        BY <4>1
    <3>2. st[k] = Len(p) + b[l] /\ st[k + 1] = Len(p) + b[l + 1] /\ es[k] = ds[l]
      BY <1>3, <1>9, <3>1
    <3>3. IsChunk(ds[l]) /\ Within(ds[l], q, b[l]) /\ Pieces(ds[l]) /\ b[l] \in Nat /\ Len(ds[l]) \in Nat
      BY <1>7, AtType DEF IsChunk, Within
    <3>4. Within(ds[l], r, Len(p) + b[l])
      BY <1>1, <3>3, WithinLeft DEF r
    <3>5. b[l + 1] = b[l] + Len(ds[l])
      BY <1>7
    <3>6. QED
      BY <1>2, <3>2, <3>3, <3>4, <3>5
  <2>3. QED
    BY <2>1, <2>2
<1>11. st[1] = 0 /\ st[Len(es) + 1] = Len(r)
  <2>1. 1 \in 1 .. m + 1 /\ n + 1 \in 1 .. n + 1 /\ Len(es) + 1 = m + (n + 1)
    BY <1>3
  <2>2. st[1] = a[1] /\ st[m + (n + 1)] = Len(p) + b[n + 1]
    BY <1>8, <1>9, <2>1
  <2>3. QED
    BY <1>2, <1>6, <1>7, <2>1, <2>2
<1>12. Starts(r, es, st)
  BY <1>10, <1>11 DEF Starts
<1>13. Chunked(r, es)
  BY <1>1, <1>3, <1>12 DEF Chunked
<1>14. QED
  BY <1>13 DEF r, es

\* The chunks of a list, flattened.
LEMMA ChunkedFlat ==
    ASSUME NEW n \in Nat, NEW cs, cs = [i \in 1 .. n |-> cs[i]], \A i \in 1 .. n : IsChunk(cs[i])
    PROVE  Chunked(FlattenSeq(cs), cs)
<1> DEFINE Next1(g, i) == IF i = 1 THEN cs[i] ELSE g[i - 1] \o cs[i]
           P(m) == \E g : g = [i \in 1 .. m |-> Next1(g, i)]
           T == {m \in Nat : P(m)}
           flatten == CHOOSE g : g = [i \in 1 .. n |-> Next1(g, i)]
<1>0. IsList(cs) /\ Len(cs) = n
  BY FunctionList
<1>1. FlattenSeq(cs) = IF n = 0 THEN cs ELSE flatten[n]
  BY <1>0 DEF FlattenSeq
<1>2. 0 \in T
  <2> DEFINE g == [i \in 1 .. 0 |-> <<>>]
  <2>1. g = [i \in 1 .. 0 |-> Next1(g, i)]
    OBVIOUS
  <2>2. QED
    BY <2>1
<1>3. ASSUME NEW m \in T PROVE m + 1 \in T
  <2>1. PICK c : c = [i \in 1 .. m |-> Next1(c, i)]
    OBVIOUS
  <2> DEFINE e == [i \in 1 .. m + 1 |-> IF i <= m THEN c[i] ELSE Next1(c, i)]
  <2>2. ASSUME NEW i \in 1 .. m + 1 PROVE e[i] = Next1(e, i)
    <3>1. i # 1 => i - 1 \in 1 .. m /\ e[i - 1] = c[i - 1]
      OBVIOUS
    <3>2. Next1(e, i) = Next1(c, i)
      <4> HIDE DEF e
      <4>1. QED
        BY <3>1
    <3>3. i \in 1 .. m => c[i] = Next1(c, i)
      <4> HIDE DEF Next1
      <4>1. QED
        BY <2>1
    <3>4. QED
      <4> HIDE DEF Next1
      <4>1. QED
        BY <3>2, <3>3
  <2>3. e = [i \in 1 .. m + 1 |-> Next1(e, i)]
    <3> HIDE DEF Next1
    <3>1. QED
      BY <2>2
  <2>4. P(m + 1)
    BY <2>3
  <2> HIDE DEF P
  <2>5. QED
    BY <2>4
<1> HIDE DEF P
<1>4. P(n)
  <2>1. T \in SUBSET Nat /\ (n \in T => P(n))
    OBVIOUS
  <2> HIDE DEF T
  <2>2. QED
    BY <1>2, <1>3, <2>1, CountUp
<1>5. flatten = [i \in 1 .. n |-> Next1(flatten, i)]
  BY <1>4 DEF P
<1> HIDE DEF flatten, T
<1>6. \A i \in 1 .. n : flatten[i] = IF i = 1 THEN cs[i] ELSE flatten[i - 1] \o cs[i]
  BY <1>5
<1> DEFINE upto(m) == [i \in 1 .. m |-> cs[i]]
           U == {m \in Nat : m + 1 <= n => Chunked(flatten[m + 1], upto(m + 1))}
<1>7. 0 \in U
  <2> SUFFICES ASSUME 0 + 1 <= n PROVE Chunked(flatten[0 + 1], upto(0 + 1))
    OBVIOUS
  <2>1. flatten[1] = cs[1] /\ IsChunk(cs[1])
    BY <1>6
  <2>2. upto(1) = <<cs[1]>>
    OBVIOUS
  <2>3. QED
    BY <2>1, <2>2, ChunkedOne
<1>8. ASSUME NEW m \in U PROVE m + 1 \in U
  <2> SUFFICES ASSUME (m + 1) + 1 <= n PROVE Chunked(flatten[(m + 1) + 1], upto((m + 1) + 1))
    OBVIOUS
  <2>1. PICK k \in 1 .. n : k = m + 1 /\ k + 1 \in 1 .. n /\ k + 1 # 1 /\ (k + 1) - 1 = k
    OBVIOUS
  <2>2. Chunked(flatten[k], upto(k))
    BY <2>1
  <2>3. flatten[k + 1] = flatten[k] \o cs[k + 1] /\ IsChunk(cs[k + 1])
    BY <1>6, <2>1
  <2>4. Chunked(flatten[k + 1], upto(k) \o <<cs[k + 1]>>)
    <3> DEFINE c == cs[k + 1]
               u == upto(k)
    <3>1. IsChunk(c) /\ Chunked(flatten[k], u) /\ flatten[k + 1] = flatten[k] \o c
      BY <2>2, <2>3
    <3> HIDE DEF c, u
    <3>2. Chunked(c, <<c>>)
      BY <3>1, ChunkedOne
    <3>3. Chunked(flatten[k] \o c, u \o <<c>>)
      BY <3>1, <3>2, ChunkedJoined
    <3>4. QED
      BY <3>1, <3>3 DEF c, u
  <2>5. upto(k) \o <<cs[k + 1]>> = upto(k + 1)
    <3> DEFINE u == upto(k)
               v == <<cs[k + 1]>>
               w == upto(k + 1)
    <3>1. IsList(u) /\ Len(u) = k /\ \A i \in 1 .. k : u[i] = cs[i]
      BY <2>1, FunctionList
    <3>2. IsList(v) /\ Len(v) = 1 /\ v[1] = cs[k + 1]
      BY ShortLists
    <3>3. IsList(w) /\ Len(w) = k + 1 /\ \A i \in 1 .. k + 1 : w[i] = cs[i]
      BY <2>1, FunctionList
    <3> HIDE DEF u, v, w
    <3>4. /\ IsList(u \o v) /\ Len(u \o v) = Len(u) + Len(v)
          /\ \A x \in 1 .. Len(u) : (u \o v)[x] = u[x]
          /\ \A x \in 1 .. Len(v) : (u \o v)[Len(u) + x] = v[x]
      <4>1. IsList(u) /\ IsList(v)
        BY <3>1, <3>2
      <4>2. QED
        BY <4>1, Joined
    <3>5. \A x \in 1 .. k + 1 : (u \o v)[x] = w[x]
      <4>1. (u \o v)[k + 1] = w[k + 1]
        <5>1. 1 \in 1 .. Len(v) /\ Len(u) + 1 = k + 1 /\ k + 1 \in 1 .. k + 1
          BY <2>1, <3>1, <3>2
        <5>2. (u \o v)[k + 1] = v[1]
          BY <3>4, <5>1
        <5>3. QED
          BY <3>2, <3>3, <5>1, <5>2
      <4>2. ASSUME NEW x \in 1 .. k PROVE (u \o v)[x] = w[x]
        <5>1. x \in 1 .. Len(u) /\ x \in 1 .. k + 1
          BY <2>1, <3>1
        <5>2. (u \o v)[x] = u[x] /\ u[x] = cs[x] /\ w[x] = cs[x]
          BY <3>1, <3>3, <3>4, <5>1
        <5>3. QED
          BY <5>2
      <4>3. \A x \in 1 .. k + 1 : x \in 1 .. k \/ x = k + 1
        BY <2>1
      <4>4. QED
        BY <4>1, <4>2, <4>3
    <3>6. Len(u \o v) = Len(w)
      BY <2>1, <3>1, <3>2, <3>3, <3>4
    <3>7. u \o v = w
      BY <3>3, <3>4, <3>5, <3>6, SameList
    <3>8. QED
      BY <3>7 DEF u, v, w
  <2>6. QED
    BY <2>1, <2>4, <2>5
<1>9. n # 0 => Chunked(flatten[n], upto(n))
  <2>1. U \in SUBSET Nat
    OBVIOUS
  <2>2. ASSUME n - 1 \in U, n # 0 PROVE Chunked(flatten[n], upto(n))
    <3>1. (n - 1) + 1 = n
      OBVIOUS
    <3> HIDE DEF upto
    <3>2. QED
      BY <2>2, <3>1
  <2>4. n # 0 => n - 1 \in Nat
    OBVIOUS
  <2> HIDE DEF U
  <2>3. QED
    BY <1>7, <1>8, <2>1, <2>2, <2>4, CountUp
<1>10. n = 0 => cs = <<>>
  BY <1>0, EmptyList, SameList
<1>11. upto(n) = cs
  OBVIOUS
<1>12. QED
  BY <1>1, <1>9, <1>10, <1>11, ChunkedNone

(***************************************************************************)
(* A file                                                                   *)
(***************************************************************************)

LEMMA WithinTwice ==
    ASSUME NEW p, NEW c, NEW b, NEW s, NEW t, Within(c, p, s), Within(b, c, t), Len(p) \in Nat, Len(c) \in Nat, Len(b) \in Nat
    PROVE  Within(b, p, s + t)
<1>1. s \in Nat /\ s + Len(c) <= Len(p) /\ \A j \in 1 .. Len(c) : p[s + j] = c[j]
  BY DEF Within
<1>2. t \in Nat /\ t + Len(b) <= Len(c) /\ \A j \in 1 .. Len(b) : c[t + j] = b[j]
  BY DEF Within
<1>3. ASSUME NEW j \in 1 .. Len(b) PROVE p[(s + t) + j] = b[j]
  <2>1. t + j \in 1 .. Len(c) /\ (s + t) + j = s + (t + j)
    BY <1>1, <1>2
  <2>2. p[s + (t + j)] = c[t + j] /\ c[t + j] = b[j]
    BY <1>1, <1>2, <2>1
  <2>3. QED
    BY <2>1, <2>2
<1>4. s + t \in Nat /\ (s + t) + Len(b) <= Len(p)
  BY <1>1, <1>2
<1>5. QED
  BY <1>3, <1>4 DEF Within

LEMMA RunLaid ==
    ASSUME NEW p, Pieces(p), NEW q, NEW cs, Chunked(q, cs), NEW z, Within(q, p, z)
    PROVE  /\ At(p, z + 1) \in Nat /\ Size(q) \in Nat
           /\ \E hs, pos : Laid(p, cs, hs, pos, At(p, z + 1), At(p, z + 1) + Size(q))
<1> DEFINE f == Written(p)
           m == Len(cs)
<1>1. Pieces(q) /\ IsList(cs)
  BY DEF Chunked
<1>2. /\ Len(q) \in Nat /\ Len(p) \in Nat /\ Size(q) \in Nat /\ z \in Nat /\ z + Len(q) <= Len(p)
  BY <1>1, AtType DEF Within
<1>3. z + 1 \in 1 .. Len(p) + 1 /\ At(p, z + 1) \in Nat
  <2>1. z + 1 \in 1 .. Len(p) + 1
    BY <1>2
  <2>2. QED
    BY <2>1, AtType
<1>6. /\ DOMAIN f = 1 .. Len(p)
      /\ \A i \in 1 .. Len(p) : /\ f[i].kind = p[i].kind /\ f[i].n = p[i].n
                                /\ f[i].v = p[i].v /\ f[i].at = At(p, i)
  BY WrittenRules
<1>7. PICK st : Starts(q, cs, st)
  BY DEF Chunked
<1>8. m \in Nat
  BY <1>1, ListParts
<1> DEFINE hs == [k \in 1 .. m |-> z + st[k] + 1]
           pos == [k \in 1 .. m + 1 |-> At(p, z + st[k] + 1)]
<1>9. st[1] = 0 /\ st[m + 1] = Len(q)
  BY <1>7 DEF Starts
<1>10. ASSUME NEW k \in 1 .. m
       PROVE  /\ IsChunk(cs[k]) /\ hs[k] \in 1 .. Len(p) /\ Within(cs[k], p, hs[k] - 1)
              /\ hs[k] = z + st[k] + 1 /\ st[k] \in Nat /\ st[k + 1] \in Nat
              /\ pos[k] = At(p, hs[k]) /\ pos[k] \in Nat
              /\ pos[k + 1] = At(p, z + st[k + 1] + 1)
              /\ pos[k + 1] = pos[k] + Size(cs[k])
              /\ p[hs[k]] = cs[k][1]
  <2>1. IsChunk(cs[k]) /\ Within(cs[k], q, st[k]) /\ st[k + 1] = st[k] + Len(cs[k])
    BY <1>7 DEF Starts
  <2>2. Pieces(cs[k]) /\ Len(cs[k]) \in Nat /\ Len(cs[k]) >= 2 /\ Size(cs[k]) \in Nat
    BY <2>1, AtType DEF IsChunk
  <2>3. st[k] \in Nat /\ st[k] + Len(cs[k]) <= Len(q)
    BY <2>1 DEF Within
  <2>4. Within(cs[k], p, z + st[k])
    BY <1>2, <2>1, <2>2, WithinTwice
  <2>5. hs[k] = z + st[k] + 1
    OBVIOUS
  <2>6. k \in 1 .. m + 1 /\ k + 1 \in 1 .. m + 1
    BY <1>8
  <2>7. pos[k] = At(p, z + st[k] + 1) /\ pos[k + 1] = At(p, z + st[k + 1] + 1)
    BY <2>6
  <2> HIDE DEF hs, pos
  <2>8. z + st[k] = hs[k] - 1 /\ hs[k] \in 1 .. Len(p)
    <3>1. z \in Nat /\ z + Len(q) <= Len(p) /\ Len(q) \in Nat /\ Len(p) \in Nat
      BY <1>2, ListParts DEF Within, Pieces
    <3>2. PICK h, s : h = hs[k] /\ s = st[k]
      OBVIOUS
    <3>3. s \in Nat /\ s + Len(cs[k]) <= Len(q) /\ h = z + s + 1
      BY <2>3, <2>5, <3>2
    <3>4. z + s = h - 1 /\ h \in 1 .. Len(p)
      BY <2>2, <3>1, <3>3
    <3>5. QED
      BY <3>2, <3>4
  <2>9. Within(cs[k], p, hs[k] - 1)
    BY <2>4, <2>8
  <2>10. Len(cs[k]) + 1 \in 1 .. Len(cs[k]) + 1 /\ 1 \in 1 .. Len(cs[k])
    BY <2>2
  <2>11. At(p, (hs[k] - 1) + (Len(cs[k]) + 1)) = At(p, (hs[k] - 1) + 1) + At(cs[k], Len(cs[k]) + 1)
    <3> DEFINE c == cs[k]
               y == hs[k] - 1
    <3>1. Pieces(p) /\ Pieces(c) /\ Within(c, p, y) /\ Len(c) + 1 \in 1 .. Len(c) + 1
      BY <2>2, <2>9, <2>10
    <3> HIDE DEF c, y
    <3>2. At(p, y + (Len(c) + 1)) = At(p, y + 1) + At(c, Len(c) + 1)
      BY <3>1, Run
    <3>3. QED
      BY <3>2 DEF c, y
  <2>12. (hs[k] - 1) + (Len(cs[k]) + 1) = z + st[k + 1] + 1 /\ (hs[k] - 1) + 1 = z + st[k] + 1
    <3>1. PICK l \in Nat : l = Len(cs[k])
      BY <2>2
    <3>2. PICK y \in Nat : y = st[k]
      BY <2>3
    <3>3. st[k + 1] = y + l /\ hs[k] = z + y + 1
      BY <2>1, <2>5, <3>1, <3>2
    <3>4. (z + y + 1) - 1 + (l + 1) = z + (y + l) + 1 /\ (z + y + 1) - 1 + 1 = z + y + 1
      BY <1>2
    <3>5. QED
      BY <3>1, <3>2, <3>3, <3>4
  <2>13. p[hs[k]] = cs[k][1]
    <3>1. p[(hs[k] - 1) + 1] = cs[k][1]
      BY <2>9, <2>10 DEF Within
    <3>2. QED
      BY <2>3, <2>5, <2>12, <3>1
  <2>14. pos[k] \in Nat
    <3>1. hs[k] \in 1 .. Len(p) + 1
      BY <1>2, <2>8
    <3>2. QED
      BY <2>5, <2>7, <3>1, AtType
  <2>15. st[k + 1] \in Nat
    BY <2>1, <2>2, <2>3
  <2>16. QED
    BY <2>1, <2>3, <2>5, <2>7, <2>8, <2>9, <2>11, <2>12, <2>13, <2>14, <2>15 DEF Size
<1>11. pos[1] = At(p, z + 1) /\ pos[m + 1] = At(p, z + 1) + Size(q)
  <2>1. 1 \in 1 .. m + 1 /\ m + 1 \in 1 .. m + 1
    BY <1>8
  <2>2. pos[1] = At(p, z + st[1] + 1) /\ pos[m + 1] = At(p, z + st[m + 1] + 1)
    BY <2>1
  <2>3. z + st[1] + 1 = z + 1 /\ z + st[m + 1] + 1 = z + (Len(q) + 1)
    BY <1>2, <1>9
  <2>4. Len(q) + 1 \in 1 .. Len(q) + 1
    BY <1>2
  <2>5. At(p, z + (Len(q) + 1)) = At(p, z + 1) + At(q, Len(q) + 1)
    BY <1>1, <2>4, Run
  <2> HIDE DEF pos
  <2>6. QED
    BY <2>2, <2>3, <2>5 DEF Size
<1> HIDE DEF hs, pos
<1>12. Chain(f, m, hs, pos)
  <2>1. ASSUME NEW k \in 1 .. m + 1 PROVE pos[k] \in Nat
    <3>1. CASE k \in 1 .. m
      BY <1>10, <3>1
    <3>2. CASE k \notin 1 .. m
      <4>1. k = m + 1
        BY <1>8, <3>2
      <4>2. QED
        BY <1>2, <1>3, <1>11, <4>1
    <3>3. QED
      BY <3>1, <3>2
  <2>2. ASSUME NEW k \in 1 .. m
        PROVE  /\ hs[k] \in DOMAIN f /\ f[hs[k]].kind = "header" /\ f[hs[k]].at = pos[k]
               /\ pos[k + 1] = pos[k] + chunkTotalSize(f[hs[k]].v.size)
    <3>1. hs[k] \in 1 .. Len(p)
      BY <1>10
    <3>2. p[hs[k]] = cs[k][1] /\ cs[k][1].kind = "header" /\ Size(cs[k]) = chunkTotalSize(cs[k][1].v.size)
      BY <1>10 DEF IsChunk
    <3>3. f[hs[k]].kind = p[hs[k]].kind /\ f[hs[k]].v = p[hs[k]].v /\ f[hs[k]].at = At(p, hs[k])
      BY <1>6, <3>1
    <3>4. pos[k] = At(p, hs[k]) /\ pos[k + 1] = pos[k] + Size(cs[k])
      BY <1>10
    <3>5. QED
      BY <1>6, <3>1, <3>2, <3>3, <3>4
  <2>3. QED
    BY <1>8, <2>1, <2>2 DEF Chain
<1>13. Laid(p, cs, hs, pos, At(p, z + 1), At(p, z + 1) + Size(q))
  BY <1>1, <1>10, <1>11, <1>12 DEF Laid
<1>14. QED
  BY <1>2, <1>3, <1>13

\* The chunks of a written file lie one behind the other after its RIFF header.
LEMMA FileLaid ==
    ASSUME NEW body, NEW cs, Chunked(body, cs), NEW size \in Nat
    PROVE  LET p == FilePieces(size, body)
           IN  /\ Pieces(p) /\ Size(p) = 12 + Size(body) /\ Size(body) \in Nat
               /\ Len(p) >= 1 /\ Written(p)[1].v = size /\ Bytes(Written(p)) = Size(p)
               /\ \E hs, pos : Laid(p, cs, hs, pos, 12, Size(p))
<1> DEFINE head == <<RiffHeader(size)>>
           p == head \o body
           f == Written(p)
<1>1. /\ IsPiece(RiffHeader(size)) /\ RiffHeader(size).n = 12 /\ RiffHeader(size).v = size
  BY WrittenPieces
<1>2. Pieces(head) /\ Len(head) = 1 /\ head[1] = RiffHeader(size) /\ Size(head) = 12
  BY <1>1, FewPieces, ShortLists, SizeOfOne
<1>3. Pieces(body) /\ IsList(cs)
  BY DEF Chunked
<1>4. Pieces(p) /\ Size(p) = 12 + Size(body)
  <2> HIDE DEF head
  <2>1. QED
    BY <1>2, <1>3, PiecesJoined, SizeJoined
<1>5. /\ Len(body) \in Nat /\ Len(p) = 1 + Len(body) /\ p[1] = RiffHeader(size) /\ Size(body) \in Nat
      /\ Within(body, p, 1)
  <2> HIDE DEF head
  <2>1. IsList(head) /\ IsList(body)
    BY <1>2, <1>3 DEF Pieces
  <2>2. /\ Len(p) = Len(head) + Len(body)
        /\ \A i \in 1 .. Len(head) : p[i] = head[i]
        /\ \A i \in 1 .. Len(body) : p[Len(head) + i] = body[i]
    BY <2>1, Joined
  <2>3. Len(body) \in Nat /\ Size(body) \in Nat
    BY <1>3, AtType
  <2>4. Within(body, p, 1)
    BY <1>2, <2>2, <2>3 DEF Within
  <2>5. QED
    BY <1>2, <2>2, <2>3, <2>4
<1>6. /\ Bytes(f) = Size(p)
      /\ \A i \in 1 .. Len(p) : f[i].v = p[i].v
  BY <1>4, WrittenRules
<1>7. At(p, 1 + 1) = 12
  <2>1. 1 \in 1 .. Len(p)
    BY <1>5
  <2> HIDE DEF p
  <2>2. At(p, 1) = 0 /\ At(p, 1 + 1) = At(p, 1) + p[1].n
    BY <1>4, <2>1, AtRules
  <2>3. QED
    BY <1>1, <1>5, <2>2
<1> HIDE DEF p
<1>8. \E hs, pos : Laid(p, cs, hs, pos, At(p, 1 + 1), At(p, 1 + 1) + Size(body))
  BY <1>4, <1>5, RunLaid
<1>9. \E hs, pos : Laid(p, cs, hs, pos, 12, Size(p))
  BY <1>4, <1>7, <1>8
<1>14. 1 \in 1 .. Len(p) /\ Len(p) >= 1
  BY <1>5
<1>15. f[1].v = size
  BY <1>1, <1>5, <1>6, <1>14
<1>16. FilePieces(size, body) = p
  BY DEF FilePieces, p
<1>17. QED
  BY <1>4, <1>5, <1>6, <1>9, <1>14, <1>15, <1>16

\* A reader finds the chunks laid out, and what they say.
LEMMA LaidRead ==
    ASSUME NEW p, NEW cs, NEW hs, NEW pos, NEW lo, NEW end, Laid(p, cs, hs, pos, lo, end), NEW k \in 1 .. Len(cs)
    PROVE  LET f == Written(p)
           IN  /\ hs[k] # 0 /\ hs[k] \in 1 .. Len(p) /\ IsChunk(cs[k]) /\ Within(cs[k], p, hs[k] - 1) /\ Id(f, hs[k]) = cs[k][1].v.id
               /\ f[hs[k]].v = cs[k][1].v
               /\ Payload(f, hs[k]) = cs[k][2].v /\ f[hs[k]].at = pos[k] /\ pos[k] \in Nat
               /\ f[hs[k]].kind = "header" /\ hs[k] \in DOMAIN f
<1> DEFINE f == Written(p)
           c == cs[k]
           z == hs[k] - 1
<1>1. /\ IsChunk(c) /\ hs[k] \in 1 .. Len(p) /\ Within(c, p, z) /\ Pieces(p)
      /\ f[hs[k]].at = pos[k] /\ pos[k] \in Nat /\ f[hs[k]].kind = "header" /\ hs[k] \in DOMAIN f
  <2>1. Len(cs) \in Nat
    BY ListParts DEF Laid
  <2>2. k \in 1 .. Len(cs) + 1
    BY <2>1
  <2>3. QED
    BY <2>2 DEF Laid, Chain
<1>2. Len(p) \in Nat /\ Len(c) \in Nat /\ Len(c) >= 2
  BY <1>1, AtType DEF IsChunk
<1>3. z \in Nat /\ z + Len(c) <= Len(p) /\ \A j \in 1 .. Len(c) : p[z + j] = c[j]
  BY <1>1 DEF Within
<1>4. z + 1 = hs[k] /\ z + 2 = hs[k] + 1 /\ hs[k] \in 1 .. Len(p) /\ hs[k] + 1 \in 1 .. Len(p)
  BY <1>1, <1>2, <1>3
<1> HIDE DEF z, c
<1>5. p[hs[k]] = c[1] /\ p[hs[k] + 1] = c[2]
  <2>1. p[z + 1] = c[1] /\ p[z + 2] = c[2]
    BY <1>2, <1>3
  <2>2. QED
    BY <1>4, <2>1
<1>6. f[hs[k]].v = c[1].v /\ f[hs[k] + 1].v = c[2].v
  BY <1>1, <1>4, <1>5, WrittenRules
<1>7. hs[k] # 0
  BY <1>1
<1>8. QED
  BY <1>1, <1>6, <1>7 DEF Id, Payload, c, z

\* Of a whole file a reader finds every chunk.
LEMMA LaidWhole ==
    ASSUME NEW p, NEW cs, NEW hs, NEW pos, NEW lo, NEW end, Laid(p, cs, hs, pos, lo, end), NEW needPad
    PROVE  LET w == Walk(Written(p), lo, end, needPad)
           IN  IsList(w) /\ Len(w) = Len(cs) /\ \A k \in 1 .. Len(cs) : w[k] = hs[k]
<1> DEFINE f == Written(p)
           m == Len(cs)
<1>1. Pieces(p) /\ Chain(f, m, hs, pos) /\ pos[1] = lo /\ pos[m + 1] = end
  BY DEF Laid
<1>2. Headed(f) /\ end \in Nat /\ m \in Nat
  <2>1. Headed(f) /\ m \in Nat
    BY <1>1, WrittenHeaded DEF Chain
  <2> HIDE DEF f, m
  <2>2. m + 1 \in 1 .. m + 1
    BY <2>1
  <2>3. QED
    BY <1>1, <2>1, <2>2 DEF Chain
<1> HIDE DEF f, m
<1>3. \A k \in 1 .. m : pos[k] + chunkTotalSize(f[hs[k]].v.size) = pos[k + 1] /\ f[hs[k]].v.size \in Nat
  BY <1>1, <1>2 DEF Chain, Headed
<1>4. \A k \in 1 .. m + 1 : pos[k] \in Nat
  BY <1>1 DEF Chain
<1> DEFINE T == {i \in Nat : i <= m => pos[m + 1 - i] <= end}
<1>5. 0 \in T
  <2>1. m + 1 - 0 = m + 1
    BY <1>2
  <2>2. QED
    BY <1>1, <1>2, <2>1
<1>6. ASSUME NEW i \in T PROVE i + 1 \in T
  <2> SUFFICES ASSUME i + 1 <= m PROVE pos[m + 1 - (i + 1)] <= end
    OBVIOUS
  <2>1. PICK k \in 1 .. m : k = m + 1 - (i + 1) /\ k + 1 = m + 1 - i /\ k \in 1 .. m + 1 /\ k + 1 \in 1 .. m + 1
    <3>1. m - i \in 1 .. m /\ m - i = m + 1 - (i + 1) /\ (m - i) + 1 = m + 1 - i /\ m - i \in 1 .. m + 1 /\ (m - i) + 1 \in 1 .. m + 1
      BY <1>2
    <3>2. QED
      BY <3>1
  <2>2. pos[k + 1] <= end
    BY <1>2, <2>1
  <2>3. pos[k] \in Nat /\ f[hs[k]].v.size \in Nat
    BY <1>3, <1>4, <2>1
  <2>4. chunkTotalSize(f[hs[k]].v.size) \in Nat
    BY <1>2, <2>3, Ends
  <2>5. pos[k] <= pos[k + 1] /\ pos[k] \in Nat /\ pos[k + 1] \in Nat
    BY <1>3, <1>4, <2>1, <2>3, <2>4
  <2>6. QED
    BY <1>2, <2>1, <2>2, <2>5
<1>7. ASSUME NEW k \in 1 .. m + 1 PROVE pos[k] <= end
  <2>1. CASE k = m + 1
    BY <1>1, <1>2, <2>1
  <2>2. CASE k # m + 1
    <3>1. m + 1 - k \in Nat /\ m + 1 - k <= m /\ m + 1 - (m + 1 - k) = k
      BY <1>2, <2>2
    <3>2. T \in SUBSET Nat
      OBVIOUS
    <3>3. m + 1 - k \in T => pos[k] <= end
      BY <3>1
    <3> HIDE DEF T
    <3>4. QED
      BY <1>5, <1>6, <3>1, <3>2, <3>3, CountUp
  <2>3. QED
    BY <2>1, <2>2
<1>8. ASSUME NEW k \in 1 .. m PROVE FitsAt(f, hs, pos, k, end, needPad)
  <2>1. k + 1 \in 1 .. m + 1 /\ k \in 1 .. m + 1
    BY <1>2
  <2>2. pos[k + 1] <= end /\ pos[k] \in Nat /\ pos[k + 1] \in Nat
    BY <1>4, <1>7, <2>1
  <2>3. PICK size \in Nat : size = f[hs[k]].v.size
    BY <1>3
  <2>4. PICK q \in 0 .. 1 : q = size % 2
    BY Ends
  <2>5. pos[k] + (8 + size + q) = pos[k + 1]
    BY <1>3, <2>3, <2>4 DEF chunkTotalSize, ChunkHeaderSize
  <2>6. pos[k] + 8 + size + q <= end /\ pos[k] + 8 + size <= end
    BY <1>2, <2>2, <2>5
  <2>7. Fits(pos[k], size, end, needPad)
    <3>1. ~(pos[k] + 8 + size + q > end) /\ ~(pos[k] + 8 + size > end)
      BY <1>2, <2>2, <2>6
    <3>2. QED
      BY <2>4, <3>1 DEF Fits, CutOff, ChunkHeaderSize
  <2>8. QED
    BY <2>3, <2>7 DEF FitsAt
<1>9. Stops(f, m, hs, pos, m, end, needPad)
  <2>1. pos[m + 1] + 8 > end /\ m \in 0 .. m /\ ~(m < m)
    BY <1>1, <1>2
  <2>2. QED
    BY <1>8, <2>1 DEF Stops
<1>10. Rest(pos, m, end) = 0
  BY <1>1, <1>2 DEF Rest
<1>11. pos[1] <= end + 1
  <2>1. 1 \in 1 .. m + 1
    BY <1>2
  <2>2. QED
    BY <1>2, <1>4, <1>7, <2>1
<1>12. LET w == Walk(f, pos[1], end, needPad)
       IN  IsList(w) /\ Len(w) = m + Rest(pos, m, end) /\ \A k \in 1 .. m : w[k] = hs[k]
  BY <1>1, <1>2, <1>9, <1>11, WalkFinds
<1>13. m + Rest(pos, m, end) = m
  BY <1>2, <1>10
<1>14. QED
  BY <1>1, <1>12, <1>13 DEF f, m

(***************************************************************************)
(* The chunks of this format                                                *)
(***************************************************************************)

LEMMA PairJoined ==
    ASSUME NEW a, NEW b, NEW c
    PROVE  <<a, b>> \o <<c>> = <<a, b, c>> /\ <<a, b>> \o <<>> = <<a, b>>
<1> DEFINE s == <<a, b>>
           t == <<c>>
           u == <<a, b, c>>
<1>1. /\ IsList(s) /\ Len(s) = 2 /\ s[1] = a /\ s[2] = b
      /\ IsList(t) /\ Len(t) = 1 /\ t[1] = c
      /\ IsList(u) /\ Len(u) = 3 /\ u[1] = a /\ u[2] = b /\ u[3] = c
  BY ShortLists
<1> HIDE DEF s, t, u
<1>2. /\ IsList(s \o t) /\ Len(s \o t) = Len(s) + Len(t)
      /\ (\A i \in 1 .. Len(s) : (s \o t)[i] = s[i])
      /\ \A i \in 1 .. Len(t) : (s \o t)[Len(s) + i] = t[i]
  <2>1. IsList(s) /\ IsList(t)
    BY <1>1
  <2>2. QED
    BY <2>1, Joined
<1>3. 1 \in 1 .. Len(s) /\ 2 \in 1 .. Len(s) /\ 1 \in 1 .. Len(t) /\ Len(s) + 1 = 3 /\ Len(s) + Len(t) = 3
  BY <1>1
<1>4. (s \o t)[1] = u[1] /\ (s \o t)[2] = u[2] /\ (s \o t)[3] = u[3] /\ Len(s \o t) = 3
  BY <1>1, <1>2, <1>3
<1>5. \A i \in 1 .. Len(s \o t) : i = 1 \/ i = 2 \/ i = 3
  BY <1>4
<1>6. s \o t = u
  BY <1>1, <1>2, <1>4, <1>5, SameList
<1>7. s \o <<>> = s
  BY <1>1, NothingJoined
<1>8. QED
  BY <1>6, <1>7 DEF s, t, u

\* What writeDataChunk puts out is one chunk.
LEMMA DataChunk ==
    ASSUME NEW id, NEW n \in Nat, NEW v
    PROVE  LET c == writeDataChunk(id, n, v)
           IN  /\ IsChunk(c) /\ Len(c) = 2 + (n % 2) /\ n % 2 \in 0 .. 1 /\ Size(c) = chunkTotalSize(n)
               /\ c[1].v.id = id /\ c[1].v.size = n /\ c[2].v = v /\ c[1].kind = "header"
               /\ c[2].n = n
<1> DEFINE H == ChunkHeader(id, n)
           D == Data(n, v)
           c == writeDataChunk(id, n, v)
<1>1. /\ IsPiece(H) /\ IsPiece(D) /\ IsPiece(Pad) /\ H.kind = "header" /\ H.n = 8 /\ D.n = n /\ D.v = v /\ Pad.n = 1
      /\ H.v.id = id /\ H.v.size = n
  BY WrittenPieces
<1>2. n % 2 \in 0 .. 1 /\ (n % 2 = 1 \/ n % 2 = 0)
  BY Ends
<1>3. c = IF n % 2 = 1 THEN <<H, D, Pad>> ELSE <<H, D>>
  <2>1. <<H, D>> \o <<Pad>> = <<H, D, Pad>> /\ <<H, D>> \o <<>> = <<H, D>>
    BY PairJoined
  <2>2. c = <<H, D>> \o (IF n % 2 = 1 THEN <<Pad>> ELSE <<>>)
    BY DEF writeDataChunk
  <2> HIDE DEF c, H, D
  <2>3. QED
    BY <2>1, <2>2
<1> HIDE DEF c, H, D
<1>4. CASE n % 2 = 1
  <2>1. Pieces(c) /\ Len(c) = 3 /\ c[1] = H /\ c[2] = D /\ Size(c) = H.n + D.n + Pad.n
    <3>1. c = <<H, D, Pad>>
      BY <1>3, <1>4
    <3>0. IsPiece(H) /\ IsPiece(D) /\ IsPiece(Pad)
      BY <1>1
    <3>2a. Pieces(<<H, D, Pad>>)
      BY <3>0, FewPieces
    <3>2b. Size(<<H, D, Pad>>) = H.n + D.n + Pad.n
      BY <3>0, SizeOfThree
    <3>2. Pieces(<<H, D, Pad>>) /\ Size(<<H, D, Pad>>) = H.n + D.n + Pad.n
      BY <3>2a, <3>2b
    <3>3. Len(<<H, D, Pad>>) = 3 /\ <<H, D, Pad>>[1] = H /\ <<H, D, Pad>>[2] = D
      BY ShortLists
    <3>4. QED
      BY <3>1, <3>2, <3>3
  <2>2. Size(c) = chunkTotalSize(n)
    BY <1>1, <1>4, <2>1 DEF chunkTotalSize, ChunkHeaderSize
  <2>3. IsChunk(c)
    BY <1>1, <2>1, <2>2 DEF IsChunk
  <2>4. QED
    BY <1>1, <1>2, <1>4, <2>1, <2>2, <2>3 DEF c
<1>5. CASE n % 2 = 0
  <2>1. Pieces(c) /\ Len(c) = 2 /\ c[1] = H /\ c[2] = D /\ Size(c) = H.n + D.n
    <3>1. c = <<H, D>>
      BY <1>3, <1>5
    <3>2. Pieces(<<H, D>>) /\ Size(<<H, D>>) = H.n + D.n
      BY <1>1, FewPieces, SizeOfTwo
    <3>3. Len(<<H, D>>) = 2 /\ <<H, D>>[1] = H /\ <<H, D>>[2] = D
      BY ShortLists
    <3>4. QED
      BY <3>1, <3>2, <3>3
  <2>2. Size(c) = chunkTotalSize(n)
    BY <1>1, <1>5, <2>1 DEF chunkTotalSize, ChunkHeaderSize
  <2>3. IsChunk(c)
    BY <1>1, <2>1, <2>2 DEF IsChunk
  <2>4. QED
    BY <1>1, <1>2, <1>5, <2>1, <2>2, <2>3 DEF c
<1>6. QED
  BY <1>2, <1>4, <1>5

\* So is a header followed by its payload, at a size that needs no padding.
LEMMA PlainChunk ==
    ASSUME NEW id, NEW n \in Nat, NEW v, n % 2 = 0
    PROVE  LET c == <<ChunkHeader(id, n), Data(n, v)>>
           IN  IsChunk(c) /\ Size(c) = chunkTotalSize(n) /\ c[1].v.id = id /\ c[2].v = v
<1>1. writeDataChunk(id, n, v) = <<ChunkHeader(id, n), Data(n, v)>>
  <2> DEFINE H == ChunkHeader(id, n)
             D == Data(n, v)
  <2>1. writeDataChunk(id, n, v) = <<H, D>> \o (IF n % 2 = 1 THEN <<Pad>> ELSE <<>>)
    BY DEF writeDataChunk
  <2>2. <<H, D>> \o <<>> = <<H, D>>
    BY PairJoined
  <2>3. n % 2 # 1
    OBVIOUS
  <2> HIDE DEF H, D
  <2>4. writeDataChunk(id, n, v) = <<H, D>>
    BY <2>1, <2>2, <2>3
  <2>5. QED
    BY <2>4 DEF H, D
<1>2. QED
  BY <1>1, DataChunk

\* A chunk whose payload is chunks is one chunk: an ANMF frame.
LEMMA NestedChunk ==
    ASSUME NEW id, NEW n \in Nat, NEW v, NEW q, Pieces(q)
    PROVE  LET c == Nested(id, n, v, q)
           IN  /\ IsChunk(c) /\ Size(c) = chunkTotalSize(n + Size(q)) /\ n + Size(q) \in Nat
               /\ c[1].v.id = id /\ c[1].v.size = n + Size(q) /\ c[2].v = v
               /\ Within(q, c, 2) /\ At(c, 3) = 8 + n
<1>0. Size(q) \in Nat /\ Len(q) \in Nat
  BY AtType
<1>1. PICK size \in Nat : size = n + Size(q)
  BY <1>0
<1>2. PICK par \in 0 .. 1 : par = size % 2
  BY Ends
<1> DEFINE H == ChunkHeader(id, size)
           D == Data(n, v)
           b == <<H, D>>
           t == IF size % 2 = 1 THEN <<Pad>> ELSE <<>>
           bq == b \o q
           c == bq \o t
<1>3. /\ IsPiece(H) /\ IsPiece(D) /\ IsPiece(Pad) /\ H.kind = "header" /\ H.n = 8 /\ D.n = n /\ D.v = v /\ Pad.n = 1
      /\ H.v.id = id /\ H.v.size = size
  BY WrittenPieces
<1>4. Pieces(t) /\ Size(t) = par
  <2>1. CASE par = 1
    <3>1. t = <<Pad>> /\ Pieces(<<Pad>>) /\ Size(<<Pad>>) = 1
      BY <1>2, <1>3, <2>1, FewPieces, SizeOfOne
    <3>2. QED
      BY <2>1, <3>1
  <2>2. CASE par = 0
    <3>1. t = <<>>
      BY <1>2, <2>2
    <3>2. QED
      BY <2>2, <3>1, NoPieces, SizeOfNone
  <2>3. QED
    BY <2>1, <2>2
<1>5. Pieces(b) /\ Len(b) = 2 /\ b[1] = H /\ b[2] = D /\ Size(b) = 8 + n
  <2>1. Pieces(b)
    BY <1>3, FewPieces
  <2>2. Len(b) = 2 /\ b[1] = H /\ b[2] = D
    BY ShortLists
  <2>3. Size(b) = H.n + D.n
    BY <1>3, SizeOfTwo
  <2>4. QED
    BY <1>3, <2>1, <2>2, <2>3
<1>6. c = Nested(id, n, v, q)
  BY <1>1 DEF Nested
<1> HIDE DEF c, bq, b, t, H, D
<1>7. Pieces(bq) /\ Size(bq) = 8 + n + Size(q) /\ Len(bq) = 2 + Len(q) /\ bq[1] = H /\ bq[2] = D
  <2>1. Pieces(bq) /\ Size(bq) = Size(b) + Size(q)
    BY <1>5, PiecesJoined, SizeJoined DEF bq
  <2>2. IsList(b) /\ IsList(q)
    BY <1>5 DEF Pieces
  <2>3. Len(bq) = Len(b) + Len(q) /\ \A i \in 1 .. Len(b) : bq[i] = b[i]
    BY <2>2, Joined DEF bq
  <2>4. 1 \in 1 .. Len(b) /\ 2 \in 1 .. Len(b)
    BY <1>5
  <2>5. QED
    BY <1>5, <2>1, <2>3, <2>4
<1>8. Pieces(c) /\ Size(c) = 8 + n + Size(q) + par /\ Len(c) >= 2 /\ c[1] = H /\ c[2] = D
  <2>1. Pieces(c) /\ Size(c) = Size(bq) + Size(t)
    BY <1>4, <1>7, PiecesJoined, SizeJoined DEF c
  <2>2. IsList(bq) /\ IsList(t)
    BY <1>4, <1>7 DEF Pieces
  <2>3. Len(c) = Len(bq) + Len(t) /\ Len(t) \in Nat /\ \A i \in 1 .. Len(bq) : c[i] = bq[i]
    BY <2>2, Joined DEF c
  <2>4. 1 \in 1 .. Len(bq) /\ 2 \in 1 .. Len(bq)
    BY <1>0, <1>7
  <2>5. QED
    BY <1>0, <1>4, <1>7, <2>1, <2>3, <2>4
<1>9. Size(c) = chunkTotalSize(size)
  <2>1. chunkTotalSize(size) = 8 + size + par
    BY <1>2 DEF chunkTotalSize, ChunkHeaderSize
  <2>2. QED
    BY <1>0, <1>1, <1>8, <2>1
<1>10. IsChunk(c)
  BY <1>3, <1>8, <1>9 DEF IsChunk
<1>11. Within(q, c, 2)
  <2>1. Within(q, q, 0)
    BY <1>0 DEF Within
  <2>2. Within(q, bq, Len(b) + 0)
    BY <1>5, <2>1, WithinLeft DEF bq
  <2>3. Within(q, c, Len(b) + 0)
    BY <1>4, <1>7, <2>2, WithinLeft DEF c
  <2>4. QED
    BY <1>5, <2>3
<1>12. At(c, 3) = 8 + n
  <2>1. 1 \in 1 .. Len(c) /\ 2 \in 1 .. Len(c)
    <3>1. Len(c) \in Nat
      BY <1>8, AtType
    <3>2. QED
      BY <1>8, <3>1
  <2>2. At(c, 1) = 0 /\ At(c, 1 + 1) = At(c, 1) + c[1].n /\ At(c, 2 + 1) = At(c, 2) + c[2].n
    BY <1>8, <2>1, AtRules
  <2>3. QED
    BY <1>3, <1>8, <2>2
<1>13. QED
  BY <1>0, <1>1, <1>3, <1>6, <1>8, <1>9, <1>10, <1>11, <1>12

\* A reader finds the chunks inside an ANMF chunk.
LEMMA NestedRead ==
    ASSUME NEW p, Pieces(p), NEW id, NEW v, NEW q, NEW qs, Chunked(q, qs), NEW h \in 1 .. Len(p),
           Within(Nested(id, ANMFChunkSize, v, q), p, h - 1), NEW needPad
    PROVE  LET w == SubChunks(Written(p), h, needPad)
           IN  /\ IsList(w) /\ Len(w) = Len(qs)
               /\ \A k \in 1 .. Len(qs) : /\ w[k] # 0 /\ Id(Written(p), w[k]) = qs[k][1].v.id
                                          /\ Payload(Written(p), w[k]) = qs[k][2].v
<1> DEFINE c == Nested(id, ANMFChunkSize, v, q)
           f == Written(p)
<1>1. Pieces(q) /\ ANMFChunkSize \in Nat /\ ANMFChunkSize = 16
  BY DEF Chunked, ANMFChunkSize
<1>2. /\ IsChunk(c) /\ c[1].v.size = 16 + Size(q) /\ Within(q, c, 2) /\ At(c, 3) = 8 + 16
  BY <1>1, NestedChunk
<1>3. Within(c, p, h - 1)
  OBVIOUS
<1> HIDE DEF c
<1>4. Pieces(c) /\ Len(c) \in Nat /\ Len(c) >= 2 /\ Len(p) \in Nat /\ Len(q) \in Nat /\ Size(q) \in Nat
  BY <1>1, <1>2, AtType DEF IsChunk
<1>5. PICK z \in Nat : z = h - 1 /\ z + 1 = h /\ z + 3 = (z + 2) + 1
  OBVIOUS
<1>6. At(p, z + 3) = At(p, z + 1) + At(c, 3)
  <2>1. 3 \in 1 .. Len(c) + 1 /\ Within(c, p, z)
    BY <1>3, <1>4, <1>5
  <2>2. QED
    BY <1>4, <2>1, Run
<1>7. At(p, h) \in Nat /\ f[h].at = At(p, h)
  <2>1. h \in 1 .. Len(p) + 1
    BY <1>4
  <2>2. At(p, h) \in Nat
    BY <2>1, AtType
  <2>3. QED
    BY <2>2, WrittenRules
<1>8. f[h].v.size = 16 + Size(q)
  <2>1. f[h].v = p[h].v
    BY WrittenRules
  <2>2. 1 \in 1 .. Len(c) /\ p[z + 1] = c[1]
    BY <1>3, <1>4, <1>5 DEF Within
  <2>3. QED
    BY <1>2, <1>5, <2>1, <2>2
<1>9. Within(q, p, z + 2)
  BY <1>2, <1>3, <1>4, <1>5, WithinTwice
<1>10. PICK a \in Nat : a = At(p, h) + 24 /\ a = At(p, (z + 2) + 1)
  BY <1>2, <1>5, <1>6, <1>7
<1>11. PICK hs, pos : Laid(p, qs, hs, pos, a, a + Size(q))
  BY <1>9, <1>10, RunLaid
<1>12. SubChunks(f, h, needPad) = Walk(f, a, a + Size(q), needPad)
  <2>1. f[h].at + ChunkHeaderSize + ANMFChunkSize = a
    BY <1>7, <1>10 DEF ChunkHeaderSize, ANMFChunkSize
  <2>2. f[h].at + ChunkHeaderSize + f[h].v.size = a + Size(q)
    BY <1>4, <1>7, <1>8, <1>10 DEF ChunkHeaderSize
  <2> HIDE DEF f
  <2>3. QED
    BY <2>1, <2>2 DEF SubChunks
<1> DEFINE w == Walk(f, a, a + Size(q), needPad)
<1>13. IsList(w) /\ Len(w) = Len(qs) /\ \A k \in 1 .. Len(qs) : w[k] = hs[k]
  BY <1>11, LaidWhole
<1>14. \A k \in 1 .. Len(qs) : hs[k] # 0 /\ Id(f, hs[k]) = qs[k][1].v.id /\ Payload(f, hs[k]) = qs[k][2].v
  BY <1>11, LaidRead
<1>15. QED
  BY <1>12, <1>13, <1>14

(***************************************************************************)
(* What the writers put out, as chunks                                      *)
(***************************************************************************)

\* Metadata is one chunk when it is present and none when it is not.
LEMMA OptionalChunk ==
    ASSUME NEW id, NEW n \in Nat \cup {Nil}
    PROVE  LET cs == OptionalChunks(id, n)
           IN  /\ Chunked(metadataChunk(id, n), cs)
               /\ Size(metadataChunk(id, n)) = metadataSize(n) /\ metadataSize(n) \in Nat
               /\ Len(cs) = (IF n = Nil THEN 0 ELSE 1)
               /\ n # Nil => cs[1][1].v.id = id /\ cs[1][2].v = n
<1>1. CASE n = Nil
  <2>1. metadataChunk(id, n) = <<>> /\ OptionalChunks(id, n) = <<>> /\ metadataSize(n) = 0
    BY <1>1 DEF metadataChunk, OptionalChunks, metadataSize
  <2>2. QED
    BY <1>1, <2>1, ChunkedNone, SizeOfNone, EmptyList
<1>2. CASE n # Nil
  <2>0. n \in Nat
    BY <1>2
  <2> DEFINE c == writeDataChunk(id, n, n)
             cs == <<c>>
  <2>1. metadataChunk(id, n) = c /\ OptionalChunks(id, n) = cs /\ metadataSize(n) = chunkTotalSize(n)
    BY <1>2 DEF metadataChunk, OptionalChunks, metadataSize
  <2>2. IsChunk(c) /\ Size(c) = chunkTotalSize(n) /\ c[1].v.id = id /\ c[2].v = n
    BY <2>0, DataChunk
  <2>3. Len(cs) = 1 /\ cs[1] = c
    BY ShortLists
  <2>4. Chunked(c, cs)
    BY <2>2, ChunkedOne
  <2>5. chunkTotalSize(n) \in Nat
    BY <2>0, Ends
  <2> HIDE DEF c, cs
  <2>6. QED
    BY <1>2, <2>1, <2>2, <2>3, <2>4, <2>5
<1>3. QED
  BY <1>1, <1>2

\* What an image that is ok is made of.
LEMMA ImageParts ==
    ASSUME NEW d, ImageOk(d)
    PROVE  /\ d.alph \in Nat \cup {Nil} /\ d.n \in Nat /\ d.w \in Nat /\ d.h \in Nat /\ d.w > 0 /\ d.h > 0
           /\ Raw(d).alph = Nil /\ Raw(d).codec = d.codec /\ Raw(d).w = d.w /\ Raw(d).h = d.h
           /\ Raw(d).alpha = d.alpha /\ Raw(d).n = d.n
           /\ d.codec = detectBitstreamType(Raw(d))
           /\ (IsVP8L(Raw(d)) <=> d.codec = "VP8L") /\ d.codec \in {"VP8", "VP8L"}
           /\ d.alph # Nil => d.alph > 0
BY DEF ImageOk, Raw, detectBitstreamType, IsVP8L, Nil

\* The chunks of one image: its alpha plane, if it has one, then its data.
LEMMA ImageChunks ==
    ASSUME NEW d, ImageOk(d)
    PROVE  /\ Chunked(SubPieces(d), SubList(d)) /\ Size(SubPieces(d)) = frameSubChunksSize(d)
           /\ Len(SubList(d)) = Planes(d) + 1 /\ Planes(d) \in 0 .. 1
           /\ SubList(d)[Planes(d) + 1][1].v.id = d.codec
           /\ SubList(d)[Planes(d) + 1][2].v = Raw(d)
           /\ d.alph # Nil => SubList(d)[1][1].v.id = "ALPH" /\ SubList(d)[1][2].v = d.alph
<1> DEFINE A == metadataChunk("ALPH", d.alph)
           as == OptionalChunks("ALPH", d.alph)
           I == writeDataChunk(d.codec, d.n, Raw(d))
           is == <<I>>
<1>1. d.alph \in Nat \cup {Nil} /\ d.n \in Nat
  BY ImageParts
<1>2. /\ Chunked(A, as) /\ Size(A) = metadataSize(d.alph) /\ metadataSize(d.alph) \in Nat
      /\ Len(as) = Planes(d)
      /\ d.alph # Nil => as[1][1].v.id = "ALPH" /\ as[1][2].v = d.alph
  BY <1>1, OptionalChunk DEF Planes
<1>3. IsChunk(I) /\ Size(I) = chunkTotalSize(d.n) /\ I[1].v.id = d.codec /\ I[2].v = Raw(d)
  BY <1>1, DataChunk
<1>4. IsList(is) /\ Len(is) = 1 /\ is[1] = I
  BY ShortLists
<1>5. Chunked(I, is)
  BY <1>3, ChunkedOne
<1>6. SubPieces(d) = A \o I /\ SubList(d) = as \o is
  BY DEF SubPieces, SubList
<1> HIDE DEF A, as, I, is
<1>7. Pieces(A) /\ Pieces(I) /\ IsList(as)
  BY <1>2, <1>5 DEF Chunked
<1>8. Chunked(A \o I, as \o is)
  BY <1>2, <1>5, ChunkedJoined
<1>9. Size(A \o I) = metadataSize(d.alph) + chunkTotalSize(d.n)
  BY <1>2, <1>3, <1>7, SizeJoined
<1>10. frameSubChunksSize(d) = metadataSize(d.alph) + chunkTotalSize(d.n)
  BY DEF frameSubChunksSize, metadataSize
<1>11. IsList(as) /\ IsList(is)
  BY <1>4, <1>7
<1>12. /\ IsList(as \o is) /\ Len(as \o is) = Len(as) + Len(is)
       /\ (\A i \in 1 .. Len(as) : (as \o is)[i] = as[i])
       /\ \A i \in 1 .. Len(is) : (as \o is)[Len(as) + i] = is[i]
  <2> DEFINE u == as
             v == is
  <2>1. IsList(u) /\ IsList(v)
    BY <1>11
  <2> HIDE DEF u, v
  <2>2. /\ IsList(u \o v) /\ Len(u) \in Nat /\ Len(v) \in Nat
        /\ Len(u \o v) = Len(u) + Len(v)
        /\ (\A i \in 1 .. Len(u) : (u \o v)[i] = u[i])
        /\ \A i \in 1 .. Len(v) : (u \o v)[Len(u) + i] = v[i]
    BY <2>1, Joined
  <2>3. QED
    BY <2>2 DEF u, v
<1>13. Planes(d) \in 0 .. 1 /\ (d.alph # Nil => Planes(d) = 1)
  BY DEF Planes
<1>14. 1 \in 1 .. Len(is) /\ (d.alph # Nil => 1 \in 1 .. Len(as))
  BY <1>2, <1>4, <1>13
<1>15. QED
  BY <1>2, <1>3, <1>4, <1>6, <1>8, <1>9, <1>10, <1>12, <1>13, <1>14

\* What writeANMFChunk puts out is one chunk, with the frame's own chunks in it.
LEMMA FrameNested ==
    ASSUME NEW r, ImageOk(r.data)
    PROVE  writeANMFChunk(r) = Nested("ANMF", ANMFChunkSize, Info(r), SubPieces(r.data))
<1> DEFINE d == r.data
           A == metadataChunk("ALPH", d.alph)
           I == writeDataChunk(d.codec, d.n, Raw(d))
           size == ANMFChunkSize + frameSubChunksSize(d)
           b == <<ChunkHeader("ANMF", size), Data(ANMFChunkSize, Info(r))>>
           t == IF size % 2 = 1 THEN <<Pad>> ELSE <<>>
<1>1. writeANMFChunk(r) = ((b \o A) \o I) \o t
  <2>1. r.data.w > 0 /\ r.data.h > 0 /\ d.codec = detectBitstreamType(Raw(d))
    BY ImageParts
  <2>2. QED
    BY <2>1 DEF writeANMFChunk, metadataChunk, Info
<1>2. IsList(b) /\ IsList(A) /\ IsList(I)
  <2>1. d.alph \in Nat \cup {Nil} /\ d.n \in Nat
    BY ImageParts
  <2>2. IsList(A)
    <3>1. Chunked(A, OptionalChunks("ALPH", d.alph))
      BY <2>1, OptionalChunk
    <3> HIDE DEF A
    <3>2. QED
      BY <3>1 DEF Chunked, Pieces
  <2>3. IsList(I)
    <3>1. IsChunk(I)
      BY <2>1, DataChunk
    <3> HIDE DEF I
    <3>2. QED
      BY <3>1 DEF IsChunk, Pieces
  <2>4. QED
    BY <2>2, <2>3, ShortLists
<1>3. Size(SubPieces(d)) = frameSubChunksSize(d)
  BY ImageChunks
<1>4. Nested("ANMF", ANMFChunkSize, Info(r), SubPieces(d)) = (b \o (A \o I)) \o t
  BY <1>3 DEF Nested, SubPieces
<1> HIDE DEF A, I, b, t
<1>5. (b \o A) \o I = b \o (A \o I)
  BY <1>2, JoinedTwice
<1>6. QED
  BY <1>1, <1>4, <1>5

(***************************************************************************)
(* A frame of an animation                                                  *)
(***************************************************************************)

\* Three bytes hold what they are given.
LEMMA MaxNat == /\ MaxCanvasSize \in Nat /\ MaxCanvasSize > 0 /\ maxDuration \in Nat
                /\ maxDuration < MaxCanvasSize /\ MaxImageArea \in Nat
BY SMT DEF MaxCanvasSize, maxDuration, MaxImageArea

LEMMA SmallRemainder == ASSUME NEW q \in Nat, NEW m \in Nat, q < m PROVE q % m = q
BY SMT

\* A place that is stored halved comes back.
LEMMA Halved ==
    ASSUME NEW v \in Nat, v <= MaxCanvasSize
    PROVE  2 * LE24(v \div 2) = Even(v)
<1>1. v \div 2 \in Nat
  BY SMT
<1>2. v - (v % 2) = 2 * (v \div 2) /\ v % 2 \in 0 .. 1
  BY SMT
<1>3. PICK q \in Nat : q = v \div 2
  BY <1>1
<1>4. q < MaxCanvasSize
  BY <1>2, <1>3, MaxNat
<1>5. q % MaxCanvasSize = q
  BY <1>4, MaxNat, SmallRemainder
<1>6. QED
  BY <1>2, <1>3, <1>5 DEF LE24, Even

\* A size that is stored less one comes back.
LEMMA LessOne ==
    ASSUME NEW v \in 1 .. MaxCanvasSize
    PROVE  LE24(v - 1) + 1 = v
<1>1. PICK q \in Nat : q = v - 1 /\ q + 1 = v /\ q < MaxCanvasSize
  BY MaxNat
<1>2. q % MaxCanvasSize = q
  BY <1>1, MaxNat, SmallRemainder
<1>3. QED
  BY <1>1, <1>2 DEF LE24

\* A duration within the limit is stored as it is.
LEMMA DurationKept ==
    ASSUME NEW v \in 0 .. maxDuration PROVE LE24(v) = v
<1>1. v \in Nat /\ v < MaxCanvasSize
  BY MaxNat
<1>2. QED
  BY <1>1, MaxNat, SmallRemainder DEF LE24

\* What both readers take from the 16 bytes at the start of a frame.
LEMMA InfoRead ==
    ASSUME NEW r, FrameOk(r), NEW image, NEW alph, NEW seen
    PROVE  AnimFrame(Info(r), image, alph, seen) =
              [x |-> Even(r.x), y |-> Even(r.y), w |-> r.data.w, h |-> r.data.h,
               duration |-> r.duration, dispose |-> r.dispose, blend |-> r.blend,
               data |-> image, alph |-> alph, hasAlpha |-> seen]
<1>0. r.data.w \in 1 .. MaxCanvasSize /\ r.data.h \in 1 .. MaxCanvasSize
  BY DEF FrameOk, ImageOk
<1>1. r.x \in Nat /\ r.y \in Nat /\ r.x <= MaxCanvasSize /\ r.y <= MaxCanvasSize
  BY <1>0, MaxNat DEF FrameOk
<1>2. 2 * LE24(r.x \div 2) = Even(r.x) /\ 2 * LE24(r.y \div 2) = Even(r.y)
  BY <1>1, Halved
<1>3. LE24(r.data.w - 1) + 1 = r.data.w /\ LE24(r.data.h - 1) + 1 = r.data.h
  BY <1>0, LessOne
<1>4. LE24(r.duration) = r.duration
  BY DurationKept DEF FrameOk
<1> DEFINE a == Info(r)
<1>5. /\ a.x = LE24(r.x \div 2) /\ a.y = LE24(r.y \div 2) /\ a.w = LE24(r.data.w - 1) /\ a.h = LE24(r.data.h - 1)
      /\ a.duration = LE24(r.duration) /\ a.dispose = r.dispose /\ a.blend = r.blend
  BY DEF Info
<1> HIDE DEF a
<1>6. /\ 2 * a.x = Even(r.x) /\ 2 * a.y = Even(r.y) /\ a.w + 1 = r.data.w /\ a.h + 1 = r.data.h
      /\ a.duration = r.duration /\ a.dispose = r.dispose /\ a.blend = r.blend
  BY <1>2, <1>3, <1>4, <1>5
<1>7. QED
  BY <1>6 DEF AnimFrame, a

\* The chunks found within a frame are those it was written with.
LEMMA FrameFound ==
    ASSUME NEW p, Pieces(p), NEW r, ImageOk(r.data), NEW h \in 1 .. Len(p),
           Within(writeANMFChunk(r), p, h - 1), NEW needPad
    PROVE  Found(Written(p), SubChunks(Written(p), h, needPad), r.data)
<1> DEFINE d == r.data
           w == SubChunks(Written(p), h, needPad)
           f == Written(p)
           cs == SubList(d)
<1>1. /\ Chunked(SubPieces(d), cs)
      /\ Len(cs) = Planes(d) + 1 /\ Planes(d) \in 0 .. 1
      /\ cs[Planes(d) + 1][1].v.id = d.codec
      /\ cs[Planes(d) + 1][2].v = Raw(d)
      /\ d.alph # Nil => cs[1][1].v.id = "ALPH" /\ cs[1][2].v = d.alph
  BY ImageChunks
<1>2. Within(Nested("ANMF", ANMFChunkSize, Info(r), SubPieces(d)), p, h - 1)
  BY FrameNested
<1>3. /\ IsList(w) /\ Len(w) = Len(cs)
      /\ \A k \in 1 .. Len(cs) : /\ w[k] # 0 /\ Id(f, w[k]) = cs[k][1].v.id
                                 /\ Payload(f, w[k]) = cs[k][2].v
  <2> HIDE DEF cs, d
  <2>1. QED
    BY <1>1, <1>2, NestedRead
<1> HIDE DEF w, f, cs
<1>4. Planes(d) + 1 \in 1 .. Len(cs) /\ 1 \in 1 .. Len(cs)
  BY <1>1
<1>5. Found(f, w, d)
  BY <1>1, <1>3, <1>4 DEF Found
<1>6. QED
  BY <1>5 DEF f, w

LEMMA OnlyOne == ASSUME NEW k \in Nat PROVE Max({k}) = k /\ Min({k}) = k
<1>1. {k} \in SUBSET (0 .. k) /\ {k} # {} /\ {k} \in SUBSET Nat
  OBVIOUS
<1>2. Max({k}) \in {k} /\ Min({k}) \in {k}
  BY <1>1, NatMax, NatMin
<1>3. QED
  BY <1>2

LEMMA DemuxFinds ==
    ASSUME NEW f, NEW w, NEW d, ImageOk(d), Found(f, w, d)
    PROVE  /\ LastOf(f, w, {"VP8", "VP8L"}, NoImage) = Raw(d)
           /\ LastOf(f, w, {"ALPH"}, Nil) = d.alph
<1>1. Len(w) = Planes(d) + 1 /\ Planes(d) \in 0 .. 1 /\ DOMAIN w = 1 .. Len(w)
  <2>1. IsList(w) /\ Len(w) = Planes(d) + 1
    BY DEF Found
  <2>2. DOMAIN w = 1 .. Len(w)
    BY <2>1, ListParts
  <2>3. QED
    BY <2>1, <2>2 DEF Planes
<1>2. d.codec \in {"VP8", "VP8L"}
  BY ImageParts
<1>3. d.alph # Nil => Planes(d) = 1
  BY DEF Planes
<1>4. d.alph = Nil => Planes(d) = 0
  BY DEF Planes
<1> DEFINE images == {k \in DOMAIN w : Id(f, w[k]) \in {"VP8", "VP8L"}}
           alphas == {k \in DOMAIN w : Id(f, w[k]) \in {"ALPH"}}
<1>5. images = {Planes(d) + 1}
  <2>1. CASE d.alph = Nil
    BY <1>1, <1>2, <1>4, <2>1 DEF Found
  <2>2. CASE d.alph # Nil
    BY <1>1, <1>2, <1>3, <2>2 DEF Found
  <2>3. QED
    BY <2>1, <2>2
<1>6. d.alph = Nil => alphas = {}
  BY <1>1, <1>2, <1>4 DEF Found
<1>7. d.alph # Nil => alphas = {1}
  BY <1>1, <1>2, <1>3 DEF Found
<1> HIDE DEF images, alphas
<1>8. LastOf(f, w, {"VP8", "VP8L"}, NoImage) = Payload(f, w[Max(images)])
  BY <1>5 DEF LastOf, images
<1>9. LastOf(f, w, {"ALPH"}, Nil) = IF alphas = {} THEN Nil ELSE Payload(f, w[Max(alphas)])
  BY DEF LastOf, alphas
<1>10. Max(images) = Planes(d) + 1 /\ Max({1}) = 1
  BY <1>1, <1>5, OnlyOne
<1>11. QED
  BY <1>6, <1>7, <1>8, <1>9, <1>10 DEF Found

\* The demuxer takes a frame as it was given.
LEMMA DemuxReadsFrame ==
    ASSUME NEW p, Pieces(p), NEW r, FrameOk(r), NEW h \in 1 .. Len(p),
           Within(writeANMFChunk(r), p, h - 1), Payload(Written(p), h) = Info(r),
           NEW s, Len(s.frames) \in Nat, Len(s.frames) < MaxFrames
    PROVE  parseANMF(s, Written(p), h) = AddTo(s, FrameGiven(r))
<1> DEFINE f == Written(p)
           w == SubChunks(f, h, FALSE)
           d == r.data
           image == LastOf(f, w, {"VP8", "VP8L"}, NoImage)
           alph == LastOf(f, w, {"ALPH"}, Nil)
           frame == DemuxFrame(Payload(f, h), image, alph)
<1>0. ImageOk(d)
  BY DEF FrameOk
<1>1. Found(f, w, d)
  BY <1>0, FrameFound
<1>2. parseANMF(s, f, h) = AddChecked(s, frame)
  BY DEF parseANMF
<1> HIDE DEF f, w
<1>3. image = Raw(d) /\ alph = d.alph
  BY <1>0, <1>1, DemuxFinds
<1> HIDE DEF image, alph
<1>4. frame = AnimFrame(Info(r), Raw(d), d.alph, d.alph > 0 \/ frameDataHasAlpha(Raw(d)))
  BY <1>3 DEF DemuxFrame, f
<1>5. (d.alph > 0 \/ frameDataHasAlpha(Raw(d))) = (d.alph # Nil \/ (IsVP8L(d) /\ d.alpha))
  BY <1>0, ImageParts DEF frameDataHasAlpha, IsVP8L, Nil
<1>6. frame = FrameGiven(r)
  BY <1>4, <1>5, InfoRead DEF FrameGiven
<1> HIDE DEF frame
<1>7. frame.w = d.w /\ frame.h = d.h
  BY <1>6 DEF FrameGiven
<1>8. d.w * d.h < MaxImageArea /\ d.w \in Nat /\ d.h \in Nat
  BY <1>0, ImageParts DEF ImageOk
<1>9. ~(d.w * d.h >= MaxImageArea)
  <2>1. PICK area \in Nat : area = d.w * d.h
    BY <1>8
  <2>2. QED
    BY <1>8, <2>1, MaxNat
<1>10. ~(Len(s.frames) >= MaxFrames)
  BY MaxFramesAssumption
<1>11. AddChecked(s, frame) = AddTo(s, frame)
  BY <1>7, <1>9, <1>10 DEF AddChecked
<1>12. QED
  BY <1>2, <1>6, <1>11 DEF f

\* The image of a frame is the first of its chunks that is no ALPH.
LEMMA FirstImage ==
    ASSUME NEW f, NEW ids, NEW j \in Nat, NEW i \in Nat, j >= 1, NEW n \in Nat, i <= n, j <= i,
           i = j \/ i = j + 1, i = j + 1 => Id(f, ids[j]) = "ALPH",
           Id(f, ids[i]) # "ALPH"
    PROVE  FirstNot(f, ids, j, n) = i
<1> DEFINE S == {k \in j .. n : Id(f, ids[k]) # "ALPH"} \union {n + 1}
<1>1. S \in SUBSET Nat /\ i \in S
  OBVIOUS
<1>2. \A k \in S : i <= k
  <2> TAKE k \in S
  <2>1. CASE k = n + 1
    BY <2>1
  <2>2. CASE k # n + 1
    <3>1. k \in j .. n /\ Id(f, ids[k]) # "ALPH"
      BY <2>2
    <3>2. i = j + 1 => k # j
      BY <3>1
    <3>3. QED
      BY <3>1, <3>2
  <2>3. QED
    BY <2>1, <2>2
<1> HIDE DEF S
<1>3. Min(S) \in S /\ Min(S) <= i
  BY <1>1, NatMin
<1>4. Min(S) \in Nat /\ i <= Min(S)
  BY <1>1, <1>2, <1>3
<1>5. Min(S) = i
  BY <1>3, <1>4
<1>6. QED
  BY <1>5 DEF S, FirstNot

LEMMA Refitted ==
    ASSUME NEW s, IsFrame(s), NEW image, NEW has
    PROVE  [s EXCEPT !.data = image, !.hasAlpha = has] =
                [x |-> s.x, y |-> s.y, w |-> s.w, h |-> s.h, duration |-> s.duration,
                 dispose |-> s.dispose, blend |-> s.blend,
                 data |-> image, alph |-> s.alph, hasAlpha |-> has]
<1> DEFINE R(v, z, k) == [x |-> s.x, y |-> s.y, w |-> s.w, h |-> s.h, duration |-> s.duration,
                          dispose |-> s.dispose, blend |-> s.blend,
                          data |-> v, alph |-> z, hasAlpha |-> k]
           a == s.alph
           g == s.hasAlpha
<1>0. s = R(s.data, a, g)
  BY DEF IsFrame
<1> HIDE DEF a, g
<1>1. PICK s1 : s1 = [s EXCEPT !.data = image]
  OBVIOUS
<1>2. s1 = R(image, a, g)
  BY <1>0, <1>1
<1>3. PICK s2 : s2 = [s1 EXCEPT !.hasAlpha = has]
  OBVIOUS
<1>4. s2 = R(image, a, has)
  BY <1>2, <1>3
<1> HIDE DEF R
<1>5. s2 = [s EXCEPT !.data = image, !.hasAlpha = has]
  BY <1>1, <1>3
<1>6. QED
  BY <1>4, <1>5 DEF R, a

LEMMA RefittedPlane ==
    ASSUME NEW s, IsFrame(s), NEW image, NEW alph, NEW has
    PROVE  [s EXCEPT !.data = image, !.alph = alph, !.hasAlpha = has] =
                [x |-> s.x, y |-> s.y, w |-> s.w, h |-> s.h, duration |-> s.duration,
                 dispose |-> s.dispose, blend |-> s.blend,
                 data |-> image, alph |-> alph, hasAlpha |-> has]
<1> DEFINE R(v, z, k) == [x |-> s.x, y |-> s.y, w |-> s.w, h |-> s.h, duration |-> s.duration,
                          dispose |-> s.dispose, blend |-> s.blend,
                          data |-> v, alph |-> z, hasAlpha |-> k]
           a == s.alph
           g == s.hasAlpha
<1>0. s = R(s.data, a, g)
  BY DEF IsFrame
<1> HIDE DEF a, g
<1>1. PICK s1 : s1 = [s EXCEPT !.data = image]
  OBVIOUS
<1>2. s1 = R(image, a, g)
  BY <1>0, <1>1
<1>3. PICK s2 : s2 = [s1 EXCEPT !.alph = alph]
  OBVIOUS
<1>4. s2 = R(image, alph, g)
  BY <1>2, <1>3
<1>5. PICK s3 : s3 = [s2 EXCEPT !.hasAlpha = has]
  OBVIOUS
<1>6. s3 = R(image, alph, has)
  BY <1>4, <1>5
<1> HIDE DEF R
<1>7. s3 = [s EXCEPT !.data = image, !.alph = alph, !.hasAlpha = has]
  BY <1>1, <1>3, <1>5
<1>8. QED
  BY <1>6, <1>7 DEF R

\* The parser finds the image in a frame.
LEMMA ParserFindsFrame ==
    ASSUME NEW p, Pieces(p), NEW r, FrameOk(r), NEW h \in 1 .. Len(p),
           Within(writeANMFChunk(r), p, h - 1), Payload(Written(p), h) = Info(r)
    PROVE  ParseFrame(Written(p), h) = FrameParsed(EmptyFrame(r), r.data)
<1> DEFINE f == Written(p)
           w == SubChunks(f, h, TRUE)
           d == r.data
           first == Min({k \in DOMAIN w : Id(f, w[k]) # "ALPH"} \union {Len(w) + 1})
           id == IF first > Len(w) THEN "end" ELSE Id(f, w[first])
           alph == IF first = 1 THEN Nil ELSE Payload(f, w[first - 1])
           image == Payload(f, w[first])
           frame == AnimFrame(Payload(f, h), NoImage, Nil, FALSE)
<1>0. ImageOk(d)
  BY DEF FrameOk
<1>1. Found(f, w, d)
  BY <1>0, FrameFound
<1>2. ParseFrame(f, h) =
          CASE frame.w * frame.h >= MaxImageArea \/ id = "unreadable" -> Failed
          [] frame.w * frame.h < MaxImageArea /\ id = "VP8L" ->
                 IF alph # Nil \/ ~HasHeader(image) THEN Failed
                 ELSE [ok |-> TRUE, frame |-> [frame EXCEPT !.data = image, !.hasAlpha = image.alpha]]
          [] frame.w * frame.h < MaxImageArea /\ id = "VP8" ->
                 [ok |-> TRUE, frame |-> [frame EXCEPT !.data = image, !.alph = alph, !.hasAlpha = alph # Nil]]
          [] OTHER -> IF alph # Nil THEN Failed ELSE [ok |-> TRUE, frame |-> frame]
  BY Zenon DEF ParseFrame
<1>3. Payload(f, h) = Info(r)
  OBVIOUS
<1> HIDE DEF f, w
<1>4. /\ Len(w) = Planes(d) + 1 /\ Planes(d) \in 0 .. 1 /\ DOMAIN w = 1 .. Len(w)
  <2>1. IsList(w) /\ Len(w) = Planes(d) + 1
    BY <1>1 DEF Found
  <2>2. DOMAIN w = 1 .. Len(w)
    BY <2>1, ListParts
  <2>3. QED
    BY <2>1, <2>2 DEF Planes
<1>5. d.codec \in {"VP8", "VP8L"}
  BY <1>0, ImageParts
<1>6. (d.alph # Nil => Planes(d) = 1) /\ (d.alph = Nil => Planes(d) = 0)
  BY DEF Planes
<1>7. /\ Id(f, w[Planes(d) + 1]) = d.codec /\ Payload(f, w[Planes(d) + 1]) = Raw(d)
      /\ (d.alph # Nil => Id(f, w[1]) = "ALPH" /\ Payload(f, w[1]) = d.alph)
  BY <1>1 DEF Found
<1>8. first = Planes(d) + 1
  <2>1. PICK i \in Nat, n \in Nat : i = Planes(d) + 1 /\ n = Len(w)
    BY <1>4
  <2>2. i <= n /\ 1 <= i /\ (i = 1 \/ i = 1 + 1)
    BY <1>4, <2>1
  <2>3. i = 1 + 1 => Id(f, w[1]) = "ALPH"
    BY <1>4, <1>6, <1>7, <2>1
  <2>4. Id(f, w[i]) # "ALPH"
    BY <1>5, <1>7, <2>1
  <2>5. FirstNot(f, w, 1, n) = i
    <3>1. PICK j \in Nat : j = 1
      OBVIOUS
    <3>2. j >= 1 /\ i <= n /\ j <= i /\ (i = j \/ i = j + 1)
      BY <2>2, <3>1
    <3>3. i = j + 1 => Id(f, w[j]) = "ALPH"
      BY <2>3, <3>1
    <3>4. FirstNot(f, w, j, n) = i
      <4> HIDE DEF first, id, alph, image, frame
      <4>1. /\ j >= 1 /\ i <= n /\ j <= i /\ (i = j \/ i = j + 1)
            /\ i = j + 1 => Id(f, w[j]) = "ALPH"
            /\ Id(f, w[i]) # "ALPH"
        BY <2>4, <3>2, <3>3
      <4>2. QED
        BY <4>1, FirstImage, SMTT(30)
    <3>5. QED
      BY <3>1, <3>4
  <2>6. first = FirstNot(f, w, 1, n)
    BY <1>4, <2>1 DEF FirstNot
  <2>7. QED
    BY <2>1, <2>5, <2>6
<1> HIDE DEF first
<1>9. id = d.codec /\ image = Raw(d)
  BY <1>4, <1>7, <1>8
<1>10. alph = d.alph
  <2>1. CASE d.alph = Nil
    <3>1. first = 1
      BY <1>6, <1>8, <2>1
    <3>2. QED
      BY <2>1, <3>1
  <2>2. CASE d.alph # Nil
    <3>1. first # 1 /\ first - 1 = 1
      BY <1>6, <1>8, <2>2
    <3>2. QED
      BY <1>7, <2>2, <3>1
  <2>3. QED
    BY <2>1, <2>2
<1> HIDE DEF id, image, alph
<1>11. frame = [x |-> Even(r.x), y |-> Even(r.y), w |-> r.data.w, h |-> r.data.h,
               duration |-> r.duration, dispose |-> r.dispose, blend |-> r.blend,
               data |-> NoImage, alph |-> Nil, hasAlpha |-> FALSE]
  BY <1>3, InfoRead
<1>11b. frame = EmptyFrame(r)
  BY <1>3 DEF EmptyFrame
<1> HIDE DEF frame
<1>12. frame.w = d.w /\ frame.h = d.h
  BY <1>11
<1>13. PICK area \in Nat : area = frame.w * frame.h /\ area < MaxImageArea /\ ~(area >= MaxImageArea)
  <2>1. d.w * d.h < MaxImageArea /\ d.w \in Nat /\ d.h \in Nat
    BY <1>0, ImageParts DEF ImageOk
  <2>2. PICK area \in Nat : area = d.w * d.h
    BY <2>1
  <2>3. QED
    BY <1>12, <2>1, <2>2, MaxNat
<1>14. HasHeader(Raw(d)) /\ (IsVP8L(Raw(d)) <=> d.codec = "VP8L") /\ Raw(d).alpha = d.alpha
  BY <1>0, ImageParts DEF HasHeader
<1>15. CASE d.codec = "VP8L"
  <2>1. ParseFrame(f, h) =
            IF alph # Nil \/ ~HasHeader(image) THEN Failed
            ELSE [ok |-> TRUE, frame |-> [frame EXCEPT !.data = image, !.hasAlpha = image.alpha]]
    BY <1>2, <1>9, <1>13, <1>15
  <2>2. ParseFrame(f, h) =
            IF d.alph # Nil THEN Failed
            ELSE [ok |-> TRUE, frame |-> [frame EXCEPT !.data = Raw(d), !.hasAlpha = d.alpha]]
    BY <1>9, <1>10, <1>14, <2>1
  <2>3. QED
    BY <1>11b, <1>15, <2>2 DEF f, FrameParsed
<1>16. CASE d.codec = "VP8"
  <2>1. ParseFrame(f, h) = [ok |-> TRUE, frame |-> [frame EXCEPT !.data = image, !.alph = alph, !.hasAlpha = alph # Nil]]
    BY <1>2, <1>9, <1>13, <1>16
  <2>2. d.codec # "VP8L"
    BY <1>16
  <2>3. ParseFrame(f, h) = [ok |-> TRUE, frame |-> [frame EXCEPT !.data = Raw(d), !.alph = d.alph, !.hasAlpha = d.alph # Nil]]
    BY <1>9, <1>10, <2>1
  <2>4. QED
    BY <1>11b, <2>2, <2>3 DEF f, FrameParsed
<1>17. QED
  BY <1>5, <1>15, <1>16

\* The parser takes a frame as it was given.
LEMMA ParserReadsFrame ==
    ASSUME NEW p, Pieces(p), NEW r, FrameOk(r), NoPlane(r.data), NEW h \in 1 .. Len(p),
           Within(writeANMFChunk(r), p, h - 1), Payload(Written(p), h) = Info(r)
    PROVE  ParseFrame(Written(p), h) = [ok |-> TRUE, frame |-> FrameGiven(r)]
<1> DEFINE f == Written(p)
           d == r.data
           frame == EmptyFrame(r)
           image == Raw(d)
           alph == d.alph
<1>0. ImageOk(d)
  BY DEF FrameOk
<1>2. ParseFrame(f, h) = FrameParsed(frame, d)
  BY ParserFindsFrame
<1> HIDE DEF f
<1>5. d.codec \in {"VP8", "VP8L"}
  BY <1>0, ImageParts
<1>9. image = Raw(d)
  OBVIOUS
<1>10. alph = d.alph
  OBVIOUS
<1> HIDE DEF image, alph
<1>11. frame = [x |-> Even(r.x), y |-> Even(r.y), w |-> r.data.w, h |-> r.data.h,
               duration |-> r.duration, dispose |-> r.dispose, blend |-> r.blend,
               data |-> NoImage, alph |-> Nil, hasAlpha |-> FALSE]
  BY InfoRead DEF EmptyFrame
<1> HIDE DEF frame
<1>11a. /\ IsFrame(frame) /\ frame.x = Even(r.x) /\ frame.y = Even(r.y) /\ frame.w = d.w /\ frame.h = d.h
        /\ frame.duration = r.duration /\ frame.dispose = r.dispose /\ frame.blend = r.blend
        /\ frame.alph = Nil
  BY <1>11 DEF IsFrame
<1>15. CASE d.codec = "VP8L"
  <2>1. d.alph = Nil
    BY <1>15 DEF NoPlane
  <2>2. ParseFrame(f, h) = [ok |-> TRUE, frame |-> [frame EXCEPT !.data = image, !.hasAlpha = d.alpha]]
    BY <1>2, <1>9, <1>15, <2>1 DEF FrameParsed
  <2>3. (d.alph # Nil \/ (IsVP8L(d) /\ d.alpha)) = d.alpha
    <3>1. d.alpha \in BOOLEAN
      BY <1>0 DEF ImageOk
    <3>2. IsVP8L(d)
      BY <1>15, <2>1 DEF IsVP8L
    <3>3. QED
      BY <2>1, <3>1, <3>2
  <2>4. [frame EXCEPT !.data = image, !.hasAlpha = d.alpha] = FrameGiven(r)
    <3>1. FrameGiven(r) =
             [x |-> Even(r.x), y |-> Even(r.y), w |-> r.data.w, h |-> r.data.h,
              duration |-> r.duration, dispose |-> r.dispose, blend |-> r.blend,
              data |-> Raw(d), alph |-> Nil, hasAlpha |-> d.alpha]
      BY <2>1, <2>3 DEF FrameGiven
    <3>2. PICK has : has = d.alpha
      OBVIOUS
    <3>3. [frame EXCEPT !.data = image, !.hasAlpha = has] =
             [x |-> Even(r.x), y |-> Even(r.y), w |-> r.data.w, h |-> r.data.h,
              duration |-> r.duration, dispose |-> r.dispose, blend |-> r.blend,
              data |-> image, alph |-> Nil, hasAlpha |-> has]
      <4>1. IsFrame(frame)
        BY <1>11a
      <4>2. [frame EXCEPT !.data = image, !.hasAlpha = has] =
               [x |-> frame.x, y |-> frame.y, w |-> frame.w, h |-> frame.h, duration |-> frame.duration,
                dispose |-> frame.dispose, blend |-> frame.blend,
                data |-> image, alph |-> frame.alph, hasAlpha |-> has]
        BY <4>1, Refitted, Zenon
      <4>3. QED
        BY <1>11a, <4>2
    <3>4. QED
      BY <1>9, <3>1, <3>2, <3>3
  <2>5. QED
    BY <2>2, <2>4 DEF f
<1>16. CASE d.codec = "VP8"
  <2>1. (d.alph # Nil \/ (IsVP8L(d) /\ d.alpha)) = (d.alph # Nil)
    BY <1>16 DEF IsVP8L
  <2>0. d.codec # "VP8L"
    BY <1>16
  <2>2. ParseFrame(f, h) = [ok |-> TRUE, frame |-> [frame EXCEPT !.data = image, !.alph = alph, !.hasAlpha = alph # Nil]]
    BY <1>2, <1>9, <1>10, <2>0 DEF FrameParsed
  <2>3. [frame EXCEPT !.data = image, !.alph = alph, !.hasAlpha = alph # Nil] = FrameGiven(r)
    <3>1. FrameGiven(r) =
             [x |-> Even(r.x), y |-> Even(r.y), w |-> r.data.w, h |-> r.data.h,
              duration |-> r.duration, dispose |-> r.dispose, blend |-> r.blend,
              data |-> Raw(d), alph |-> d.alph, hasAlpha |-> d.alph # Nil]
      BY <2>1 DEF FrameGiven
    <3>2. PICK has : has = (d.alph # Nil)
      OBVIOUS
    <3>3. [frame EXCEPT !.data = image, !.alph = alph, !.hasAlpha = has] =
             [x |-> Even(r.x), y |-> Even(r.y), w |-> r.data.w, h |-> r.data.h,
              duration |-> r.duration, dispose |-> r.dispose, blend |-> r.blend,
              data |-> image, alph |-> alph, hasAlpha |-> has]
      <4>1. IsFrame(frame)
        BY <1>11a
      <4>2. [frame EXCEPT !.data = image, !.alph = alph, !.hasAlpha = has] =
               [x |-> frame.x, y |-> frame.y, w |-> frame.w, h |-> frame.h, duration |-> frame.duration,
                dispose |-> frame.dispose, blend |-> frame.blend,
                data |-> image, alph |-> alph, hasAlpha |-> has]
        BY <4>1, RefittedPlane, Zenon
      <4>3. QED
        BY <1>11a, <4>2
    <3>4. QED
      BY <1>9, <1>10, <3>1, <3>2, <3>3, Zenon
  <2>4. QED
    BY <2>2, <2>3 DEF f
<1>17. QED
  BY <1>5, <1>15, <1>16

LEMMA PartJoined ==
    ASSUME NEW p, NEW q, IsList(p), IsList(q)
    PROVE  /\ IsList(p \o q) /\ Len(p) \in Nat /\ Len(q) \in Nat /\ Len(p \o q) = Len(p) + Len(q)
           /\ Within(p, p \o q, 0) /\ Within(q, p \o q, Len(p))
<1> DEFINE r == p \o q
<1>1. /\ IsList(r) /\ Len(p) \in Nat /\ Len(q) \in Nat /\ Len(r) = Len(p) + Len(q)
      /\ \A i \in 1 .. Len(p) : r[i] = p[i]
      /\ \A i \in 1 .. Len(q) : r[Len(p) + i] = q[i]
  BY Joined
<1> HIDE DEF r
<1>2. Within(p, r, 0)
  <2>1. \A j \in 1 .. Len(p) : 0 + j = j
    BY <1>1
  <2>2. QED
    BY <1>1, <2>1 DEF Within
<1>3. Within(q, r, Len(p))
  BY <1>1 DEF Within
<1>4. QED
  BY <1>1, <1>2, <1>3 DEF r

LEMMA PartLeft ==
    ASSUME NEW p, NEW q, IsList(p), IsList(q), NEW c, NEW s, Within(c, p, s), Len(c) \in Nat
    PROVE  Within(c, p \o q, s)
<1> DEFINE r == p \o q
<1>1. /\ IsList(r) /\ Len(p) \in Nat /\ Len(q) \in Nat /\ Len(r) = Len(p) + Len(q)
      /\ \A i \in 1 .. Len(p) : r[i] = p[i]
      /\ \A i \in 1 .. Len(q) : r[Len(p) + i] = q[i]
  BY Joined
<1> HIDE DEF r
<1>2. s \in Nat /\ s + Len(c) <= Len(p) /\ \A j \in 1 .. Len(c) : p[s + j] = c[j]
  BY DEF Within
<1>3. \A j \in 1 .. Len(c) : s + j \in 1 .. Len(p)
  BY <1>1, <1>2
<1>4. s + Len(c) <= Len(r)
  BY <1>1, <1>2
<1>5. Within(c, r, s)
  BY <1>1, <1>2, <1>3, <1>4 DEF Within
<1>6. QED
  BY <1>5 DEF r

\* What lies where in five lists, one behind the other.
LEMMA RowParts ==
    ASSUME NEW v, NEW i, NEW m, NEW e, NEW x, IsList(v), IsList(i), IsList(m), IsList(e), IsList(x)
    PROVE  LET r == Row(v, i, m, e, x)
           IN  /\ IsList(r) /\ Len(r) = Len(v) + Len(i) + Len(m) + Len(e) + Len(x)
               /\ Len(v) \in Nat /\ Len(i) \in Nat /\ Len(m) \in Nat /\ Len(e) \in Nat /\ Len(x) \in Nat
               /\ Within(v, r, 0) /\ Within(i, r, Len(v)) /\ Within(m, r, Len(v) + Len(i))
               /\ Within(e, r, Len(v) + Len(i) + Len(m)) /\ Within(x, r, Len(v) + Len(i) + Len(m) + Len(e))
<1> DEFINE a == v \o i
           b == a \o m
           c == b \o e
           r == c \o x
<1>0. Len(v) \in Nat /\ Len(i) \in Nat /\ Len(m) \in Nat /\ Len(e) \in Nat /\ Len(x) \in Nat
  BY ListParts
<1>1. IsList(a) /\ Len(a) = Len(v) + Len(i) /\ Within(v, a, 0) /\ Within(i, a, Len(v))
  BY PartJoined
<1> HIDE DEF a
<1>2. /\ IsList(b) /\ Len(b) = Len(a) + Len(m) /\ Within(m, b, Len(a))
  BY <1>1, PartJoined
<1>3. Within(v, b, 0) /\ Within(i, b, Len(v))
  BY <1>0, <1>1, PartLeft
<1> HIDE DEF b
<1>4. /\ IsList(c) /\ Len(c) = Len(b) + Len(e) /\ Within(e, c, Len(b))
  BY <1>2, PartJoined
<1>5. Within(v, c, 0) /\ Within(i, c, Len(v)) /\ Within(m, c, Len(a))
  BY <1>0, <1>2, <1>3, PartLeft
<1> HIDE DEF c
<1>6. /\ IsList(r) /\ Len(r) = Len(c) + Len(x) /\ Within(x, r, Len(c))
  BY <1>4, PartJoined
<1>7. Within(v, r, 0) /\ Within(i, r, Len(v)) /\ Within(m, r, Len(a)) /\ Within(e, r, Len(b))
  BY <1>0, <1>4, <1>5, PartLeft
<1>8. r = Row(v, i, m, e, x)
  BY DEF Row, a, b, c
<1> HIDE DEF r
<1>9. Len(r) = Len(v) + Len(i) + Len(m) + Len(e) + Len(x)
  BY <1>0, <1>1, <1>2, <1>4, <1>6
<1>10. QED
  BY <1>0, <1>1, <1>2, <1>4, <1>6, <1>7, <1>8, <1>9

LEMMA RowAfter ==
    ASSUME NEW h, NEW v, NEW i, NEW m, NEW e, NEW x,
           IsList(h), IsList(v), IsList(i), IsList(m), IsList(e), IsList(x)
    PROVE  Strung(h, v, i, m, e, x) = h \o Row(v, i, m, e, x)
<1> DEFINE a == v \o i
           b == a \o m
           c == b \o e
<1>1. IsList(a)
  BY PartJoined
<1>2. (h \o v) \o i = h \o a
  BY JoinedTwice
<1> HIDE DEF a
<1>3. IsList(b) /\ (h \o a) \o m = h \o b
  <2>1. IsList(b)
    BY <1>1, PartJoined
  <2>2. (h \o a) \o m = h \o (a \o m)
    <3>1. IsList(h) /\ IsList(a) /\ IsList(m)
      BY <1>1
    <3>2. QED
      <4> HIDE DEF b
      <4>1. QED
        BY <3>1, JoinedTwice, SMTT(30)
  <2>3. QED
    BY <2>1, <2>2
<1> HIDE DEF b
<1>4. IsList(c) /\ (h \o b) \o e = h \o c
  <2>1. IsList(c)
    BY <1>3, PartJoined
  <2>2. (h \o b) \o e = h \o (b \o e)
    <3>1. IsList(h) /\ IsList(b) /\ IsList(e)
      BY <1>3
    <3>2. QED
      <4> HIDE DEF c
      <4>1. QED
        BY <3>1, JoinedTwice, SMTT(30)
  <2>3. QED
    BY <2>1, <2>2
<1> HIDE DEF c
<1>5. (h \o c) \o x = h \o (c \o x)
  <2>1. IsList(h) /\ IsList(c) /\ IsList(x)
    BY <1>4
  <2>2. QED
    BY <2>1, JoinedTwice, SMTT(30)
<1>6. c \o x = Row(v, i, m, e, x)
  BY DEF Row, a, b, c
<1>7. QED
  BY <1>2, <1>3, <1>4, <1>5, <1>6 DEF Strung

LEMMA RowChunked ==
    ASSUME NEW v, NEW i, NEW m, NEW e, NEW x, NEW vs, NEW is, NEW ms, NEW es, NEW xs,
           Chunked(v, vs), Chunked(i, is), Chunked(m, ms), Chunked(e, es), Chunked(x, xs)
    PROVE  /\ Chunked(Row(v, i, m, e, x), Row(vs, is, ms, es, xs))
           /\ Size(Row(v, i, m, e, x)) = Size(v) + Size(i) + Size(m) + Size(e) + Size(x)
<1> DEFINE a == v \o i
           b == a \o m
           c == b \o e
           r == c \o x
           as == vs \o is
           bs == as \o ms
           ds == bs \o es
           rs == ds \o xs
<1>0. Pieces(v) /\ Pieces(i) /\ Pieces(m) /\ Pieces(e) /\ Pieces(x)
  BY DEF Chunked
<1>1. Chunked(a, as)
  BY ChunkedJoined
<1>2. Pieces(a) /\ Size(a) = Size(v) + Size(i)
  BY <1>0, <1>1, SizeJoined DEF Chunked
<1> HIDE DEF a, as
<1>3. Chunked(b, bs)
  BY <1>1, ChunkedJoined
<1>4. Pieces(b) /\ Size(b) = Size(a) + Size(m)
  BY <1>0, <1>2, <1>3, SizeJoined DEF Chunked
<1> HIDE DEF b, bs
<1>5. Chunked(c, ds)
  BY <1>3, ChunkedJoined
<1>6. Pieces(c) /\ Size(c) = Size(b) + Size(e)
  BY <1>0, <1>4, <1>5, SizeJoined DEF Chunked
<1> HIDE DEF c, ds
<1>7. Chunked(r, rs)
  BY <1>5, ChunkedJoined
<1>8. Size(r) = Size(c) + Size(x)
  BY <1>0, <1>6, SizeJoined
<1>9. r = Row(v, i, m, e, x) /\ rs = Row(vs, is, ms, es, xs)
  BY DEF Row, a, b, c, as, bs, ds
<1> HIDE DEF r, rs
<1>10. QED
  BY <1>2, <1>4, <1>6, <1>7, <1>8, <1>9

(***************************************************************************)
(* Reading a whole file                                                     *)
(***************************************************************************)

\* The walk over a whole file finds its chunks: both readers start from it.
LEMMA FileRead ==
    ASSUME NEW body, NEW cs, Chunked(body, cs), NEW size, size = 4 + Size(body),
           NEW needPad, NEW f, f = Written(FilePieces(size, body)), NEW bytes, bytes = Bytes(f)
    PROVE  /\ Reads(FilePieces(size, body), Walk(f, RIFFHeaderSize, PayloadEnd(f, bytes), needPad), cs)
           /\ bytes >= RIFFHeaderSize /\ bytes \in Nat
<1> DEFINE p == FilePieces(size, body)
<1>0. size \in Nat /\ Size(body) \in Nat
  <2>1. Pieces(body)
    BY DEF Chunked
  <2>2. Size(body) \in Nat
    BY <2>1, AtType
  <2>3. QED
    BY <2>2
<1>1. /\ Pieces(p) /\ Size(p) = 12 + Size(body)
      /\ Len(p) >= 1 /\ Written(p)[1].v = size /\ Bytes(Written(p)) = Size(p)
      /\ \E hs, pos : Laid(p, cs, hs, pos, 12, Size(p))
  BY <1>0, FileLaid
<1>2. f = Written(p)
  OBVIOUS
<1> HIDE DEF p
<1>3. PICK hs, pos : Laid(p, cs, hs, pos, 12, Size(p))
  BY <1>1
<1>4. PayloadEnd(f, bytes) = Size(p) /\ bytes = Size(p)
  <2>1. bytes = Size(p) /\ f[1].v = size
    BY <1>1, <1>2
  <2>2. f[1].v + ChunkHeaderSize = Size(p) /\ Size(p) \in Nat
    BY <1>0, <1>1, <2>1 DEF ChunkHeaderSize
  <2>3. QED
    BY <2>1, <2>2 DEF PayloadEnd
<1> DEFINE w == Walk(Written(p), 12, Size(p), needPad)
<1>5. IsList(w) /\ Len(w) = Len(cs) /\ \A k \in 1 .. Len(cs) : w[k] = hs[k]
  BY <1>3, LaidWhole
<1>6. Walk(f, RIFFHeaderSize, PayloadEnd(f, bytes), needPad) = w
  BY <1>2, <1>4 DEF RIFFHeaderSize
<1> HIDE DEF w
<1>7. ASSUME NEW k \in 1 .. Len(cs)
      PROVE  /\ hs[k] \in 1 .. Len(p) /\ hs[k] # 0 /\ Within(cs[k], p, hs[k] - 1)
             /\ Id(Written(p), hs[k]) = cs[k][1].v.id
             /\ Payload(Written(p), hs[k]) = cs[k][2].v
  BY <1>3, LaidRead
<1>8. IsList(cs)
  BY DEF Chunked
<1>9. Reads(p, w, cs)
  BY <1>1, <1>5, <1>7, <1>8 DEF Reads
<1>10. QED
  BY <1>0, <1>1, <1>4, <1>6, <1>9 DEF p, RIFFHeaderSize

(***************************************************************************)
(* The demuxer, chunk by chunk                                              *)
(***************************************************************************)

\* The recursion of DemuxExtended has a solution.
LEMMA SomeDemux ==
    ASSUME NEW f, NEW ids, NEW n \in Nat
    PROVE  \E after : after = [k \in 1 .. n |-> DStep(f, ids, after, k)]
<1> DEFINE P(m) == \E after : after = [k \in 1 .. m |-> DStep(f, ids, after, k)]
           T == {m \in Nat : P(m)}
<1>1. 0 \in T
  <2> DEFINE a == [k \in 1 .. 0 |-> 0]
  <2>1. a = [k \in 1 .. 0 |-> DStep(f, ids, a, k)]
    OBVIOUS
  <2>2. QED
    BY <2>1
<1>2. ASSUME NEW m \in T PROVE m + 1 \in T
  <2>1. PICK a : a = [k \in 1 .. m |-> DStep(f, ids, a, k)]
    OBVIOUS
  <2> DEFINE b == [k \in 1 .. m + 1 |-> IF k <= m THEN a[k] ELSE DStep(f, ids, a, k)]
  <2>2. ASSUME NEW k \in 1 .. m + 1 PROVE b[k] = DStep(f, ids, b, k)
    <3>1. k # 1 => k - 1 \in 1 .. m + 1 /\ b[k - 1] = a[k - 1]
      OBVIOUS
    <3> HIDE DEF b
    <3>2. DStep(f, ids, b, k) = DStep(f, ids, a, k)
      BY <3>1 DEF DStep
    <3>3. b[k] = IF k <= m THEN a[k] ELSE DStep(f, ids, a, k)
      BY DEF b
    <3>4. k <= m => a[k] = DStep(f, ids, a, k)
      <4>1. k <= m => k \in 1 .. m
        OBVIOUS
      <4>2. QED
        BY <2>1, <4>1
    <3>5. QED
      BY <3>2, <3>3, <3>4
  <2>3. b = [k \in 1 .. m + 1 |-> DStep(f, ids, b, k)]
    BY <2>2
  <2>4. P(m + 1)
    BY <2>3
  <2>5. QED
    BY <2>4
<1> HIDE DEF P
<1>3. n \in T
  <2>1. T \in SUBSET Nat
    OBVIOUS
  <2> HIDE DEF T
  <2>2. QED
    BY <1>1, <1>2, <2>1, CountUp
<1>4. QED
  BY <1>3 DEF P

\* So the demuxer is a run of DStep over the chunks.
LEMMA DemuxSteps ==
    ASSUME NEW f, NEW ids, Len(ids) \in Nat
    PROVE  /\ 1 <= Len(ids) => DAfter(f, ids)[1] = DStart(f, ids)
           /\ \A k \in 1 .. Len(ids) :
                  k + 1 <= Len(ids) /\ DAfter(f, ids)[k].ok =>
                      DAfter(f, ids)[k + 1] = DemuxChunk(DAfter(f, ids)[k], f, ids, k + 1)
<1> DEFINE a == DAfter(f, ids)
<1>1. a = [k \in 1 .. Len(ids) |-> DStep(f, ids, a, k)]
  BY SomeDemux DEF DAfter
<1> HIDE DEF a
<1>2. 1 <= Len(ids) => a[1] = DStart(f, ids)
  <2>1. 1 <= Len(ids) => 1 \in 1 .. Len(ids)
    OBVIOUS
  <2>2. QED
    BY <1>1, <2>1 DEF DStep
<1>3. ASSUME NEW k \in 1 .. Len(ids), k + 1 <= Len(ids), a[k].ok
      PROVE  a[k + 1] = DemuxChunk(a[k], f, ids, k + 1)
  <2>1. PICK l \in 1 .. Len(ids) : l = k + 1 /\ l - 1 = k /\ l # 1
    BY <1>3
  <2>2. a[l] = DStep(f, ids, a, l)
    BY <1>1
  <2>3. a[l] = DemuxChunk(a[l - 1], f, ids, l)
    BY <1>3, <2>1, <2>2 DEF DStep
  <2>4. QED
    BY <2>1, <2>3
<1>4. QED
  BY <1>2, <1>3 DEF a

LEMMA DemuxLast ==
    ASSUME NEW f, NEW ids, NEW all, all = DAfter(f, ids)[Len(ids)], all.ok, all.frames # <<>>
    PROVE  DemuxExtended(f, ids) = all
<1> DEFINE x == Payload(f, ids[1])
           start == [ok |-> TRUE, flags |-> x.flags, w |-> x.w + 1, h |-> x.h + 1,
                  icc |-> Nil, exif |-> Nil, xmp |-> Nil,
                  bgColor |-> 0, loopCount |-> 0, frames |-> <<>>]
           step(after, k) ==
            IF k = 1 THEN start
            ELSE IF after[k - 1].ok THEN DemuxChunk(after[k - 1], f, ids, k) ELSE after[k - 1]
           a == CHOOSE after : after = [k \in 1 .. Len(ids) |-> step(after, k)]
<1>1. DemuxExtended(f, ids) = IF a[Len(ids)].ok /\ a[Len(ids)].frames # <<>> THEN a[Len(ids)] ELSE Failed
  BY DEF DemuxExtended
<1>3. a = DAfter(f, ids)
  BY DEF DAfter, DStep, DStart, DState
<1> HIDE DEF a
<1>4. QED
  BY <1>1, <1>3

LEMMA ReadPart ==
    ASSUME NEW p, NEW ids, NEW cs, Reads(p, ids, cs), NEW part, NEW s, Within(part, cs, s),
           NEW j \in 1 .. Len(part), Len(part) \in Nat
    PROVE  /\ s + j \in 1 .. Len(ids) /\ Len(ids) \in Nat /\ s \in Nat
           /\ ids[s + j] \in 1 .. Len(p) /\ ids[s + j] # 0 /\ Within(part[j], p, ids[s + j] - 1)
           /\ Id(Written(p), ids[s + j]) = part[j][1].v.id
           /\ Payload(Written(p), ids[s + j]) = part[j][2].v
<1>1. IsList(ids) /\ Len(ids) = Len(cs)
  BY DEF Reads
<1>2. Len(ids) \in Nat
  BY <1>1, ListParts
<1>3. s \in Nat /\ s + Len(part) <= Len(cs) /\ cs[s + j] = part[j]
  BY DEF Within
<1>4. PICK k \in 1 .. Len(cs) : k = s + j
  BY <1>1, <1>2, <1>3
<1>5. /\ ids[k] \in 1 .. Len(p) /\ ids[k] # 0 /\ Within(cs[k], p, ids[k] - 1)
      /\ Id(Written(p), ids[k]) = cs[k][1].v.id
      /\ Payload(Written(p), ids[k]) = cs[k][2].v
  BY DEF Reads
<1>6. QED
  BY <1>1, <1>2, <1>3, <1>4, <1>5

LEMMA DemuxNext ==
    ASSUME NEW p, NEW ids, NEW cs, Reads(p, ids, cs), NEW part, NEW s, Within(part, cs, s),
           NEW j \in 1 .. Len(part), Len(part) \in Nat, NEW i \in Nat, i >= 1, i + 1 = s + j,
           DAfter(Written(p), ids)[i].ok
    PROVE  DAfter(Written(p), ids)[s + j] = DemuxChunk(DAfter(Written(p), ids)[i], Written(p), ids, s + j)
<1>1. s + j \in 1 .. Len(ids) /\ Len(ids) \in Nat /\ s \in Nat
  BY ReadPart
<1>2. i \in 1 .. Len(ids) /\ i + 1 <= Len(ids)
  BY <1>1
<1>3. DAfter(Written(p), ids)[i + 1] = DemuxChunk(DAfter(Written(p), ids)[i], Written(p), ids, i + 1)
  BY <1>1, <1>2, DemuxSteps
<1>4. QED
  BY <1>3

LEMMA DStateParts ==
    ASSUME NEW x, NEW icc, NEW exif, NEW xmp, NEW bg, NEW loop, NEW fs
    PROVE  LET d == DState(x, icc, exif, xmp, bg, loop, fs)
           IN  /\ d.ok /\ d.flags = x.flags /\ d.frames = fs /\ d.w = x.w + 1 /\ d.h = x.h + 1
               /\ d.icc = icc /\ d.exif = exif /\ d.xmp = xmp /\ d.bgColor = bg /\ d.loopCount = loop
BY DEF DState

LEMMA DStateIcc ==
    ASSUME NEW x, NEW icc, NEW exif, NEW xmp, NEW bg, NEW loop, NEW fs, NEW v,
           NEW d, d = DState(x, icc, exif, xmp, bg, loop, fs)
    PROVE  [d EXCEPT !.icc = v] = DState(x, v, exif, xmp, bg, loop, fs)
<1>1. PICK t, g, w, h : t = TRUE /\ g = x.flags /\ w = x.w + 1 /\ h = x.h + 1
  OBVIOUS
<1>2. d = [ok |-> t, flags |-> g, w |-> w, h |-> h, icc |-> icc, exif |-> exif, xmp |-> xmp, bgColor |-> bg, loopCount |-> loop, frames |-> fs]
  BY <1>1 DEF DState
<1>3. [d EXCEPT !.icc = v] = [ok |-> t, flags |-> g, w |-> w, h |-> h, icc |-> v, exif |-> exif, xmp |-> xmp, bgColor |-> bg, loopCount |-> loop, frames |-> fs]
  BY <1>2
<1>4. QED
  BY <1>1, <1>3 DEF DState

LEMMA DStateExif ==
    ASSUME NEW x, NEW icc, NEW exif, NEW xmp, NEW bg, NEW loop, NEW fs, NEW v,
           NEW d, d = DState(x, icc, exif, xmp, bg, loop, fs)
    PROVE  [d EXCEPT !.exif = v] = DState(x, icc, v, xmp, bg, loop, fs)
<1>1. PICK t, g, w, h : t = TRUE /\ g = x.flags /\ w = x.w + 1 /\ h = x.h + 1
  OBVIOUS
<1>2. d = [ok |-> t, flags |-> g, w |-> w, h |-> h, icc |-> icc, exif |-> exif, xmp |-> xmp, bgColor |-> bg, loopCount |-> loop, frames |-> fs]
  BY <1>1 DEF DState
<1>3. [d EXCEPT !.exif = v] = [ok |-> t, flags |-> g, w |-> w, h |-> h, icc |-> icc, exif |-> v, xmp |-> xmp, bgColor |-> bg, loopCount |-> loop, frames |-> fs]
  BY <1>2
<1>4. QED
  BY <1>1, <1>3 DEF DState

LEMMA DStateXmp ==
    ASSUME NEW x, NEW icc, NEW exif, NEW xmp, NEW bg, NEW loop, NEW fs, NEW v,
           NEW d, d = DState(x, icc, exif, xmp, bg, loop, fs)
    PROVE  [d EXCEPT !.xmp = v] = DState(x, icc, exif, v, bg, loop, fs)
<1>1. PICK t, g, w, h : t = TRUE /\ g = x.flags /\ w = x.w + 1 /\ h = x.h + 1
  OBVIOUS
<1>2. d = [ok |-> t, flags |-> g, w |-> w, h |-> h, icc |-> icc, exif |-> exif, xmp |-> xmp, bgColor |-> bg, loopCount |-> loop, frames |-> fs]
  BY <1>1 DEF DState
<1>3. [d EXCEPT !.xmp = v] = [ok |-> t, flags |-> g, w |-> w, h |-> h, icc |-> icc, exif |-> exif, xmp |-> v, bgColor |-> bg, loopCount |-> loop, frames |-> fs]
  BY <1>2
<1>4. QED
  BY <1>1, <1>3 DEF DState

LEMMA DStateFrames ==
    ASSUME NEW x, NEW icc, NEW exif, NEW xmp, NEW bg, NEW loop, NEW fs, NEW v,
           NEW d, d = DState(x, icc, exif, xmp, bg, loop, fs)
    PROVE  [d EXCEPT !.frames = v] = DState(x, icc, exif, xmp, bg, loop, v)
<1>1. PICK t, g, w, h : t = TRUE /\ g = x.flags /\ w = x.w + 1 /\ h = x.h + 1
  OBVIOUS
<1>2. d = [ok |-> t, flags |-> g, w |-> w, h |-> h, icc |-> icc, exif |-> exif, xmp |-> xmp, bgColor |-> bg, loopCount |-> loop, frames |-> fs]
  BY <1>1 DEF DState
<1>3. [d EXCEPT !.frames = v] = [ok |-> t, flags |-> g, w |-> w, h |-> h, icc |-> icc, exif |-> exif, xmp |-> xmp, bgColor |-> bg, loopCount |-> loop, frames |-> v]
  BY <1>2
<1>4. QED
  BY <1>1, <1>3 DEF DState

LEMMA DStateColor ==
    ASSUME NEW x, NEW icc, NEW exif, NEW xmp, NEW bg, NEW loop, NEW fs, NEW v,
           NEW d, d = DState(x, icc, exif, xmp, bg, loop, fs)
    PROVE  [d EXCEPT !.bgColor = v] = DState(x, icc, exif, xmp, v, loop, fs)
<1>1. PICK t, g, w, h : t = TRUE /\ g = x.flags /\ w = x.w + 1 /\ h = x.h + 1
  OBVIOUS
<1>2. d = [ok |-> t, flags |-> g, w |-> w, h |-> h, icc |-> icc, exif |-> exif, xmp |-> xmp, bgColor |-> bg, loopCount |-> loop, frames |-> fs]
  BY <1>1 DEF DState
<1>3. [d EXCEPT !.bgColor = v] = [ok |-> t, flags |-> g, w |-> w, h |-> h, icc |-> icc, exif |-> exif, xmp |-> xmp, bgColor |-> v, loopCount |-> loop, frames |-> fs]
  BY <1>2
<1>4. QED
  BY <1>1, <1>3 DEF DState

LEMMA DStateLoop ==
    ASSUME NEW x, NEW icc, NEW exif, NEW xmp, NEW bg, NEW loop, NEW fs, NEW v,
           NEW d, d = DState(x, icc, exif, xmp, bg, loop, fs)
    PROVE  [d EXCEPT !.loopCount = v] = DState(x, icc, exif, xmp, bg, v, fs)
<1>1. PICK t, g, w, h : t = TRUE /\ g = x.flags /\ w = x.w + 1 /\ h = x.h + 1
  OBVIOUS
<1>2. d = [ok |-> t, flags |-> g, w |-> w, h |-> h, icc |-> icc, exif |-> exif, xmp |-> xmp, bgColor |-> bg, loopCount |-> loop, frames |-> fs]
  BY <1>1 DEF DState
<1>3. [d EXCEPT !.loopCount = v] = [ok |-> t, flags |-> g, w |-> w, h |-> h, icc |-> icc, exif |-> exif, xmp |-> xmp, bgColor |-> bg, loopCount |-> v, frames |-> fs]
  BY <1>2
<1>4. QED
  BY <1>1, <1>3 DEF DState

\* The demuxer takes a metadata chunk into its own field only.
LEMMA DemuxMetadata ==
    ASSUME NEW p, NEW ids, NEW cs, Reads(p, ids, cs), NEW s \in Nat, s >= 1,
           NEW x, NEW icc, NEW exif, NEW xmp, NEW bg, NEW loop, NEW fs,
           DAfter(Written(p), ids)[s] = DState(x, icc, exif, xmp, bg, loop, fs),
           NEW id, NEW n \in Nat \cup {Nil}, Within(OptionalChunks(id, n), cs, s),
           NEW e, e = s + Len(OptionalChunks(id, n))
    PROVE  /\ id = "ICCP" /\ icc = Nil =>
                  DAfter(Written(p), ids)[e] = DState(x, n, exif, xmp, bg, loop, fs)
           /\ id = "EXIF" /\ exif = Nil =>
                  DAfter(Written(p), ids)[e] = DState(x, icc, n, xmp, bg, loop, fs)
           /\ id = "XMP" /\ xmp = Nil =>
                  DAfter(Written(p), ids)[e] = DState(x, icc, exif, n, bg, loop, fs)
           /\ e \in Nat /\ e >= 1
<1> DEFINE f == Written(p)
           os == OptionalChunks(id, n)
           d == DState(x, icc, exif, xmp, bg, loop, fs)
<1>1. /\ Len(os) = (IF n = Nil THEN 0 ELSE 1)
      /\ n # Nil => os[1][1].v.id = id /\ os[1][2].v = n
  BY OptionalChunk
<1> HIDE DEF f, os
<1>2. CASE n = Nil
  <2>1. e = s
    BY <1>1, <1>2 DEF os
  <2>2. QED
    BY <1>2, <2>1 DEF f
<1>3. CASE n # Nil
  <2>1. e = s + 1 /\ 1 \in 1 .. Len(os) /\ Len(os) \in Nat
    BY <1>1, <1>3 DEF os
  <2>2. Within(os, cs, s)
    BY DEF os
  <2>3. Id(f, ids[s + 1]) = id /\ Payload(f, ids[s + 1]) = n
    BY <1>1, <1>3, <2>1, <2>2, ReadPart DEF f
  <2>4. d.ok /\ DAfter(f, ids)[s] = d
    BY DStateParts DEF f
  <2>5. DAfter(f, ids)[s + 1] = DemuxChunk(d, f, ids, s + 1)
    <3>1. DAfter(f, ids)[s].ok
      BY <2>4
    <3> HIDE DEF d
    <3>2. DAfter(f, ids)[s + 1] = DemuxChunk(DAfter(f, ids)[s], f, ids, s + 1)
      BY <2>1, <2>2, <3>1, DemuxNext DEF f
    <3>3. QED
      BY <2>4, <3>2
  <2> HIDE DEF d
  <2>6. id = "ICCP" => DemuxChunk(d, f, ids, s + 1) = [d EXCEPT !.icc = n]
    BY <2>3 DEF DemuxChunk
  <2>7. id = "EXIF" => DemuxChunk(d, f, ids, s + 1) = [d EXCEPT !.exif = n]
    BY <2>3 DEF DemuxChunk
  <2>8. id = "XMP" => DemuxChunk(d, f, ids, s + 1) = [d EXCEPT !.xmp = n]
    BY <2>3 DEF DemuxChunk
  <2>9. /\ [d EXCEPT !.icc = n] = DState(x, n, exif, xmp, bg, loop, fs)
        /\ [d EXCEPT !.exif = n] = DState(x, icc, n, xmp, bg, loop, fs)
        /\ [d EXCEPT !.xmp = n] = DState(x, icc, exif, n, bg, loop, fs)
    BY DStateIcc, DStateExif, DStateXmp DEF d
  <2>10. QED
    BY <2>1, <2>5, <2>6, <2>7, <2>8, <2>9 DEF f
<1>4. QED
  BY <1>2, <1>3

LEMMA AnimRead ==
    ASSUME NEW bg, NEW loop
    PROVE  /\ IsChunk(AnimChunk(bg, loop)) /\ Size(AnimChunk(bg, loop)) = ChunkHeaderSize + ANIMChunkSize
           /\ AnimChunk(bg, loop)[1].v.id = "ANIM" /\ AnimChunk(bg, loop)[2].v = AnimInfo(bg, loop)
<1>1. 6 \in Nat /\ 6 % 2 = 0 /\ chunkTotalSize(6) = 8 + 6
  BY DEF chunkTotalSize, ChunkHeaderSize
<1>2. QED
  BY <1>1, PlainChunk DEF AnimChunk, ANIMChunkSize, ChunkHeaderSize

\* It takes the background colour and the loop count from ANIM.
LEMMA DemuxAnim ==
    ASSUME NEW p, NEW ids, NEW cs, Reads(p, ids, cs), NEW s \in Nat, s >= 1,
           NEW x, NEW icc, NEW fs, NEW bg, NEW loop, NEW bg0, NEW loop0,
           DAfter(Written(p), ids)[s] = DState(x, icc, Nil, Nil, bg0, loop0, fs),
           Within(<<AnimChunk(bg, loop)>>, cs, s)
    PROVE  DAfter(Written(p), ids)[s + 1] = DState(x, icc, Nil, Nil, bg, loop, fs)
<1> DEFINE f == Written(p)
           c == AnimChunk(bg, loop)
           part == <<c>>
<1>1. PICK d : d = DState(x, icc, Nil, Nil, bg0, loop0, fs)
  OBVIOUS
<1>2. Len(part) = 1 /\ part[1] = c
  BY ShortLists
<1>3. c[1].v.id = "ANIM" /\ c[2].v = AnimInfo(bg, loop)
  BY AnimRead
<1> HIDE DEF f, c, part
<1>4. Within(part, cs, s) /\ 1 \in 1 .. Len(part) /\ Len(part) \in Nat
  BY <1>2 DEF part, c
<1>5. Id(f, ids[s + 1]) = "ANIM" /\ Payload(f, ids[s + 1]) = AnimInfo(bg, loop)
  <2>1. PICK j \in 1 .. Len(part) : j = 1
    BY <1>4
  <2>2. Id(Written(p), ids[s + j]) = part[j][1].v.id /\ Payload(Written(p), ids[s + j]) = part[j][2].v
    BY <1>4, ReadPart
  <2>3. QED
    BY <1>2, <1>3, <2>1, <2>2 DEF f
<1>6. DAfter(f, ids)[s] = d /\ d.ok
  BY <1>1, DStateParts DEF f
<1>7. DAfter(f, ids)[s + 1] = DemuxChunk(d, f, ids, s + 1)
  <2>1. DAfter(f, ids)[s].ok
    BY <1>6
  <2>2. DAfter(f, ids)[s + 1] = DemuxChunk(DAfter(f, ids)[s], f, ids, s + 1)
    BY <1>4, <2>1, DemuxNext DEF f
  <2>3. QED
    BY <1>6, <2>2
<1>8. PICK a : a = AnimInfo(bg, loop) /\ a.bgColor = bg /\ a.loopCount = loop
  <2>1. AnimInfo(bg, loop).bgColor = bg /\ AnimInfo(bg, loop).loopCount = loop
    BY DEF AnimInfo
  <2>2. QED
    BY <2>1
<1>9. DemuxChunk(d, f, ids, s + 1) = [d EXCEPT !.bgColor = a.bgColor, !.loopCount = a.loopCount]
  BY <1>5, <1>8 DEF DemuxChunk
<1>10. PICK d1 : d1 = [d EXCEPT !.bgColor = a.bgColor]
  OBVIOUS
<1>11. d1 = DState(x, icc, Nil, Nil, bg, loop0, fs)
  BY <1>1, <1>8, <1>10, DStateColor
<1>12. PICK d2 : d2 = [d1 EXCEPT !.loopCount = a.loopCount]
  OBVIOUS
<1>13. d2 = DState(x, icc, Nil, Nil, bg, loop, fs)
  BY <1>8, <1>11, <1>12, DStateLoop
<1>14. d2 = [d EXCEPT !.bgColor = a.bgColor, !.loopCount = a.loopCount]
  BY <1>10, <1>12
<1>15. QED
  BY <1>7, <1>9, <1>13, <1>14 DEF f

LEMMA OneMore ==
    ASSUME NEW fr, NEW n \in Nat
    PROVE  /\ Len(FramesGiven(fr, n)) = n /\ IsList(FramesGiven(fr, n))
           /\ Append(FramesGiven(fr, n), FrameGiven(fr[n + 1])) = FramesGiven(fr, n + 1)
<1> DEFINE g == FramesGiven(fr, n)
           G == {FrameGiven(fr[j]) : j \in 1 .. n + 1}
           a == FrameGiven(fr[n + 1])
           b == FramesGiven(fr, n + 1)
<1>1. n + 1 \in Nat /\ n + 1 \in 1 .. n + 1 /\ a \in G
  OBVIOUS
<1>2. g \in [1 .. n -> G] /\ b \in [1 .. n + 1 -> G]
  BY DEF FramesGiven
<1>3. \A j \in 1 .. n : j \in 1 .. n + 1 /\ g[j] = b[j]
  BY DEF FramesGiven
<1>4. b[n + 1] = a
  BY <1>1 DEF FramesGiven
<1> HIDE DEF g, G, a, b
<1>5. g \in Seq(G) /\ Len(g) = n /\ b \in Seq(G) /\ Len(b) = n + 1
  BY <1>1, <1>2
<1>6. IsList(g) /\ IsList(b)
  BY <1>5 DEF IsList
<1>7. Append(g, a) \in Seq(G) /\ Len(Append(g, a)) = n + 1 /\ Append(g, a)[n + 1] = a
      /\ \A j \in 1 .. n : Append(g, a)[j] = g[j]
  BY <1>1, <1>5, AppendProperties
<1>8. IsList(Append(g, a))
  BY <1>7 DEF IsList
<1>9. \A j \in 1 .. n + 1 : Append(g, a)[j] = b[j]
  <2> TAKE j \in 1 .. n + 1
  <2>1. j \in 1 .. n \/ j = n + 1
    OBVIOUS
  <2>2. QED
    BY <1>3, <1>4, <1>7, <2>1
<1>10. Append(g, a) = b
  BY <1>5, <1>6, <1>7, <1>8, <1>9, SameList
<1>11. QED
  BY <1>5, <1>6, <1>10 DEF g, a, b

LEMMA FrameChunkRead ==
    ASSUME NEW r, ImageOk(r.data)
    PROVE  LET c == writeANMFChunk(r)
           IN  /\ IsChunk(c) /\ Size(c) = ANMFSize(r)
               /\ c[1].v.id = "ANMF" /\ c[2].v = Info(r)
<1> DEFINE q == SubPieces(r.data)
           c == Nested("ANMF", ANMFChunkSize, Info(r), q)
<1>1. Chunked(q, SubList(r.data)) /\ Size(q) = frameSubChunksSize(r.data)
  BY ImageChunks
<1>2. writeANMFChunk(r) = c
  BY FrameNested
<1> HIDE DEF q
<1>3. Pieces(q) /\ ANMFChunkSize \in Nat
  BY <1>1 DEF Chunked, ANMFChunkSize
<1>4. /\ IsChunk(c) /\ Size(c) = chunkTotalSize(ANMFChunkSize + Size(q))
      /\ c[1].v.id = "ANMF" /\ c[2].v = Info(r)
  BY <1>3, NestedChunk
<1>5. chunkTotalSize(ANMFChunkSize + Size(q)) = ANMFSize(r)
  BY <1>1 DEF ANMFSize, chunkTotalSize
<1> HIDE DEF c
<1>6. QED
  BY <1>2, <1>4, <1>5

\* It takes the frames in their order.
LEMMA DemuxFrames ==
    ASSUME NEW p, NEW ids, NEW cs, Reads(p, ids, cs), NEW s \in Nat, s >= 1,
           NEW x, NEW icc, NEW bg, NEW loop,
           DAfter(Written(p), ids)[s] = DState(x, icc, Nil, Nil, bg, loop, <<>>),
           NEW fr, NEW n \in Nat, n <= MaxFrames, \A j \in 1 .. n : FrameOk(fr[j]),
           Within(FrameChunks(fr, n), cs, s)
    PROVE  DAfter(Written(p), ids)[s + n] = DState(x, icc, Nil, Nil, bg, loop, FramesGiven(fr, n))
<1> DEFINE f == Written(p)
           part == FrameChunks(fr, n)
           T == {m \in Nat : m <= n =>
                    DAfter(f, ids)[s + m] = DState(x, icc, Nil, Nil, bg, loop, FramesGiven(fr, m))}
<1>1. 0 \in T
  <2>1. FramesGiven(fr, 0) = <<>> /\ s + 0 = s
    <3>1. Len(FramesGiven(fr, 0)) = 0 /\ IsList(FramesGiven(fr, 0))
      BY OneMore
    <3>2. QED
      BY <3>1, EmptyList, SameList
  <2>2. QED
    BY <2>1
<1>2. ASSUME NEW m \in T PROVE m + 1 \in T
  <2> SUFFICES ASSUME m + 1 <= n
               PROVE  DAfter(f, ids)[s + (m + 1)] = DState(x, icc, Nil, Nil, bg, loop, FramesGiven(fr, m + 1))
    OBVIOUS
  <2>1. PICK d : d = DState(x, icc, Nil, Nil, bg, loop, FramesGiven(fr, m))
    OBVIOUS
  <2>2. DAfter(f, ids)[s + m] = d /\ m \in Nat
    BY <2>1
  <2>3. PICK j \in 1 .. n : j = m + 1
    BY <2>2
  <2> DEFINE r == fr[j]
             c == writeANMFChunk(r)
  <2>4. FrameOk(r) /\ ImageOk(r.data)
    BY DEF FrameOk
  <2>5. c[1].v.id = "ANMF" /\ c[2].v = Info(r)
    BY <2>4, FrameChunkRead
  <2>6. part[j] = c /\ Len(part) = n
    <3>1. part[j] = c
      BY DEF FrameChunks
    <3>2. part = [l \in 1 .. n |-> part[l]]
      BY DEF FrameChunks
    <3> HIDE DEF part
    <3>3. QED
      BY <3>1, <3>2, FunctionList
  <2>7. Within(part, cs, s) /\ j \in 1 .. Len(part) /\ Len(part) \in Nat
    BY <2>6
  <2> HIDE DEF part, c, f, r
  <2>8. /\ Id(f, ids[s + j]) = "ANMF" /\ Payload(f, ids[s + j]) = Info(r)
        /\ ids[s + j] \in 1 .. Len(p) /\ Within(c, p, ids[s + j] - 1)
    <3>1. /\ Id(Written(p), ids[s + j]) = part[j][1].v.id /\ Payload(Written(p), ids[s + j]) = part[j][2].v
          /\ ids[s + j] \in 1 .. Len(p) /\ Within(part[j], p, ids[s + j] - 1)
      BY <2>7, ReadPart
    <3>2. QED
      BY <2>5, <2>6, <3>1 DEF f
  <2>9. d.ok /\ d.frames = FramesGiven(fr, m)
    BY <2>1, DStateParts
  <2>10. DAfter(f, ids)[s + j] = DemuxChunk(d, f, ids, s + j)
    <3>1. PICK i \in Nat : i = s + m /\ i >= 1 /\ i + 1 = s + j
      BY <2>2, <2>3
    <3>2. DAfter(f, ids)[i].ok /\ DAfter(f, ids)[i] = d
      BY <2>2, <2>9, <3>1
    <3>3. DAfter(f, ids)[s + j] = DemuxChunk(DAfter(f, ids)[i], f, ids, s + j)
      <4>1. DAfter(Written(p), ids)[i].ok
        BY <3>2 DEF f
      <4>2. DAfter(Written(p), ids)[s + j] = DemuxChunk(DAfter(Written(p), ids)[i], Written(p), ids, s + j)
        <5>1. s + j \in 1 .. Len(ids) /\ Len(ids) \in Nat
          BY <2>7, ReadPart
        <5>2. i \in 1 .. Len(ids) /\ i + 1 <= Len(ids) /\ i + 1 = s + j
          BY <3>1, <5>1
        <5>3. DAfter(Written(p), ids)[i + 1] = DemuxChunk(DAfter(Written(p), ids)[i], Written(p), ids, i + 1)
          BY <4>1, <5>1, <5>2, DemuxSteps
        <5>4. QED
          BY <5>2, <5>3
      <4>3. QED
        BY <4>2 DEF f
    <3>4. QED
      BY <3>2, <3>3
  <2>11. DemuxChunk(d, f, ids, s + j) = parseANMF(d, f, ids[s + j])
    BY <2>8 DEF DemuxChunk
  <2>12. Len(d.frames) \in Nat /\ Len(d.frames) < MaxFrames
    <3>1. Len(d.frames) = m
      BY <2>2, <2>9, OneMore
    <3>2. QED
      BY <2>2, <3>1, MaxFramesAssumption
  <2>13. parseANMF(d, f, ids[s + j]) = AddTo(d, FrameGiven(r))
    <3>1. Pieces(p)
      BY DEF Reads
    <3>2. PICK h \in 1 .. Len(p) : h = ids[s + j]
      BY <2>8
    <3>3. Within(writeANMFChunk(r), p, h - 1) /\ Payload(Written(p), h) = Info(r)
      BY <2>8, <3>2 DEF c, f
    <3>4. parseANMF(d, Written(p), h) = AddTo(d, FrameGiven(r))
      BY <2>4, <2>12, <3>1, <3>3, DemuxReadsFrame
    <3>5. QED
      BY <3>2, <3>4 DEF f
  <2>14. PICK fs : fs = FramesGiven(fr, m + 1) /\ fs = Append(d.frames, FrameGiven(r))
    <3>1. Append(FramesGiven(fr, m), FrameGiven(fr[m + 1])) = FramesGiven(fr, m + 1)
      BY <2>2, OneMore
    <3>2. QED
      BY <2>3, <2>9, <3>1 DEF r
  <2>15. AddTo(d, FrameGiven(r)) = [d EXCEPT !.frames = fs]
    BY <2>14 DEF AddTo
  <2>16. [d EXCEPT !.frames = fs] = DState(x, icc, Nil, Nil, bg, loop, fs)
    BY <2>1, DStateFrames
  <2>17. QED
    BY <2>3, <2>10, <2>11, <2>13, <2>14, <2>15, <2>16
<1>3. n \in T
  <2>1. T \in SUBSET Nat
    OBVIOUS
  <2> HIDE DEF T
  <2>2. QED
    BY <1>1, <1>2, <2>1, CountUp
<1>4. QED
  BY <1>3

LEMMA FirstImageId ==
    ASSUME NEW f, NEW ids, Len(ids) \in Nat, NEW k \in Nat, NEW i \in 1 .. Len(ids), k <= i,
           Id(f, ids[i]) \in {"VP8", "VP8L"},
           \A j \in k .. i : j # i => Id(f, ids[j]) = "ALPH"
    PROVE  Min(ImageIds(f, ids, k)) = i /\ ImageIds(f, ids, k) # {}
<1>1. i \in ImageIds(f, ids, k) /\ ImageIds(f, ids, k) \in SUBSET Nat
  BY DEF ImageIds
<1>2. \A j \in ImageIds(f, ids, k) : i <= j
  <2> TAKE j \in ImageIds(f, ids, k)
  <2>1. j \in k .. Len(ids) /\ Id(f, ids[j]) # "ALPH"
    BY DEF ImageIds
  <2>2. ~(j < i)
    <3> SUFFICES ASSUME j < i PROVE FALSE
      OBVIOUS
    <3>1. j \in k .. i /\ j # i
      BY <2>1
    <3>2. QED
      BY <2>1, <3>1
  <2>3. QED
    BY <2>1, <2>2
<1>3. Min(ImageIds(f, ids, k)) \in ImageIds(f, ids, k) /\ Min(ImageIds(f, ids, k)) <= i
  BY <1>1, NatMin
<1>4. i <= Min(ImageIds(f, ids, k)) /\ Min(ImageIds(f, ids, k)) \in Nat
  BY <1>1, <1>2, <1>3
<1>5. QED
  BY <1>1, <1>3, <1>4

\* From the first chunk of an image the demuxer takes the image with its plane.
LEMMA DemuxTakesImage ==
    ASSUME NEW f, NEW ids, NEW d, ImageOk(d), NEW k, NEW i, Shown(f, ids, d, k, i),
           NEW a, NEW b, b = [a EXCEPT !.frames = <<StillOf(d, a.w, a.h)>>]
    PROVE  parseSingleExtendedFrame(a, f, ids, k) = b
<1> DEFINE images == ImageIds(f, ids, k)
           alphas == PlaneIds(f, ids, k, Min(images))
           alph == IF alphas = {} THEN Nil ELSE Payload(f, ids[Max(alphas)])
           image == Payload(f, ids[Min(images)])
<1>0. /\ Len(ids) \in Nat /\ k \in Nat /\ i \in 1 .. Len(ids) /\ k >= 1 /\ i = k + Planes(d)
      /\ Id(f, ids[i]) = d.codec /\ Payload(f, ids[i]) = Raw(d)
      /\ d.alph # Nil => Id(f, ids[k]) = "ALPH" /\ Payload(f, ids[k]) = d.alph
  BY DEF Shown
<1>1. parseSingleExtendedFrame(a, f, ids, k) =
        IF images = {} THEN Failed
        ELSE [a EXCEPT !.frames = <<StillFrame(a.w, a.h, image, alph,
                                       alph > 0 \/ frameDataHasAlpha(image))>>]
  BY DEF parseSingleExtendedFrame, ImageIds, PlaneIds
<1>2. d.codec \in {"VP8", "VP8L"} /\ (d.alph # Nil => d.alph > 0) /\ Planes(d) \in 0 .. 1
  BY ImageParts DEF Planes
<1>3. (d.alph # Nil => Planes(d) = 1) /\ (d.alph = Nil => Planes(d) = 0)
  BY DEF Planes
<1>4. Min(images) = i /\ images # {}
  <2>1. \A j \in k .. i : j # i => Id(f, ids[j]) = "ALPH"
    <3> TAKE j \in k .. i
    <3>1. j # i => j = k /\ Planes(d) = 1
      BY <1>0, <1>2
    <3>2. QED
      BY <1>0, <1>3, <3>1
  <2>2. k <= i /\ Id(f, ids[i]) \in {"VP8", "VP8L"}
    BY <1>0, <1>2
  <2>3. QED
    BY <1>0, <2>1, <2>2, FirstImageId
<1> HIDE DEF images
<1>5. image = Raw(d)
  BY <1>0, <1>4
<1>6. alphas = PlaneIds(f, ids, k, i)
  BY <1>4
<1>7. alph = d.alph
  <2>1. CASE d.alph = Nil
    <3>1. \A j \in k .. i : Id(f, ids[j]) # "ALPH"
      BY <1>0, <1>2, <1>3, <2>1
    <3>2. alphas = {}
      BY <1>6, <3>1 DEF PlaneIds
    <3>3. QED
      BY <2>1, <3>2
  <2>2. CASE d.alph # Nil
    <3>1. i = k + 1 /\ Id(f, ids[k]) = "ALPH" /\ Payload(f, ids[k]) = d.alph
      BY <1>0, <1>3, <2>2
    <3>2. \A j \in k .. i : Id(f, ids[j]) = "ALPH" <=> j = k
      <4> TAKE j \in k .. i
      <4>1. j = k \/ j = i
        BY <1>0, <3>1
      <4>2. i # k
        BY <1>0, <3>1
      <4>3. QED
        BY <1>0, <1>2, <3>1, <4>1, <4>2
    <3>3. alphas = {k}
      BY <1>0, <1>6, <3>1, <3>2 DEF PlaneIds
    <3>4. Max({k}) = k
      BY <1>0, OnlyOne
    <3> HIDE DEF alphas
    <3>5. QED
      BY <3>1, <3>3, <3>4
  <2>3. QED
    BY <2>1, <2>2
<1> HIDE DEF alph, image, alphas
<1>8. (alph > 0 \/ frameDataHasAlpha(image)) = (d.alph # Nil \/ (IsVP8L(d) /\ d.alpha))
  BY <1>5, <1>7, ImageParts DEF frameDataHasAlpha, IsVP8L, Nil
<1>9. QED
  BY <1>1, <1>4, <1>5, <1>7, <1>8 DEF StillOf

\* It takes the still image that follows the header.
LEMMA DemuxImage ==
    ASSUME NEW p, NEW ids, NEW cs, Reads(p, ids, cs), NEW s \in Nat, s >= 1,
           NEW x, ~x.flags.anim, NEW icc, NEW bg, NEW loop,
           DAfter(Written(p), ids)[s] = DState(x, icc, Nil, Nil, bg, loop, <<>>),
           NEW d, ImageOk(d), Within(SubList(d), cs, s)
    PROVE  DAfter(Written(p), ids)[s + Planes(d) + 1] =
               DState(x, icc, Nil, Nil, bg, loop, <<StillOf(d, x.w + 1, x.h + 1)>>)
<1> DEFINE f == Written(p)
           part == SubList(d)
<1>1. /\ Len(part) = Planes(d) + 1 /\ Planes(d) \in 0 .. 1
      /\ part[Planes(d) + 1][1].v.id = d.codec
      /\ part[Planes(d) + 1][2].v = Raw(d)
      /\ d.alph # Nil => part[1][1].v.id = "ALPH" /\ part[1][2].v = d.alph
  BY ImageChunks
<1> HIDE DEF part, f
<1>2. Within(part, cs, s) /\ Len(part) \in Nat
  BY <1>1 DEF part
<1>3. (d.alph # Nil => Planes(d) = 1) /\ (d.alph = Nil => Planes(d) = 0)
  BY DEF Planes
<1>4. PICK k \in Nat, i \in 1 .. Len(ids) :
          /\ k = s + 1 /\ i = s + (Planes(d) + 1) /\ i = k + Planes(d) /\ Len(ids) \in Nat /\ k \in 1 .. Len(ids)
          /\ ids[i] # 0
          /\ Id(f, ids[i]) = d.codec /\ Payload(f, ids[i]) = Raw(d)
          /\ d.alph # Nil => Id(f, ids[k]) = "ALPH" /\ Payload(f, ids[k]) = d.alph
  <2>1. PICK j \in 1 .. Len(part), l \in 1 .. Len(part) : j = Planes(d) + 1 /\ l = 1
    BY <1>1
  <2>2. /\ s + j \in 1 .. Len(ids) /\ Len(ids) \in Nat /\ ids[s + j] # 0
        /\ Id(Written(p), ids[s + j]) = part[j][1].v.id /\ Payload(Written(p), ids[s + j]) = part[j][2].v
    BY <1>2, ReadPart
  <2>3. /\ s + l \in 1 .. Len(ids)
        /\ Id(Written(p), ids[s + l]) = part[l][1].v.id /\ Payload(Written(p), ids[s + l]) = part[l][2].v
    BY <1>2, ReadPart
  <2>4. Id(f, ids[s + j]) = d.codec /\ Payload(f, ids[s + j]) = Raw(d)
    BY <1>1, <2>1, <2>2 DEF f
  <2>5. d.alph # Nil => Id(f, ids[s + l]) = "ALPH" /\ Payload(f, ids[s + l]) = d.alph
    BY <1>1, <2>1, <2>3 DEF f
  <2>6. s + j = (s + l) + Planes(d) /\ s + l = s + 1 /\ s + j = s + (Planes(d) + 1) /\ s + l \in Nat
    BY <1>1, <2>1
  <2>7. QED
    BY <2>2, <2>3, <2>4, <2>5, <2>6
<1>5. d.codec \in {"VP8", "VP8L"}
  BY ImageParts
<1>6. PICK a : a = DState(x, icc, Nil, Nil, bg, loop, <<>>)
  OBVIOUS
<1>7. DAfter(f, ids)[s] = a /\ a.ok /\ a.flags = x.flags /\ a.frames = <<>> /\ a.w = x.w + 1 /\ a.h = x.h + 1
  BY <1>6, DStateParts DEF f
<1>8. PICK fs : fs = <<StillOf(d, x.w + 1, x.h + 1)>>
  OBVIOUS
<1>9. PICK b : b = DState(x, icc, Nil, Nil, bg, loop, fs)
  OBVIOUS
<1>10. [a EXCEPT !.frames = fs] = b
  BY <1>6, <1>9, DStateFrames
<1>11. DemuxChunk(a, f, ids, k) = b
  <2>1. parseSingleExtendedFrame(a, f, ids, k) = [a EXCEPT !.frames = fs]
    <3>1. b = [a EXCEPT !.frames = <<StillOf(d, a.w, a.h)>>]
      BY <1>7, <1>8, <1>10
    <3>2. Shown(f, ids, d, k, i)
      BY <1>4 DEF Shown
    <3>4. /\ ImageOk(d) /\ Shown(f, ids, d, k, i)
          /\ b = [a EXCEPT !.frames = <<StillOf(d, a.w, a.h)>>]
      BY <3>1, <3>2
    <3>5. parseSingleExtendedFrame(a, f, ids, k) = b
      BY <3>4, DemuxTakesImage, SMTT(30)
    <3>6. QED
      BY <1>10, <3>5
  <2>2. Id(f, ids[k]) \in {"VP8", "VP8L", "ALPH"}
    <3>1. CASE d.alph = Nil
      <4>1. k = i
        BY <1>3, <1>4, <3>1
      <4>2. QED
        BY <1>4, <1>5, <4>1
    <3>2. CASE d.alph # Nil
      BY <1>4, <3>2
    <3>3. QED
      BY <3>1, <3>2
  <2>3. ~a.flags.anim
    BY <1>7
  <2>4. DemuxChunk(a, f, ids, k) = parseSingleExtendedFrame(a, f, ids, k)
    BY <1>7, <2>2, <2>3 DEF DemuxChunk
  <2>5. QED
    BY <1>10, <2>1, <2>4
<1>12. DAfter(f, ids)[k] = b
  <2>1. s \in 1 .. Len(ids) /\ s + 1 <= Len(ids)
    BY <1>4
  <2>2. DAfter(f, ids)[s + 1] = DemuxChunk(a, f, ids, s + 1)
    BY <1>4, <1>7, <2>1, DemuxSteps
  <2>3. QED
    BY <1>4, <1>11, <2>2
<1>13. CASE d.alph = Nil
  <2>1. s + Planes(d) + 1 = k
    BY <1>3, <1>4, <1>13
  <2>2. QED
    BY <1>8, <1>9, <1>12, <2>1 DEF f
<1>14. CASE d.alph # Nil
  <2>1. s + Planes(d) + 1 = i /\ i = k + 1 /\ k + 1 <= Len(ids)
    BY <1>3, <1>4, <1>14
  <2>2. b.ok /\ b.frames = fs
    BY <1>9, DStateParts
  <2>3. fs # <<>>
    <3>1. Len(fs) = 1
      BY <1>8, ShortLists
    <3>2. QED
      BY <3>1, EmptyList
  <2>4. DAfter(f, ids)[k + 1] = DemuxChunk(b, f, ids, k + 1)
    BY <1>4, <1>12, <2>1, <2>2, DemuxSteps
  <2>5. DemuxChunk(b, f, ids, i) = b
    <3>1. Id(f, ids[i]) \in {"VP8", "VP8L"}
      BY <1>4, <1>5
    <3>2. QED
      BY <2>2, <2>3, <3>1 DEF DemuxChunk
  <2>6. QED
    BY <1>8, <1>9, <2>1, <2>4, <2>5 DEF f
<1>15. QED
  BY <1>13, <1>14

LEMMA HeaderRead ==
    ASSUME NEW x
    PROVE  /\ IsChunk(HeaderChunk(x)) /\ Size(HeaderChunk(x)) = ChunkHeaderSize + VP8XChunkSize
           /\ HeaderChunk(x)[1].v.id = "VP8X" /\ HeaderChunk(x)[2].v = x
<1>1. 10 \in Nat /\ 10 % 2 = 0 /\ chunkTotalSize(10) = 8 + 10
  BY DEF chunkTotalSize, ChunkHeaderSize
<1>2. QED
  BY <1>1, PlainChunk DEF HeaderChunk, VP8XChunkSize, ChunkHeaderSize

\* The chunks of an extended file.
LEMMA ExtChunked ==
    ASSUME NEW x, NEW icc \in Nat \cup {Nil}, NEW exif \in Nat \cup {Nil}, NEW xmp \in Nat \cup {Nil},
           NEW m, NEW ms, Chunked(m, ms)
    PROVE  /\ Chunked(ExtBody(x, icc, m, exif, xmp), ExtList(x, icc, ms, exif, xmp))
           /\ Size(ExtBody(x, icc, m, exif, xmp)) = ExtSize(icc, Size(m), exif, xmp)
<1>1. PICK v, vs : v = HeaderChunk(x) /\ vs = <<HeaderChunk(x)>>
  OBVIOUS
<1>2. PICK i, is : i = metadataChunk("ICCP", icc) /\ is = OptionalChunks("ICCP", icc)
  OBVIOUS
<1>3. PICK e, es : e = metadataChunk("EXIF", exif) /\ es = OptionalChunks("EXIF", exif)
  OBVIOUS
<1>4. PICK y, ys : y = metadataChunk("XMP", xmp) /\ ys = OptionalChunks("XMP", xmp)
  OBVIOUS
<1>5. Chunked(v, vs) /\ Size(v) = ChunkHeaderSize + VP8XChunkSize
  BY <1>1, HeaderRead, ChunkedOne
<1>6. Chunked(i, is) /\ Size(i) = metadataSize(icc)
  BY <1>2, OptionalChunk
<1>7. Chunked(e, es) /\ Size(e) = metadataSize(exif)
  BY <1>3, OptionalChunk
<1>8. Chunked(y, ys) /\ Size(y) = metadataSize(xmp)
  BY <1>4, OptionalChunk
<1>9. /\ Chunked(Row(v, i, m, e, y), Row(vs, is, ms, es, ys))
      /\ Size(Row(v, i, m, e, y)) = Size(v) + Size(i) + Size(m) + Size(e) + Size(y)
  BY <1>5, <1>6, <1>7, <1>8, RowChunked
<1>10. ExtBody(x, icc, m, exif, xmp) = Row(v, i, m, e, y)
  BY <1>1, <1>2, <1>3, <1>4 DEF ExtBody
<1>11. ExtList(x, icc, ms, exif, xmp) = Row(vs, is, ms, es, ys)
  BY <1>1, <1>2, <1>3, <1>4 DEF ExtList
<1>12. QED
  BY <1>5, <1>6, <1>7, <1>8, <1>9, <1>10, <1>11 DEF ExtSize

\* The positions of the parts of an extended file among its chunks.
LEMMA ExtParts ==
    ASSUME NEW x, NEW icc \in Nat \cup {Nil}, NEW exif \in Nat \cup {Nil}, NEW xmp \in Nat \cup {Nil},
           NEW ms, IsList(ms)
    PROVE  LET cs == ExtList(x, icc, ms, exif, xmp)
               i == 1 + Len(OptionalChunks("ICCP", icc))
               m == i + Len(ms)
               e == m + Len(OptionalChunks("EXIF", exif))
           IN  /\ IsList(cs) /\ Len(cs) = e + Len(OptionalChunks("XMP", xmp))
               /\ i \in Nat /\ i >= 1 /\ m \in Nat /\ m >= i /\ e \in Nat /\ e >= m /\ Len(cs) >= e
               /\ Within(<<HeaderChunk(x)>>, cs, 0)
               /\ Within(OptionalChunks("ICCP", icc), cs, 1)
               /\ Within(ms, cs, i)
               /\ Within(OptionalChunks("EXIF", exif), cs, m)
               /\ Within(OptionalChunks("XMP", xmp), cs, e)
<1>1. PICK v : v = <<HeaderChunk(x)>>
  OBVIOUS
<1>2. PICK i : i = OptionalChunks("ICCP", icc)
  OBVIOUS
<1>3. PICK e : e = OptionalChunks("EXIF", exif)
  OBVIOUS
<1>4. PICK y : y = OptionalChunks("XMP", xmp)
  OBVIOUS
<1>5. IsList(v) /\ Len(v) = 1
  BY <1>1, ShortLists
<1>6. IsList(i) /\ IsList(e) /\ IsList(y)
  BY <1>2, <1>3, <1>4, OptionalChunk DEF Chunked
<1>7. LET r == Row(v, i, ms, e, y)
      IN  /\ IsList(r) /\ Len(r) = Len(v) + Len(i) + Len(ms) + Len(e) + Len(y)
          /\ Len(v) \in Nat /\ Len(i) \in Nat /\ Len(ms) \in Nat /\ Len(e) \in Nat /\ Len(y) \in Nat
          /\ Within(v, r, 0) /\ Within(i, r, Len(v)) /\ Within(ms, r, Len(v) + Len(i))
          /\ Within(e, r, Len(v) + Len(i) + Len(ms)) /\ Within(y, r, Len(v) + Len(i) + Len(ms) + Len(e))
  BY <1>5, <1>6, RowParts
<1>8. PICK r : r = Row(v, i, ms, e, y) /\ r = ExtList(x, icc, ms, exif, xmp)
  BY <1>1, <1>2, <1>3, <1>4 DEF ExtList
<1>9. /\ Within(i, r, 1) /\ Within(ms, r, 1 + Len(i)) /\ Within(e, r, 1 + Len(i) + Len(ms))
      /\ Within(y, r, 1 + Len(i) + Len(ms) + Len(e)) /\ Within(v, r, 0)
      /\ IsList(r) /\ Len(r) = 1 + Len(i) + Len(ms) + Len(e) + Len(y)
      /\ Len(i) \in Nat /\ Len(ms) \in Nat /\ Len(e) \in Nat /\ Len(y) \in Nat
  BY <1>5, <1>7, <1>8
<1>10. QED
  BY <1>1, <1>2, <1>3, <1>4, <1>8, <1>9

\* The demuxer reaches the chunks in the middle of an extended file.
LEMMA DemuxOpened ==
    ASSUME NEW x, NEW icc \in Nat \cup {Nil}, NEW exif \in Nat \cup {Nil}, NEW xmp \in Nat \cup {Nil},
           NEW ms, IsList(ms), NEW p, NEW ids, NEW cs, cs = ExtList(x, icc, ms, exif, xmp), Reads(p, ids, cs)
    PROVE  \E i, m, e : DemuxAt(Written(p), ids, cs, x, icc, ms, exif, xmp, i, m, e)
<1> DEFINE f == Written(p)
<1>1. PICK i, m, e :
          /\ i = 1 + Len(OptionalChunks("ICCP", icc)) /\ m = i + Len(ms) /\ e = m + Len(OptionalChunks("EXIF", exif))
          /\ i \in Nat /\ i >= 1 /\ m \in Nat /\ m >= i /\ e \in Nat /\ e >= m
          /\ Len(cs) = e + Len(OptionalChunks("XMP", xmp)) /\ Len(cs) >= e
          /\ Within(<<HeaderChunk(x)>>, cs, 0)
          /\ Within(OptionalChunks("ICCP", icc), cs, 1)
          /\ Within(ms, cs, i)
          /\ Within(OptionalChunks("EXIF", exif), cs, m)
          /\ Within(OptionalChunks("XMP", xmp), cs, e)
  <2>1. LET c == ExtList(x, icc, ms, exif, xmp)
            i == 1 + Len(OptionalChunks("ICCP", icc))
            m == i + Len(ms)
            e == m + Len(OptionalChunks("EXIF", exif))
        IN  /\ IsList(c) /\ Len(c) = e + Len(OptionalChunks("XMP", xmp))
            /\ i \in Nat /\ i >= 1 /\ m \in Nat /\ m >= i /\ e \in Nat /\ e >= m /\ Len(c) >= e
            /\ Within(<<HeaderChunk(x)>>, c, 0)
            /\ Within(OptionalChunks("ICCP", icc), c, 1)
            /\ Within(ms, c, i)
            /\ Within(OptionalChunks("EXIF", exif), c, m)
            /\ Within(OptionalChunks("XMP", xmp), c, e)
    BY ExtParts
  <2>2. PICK i : i = 1 + Len(OptionalChunks("ICCP", icc))
    OBVIOUS
  <2>3. PICK m : m = i + Len(ms)
    OBVIOUS
  <2>4. PICK e : e = m + Len(OptionalChunks("EXIF", exif))
    OBVIOUS
  <2>5. WITNESS i, m, e
  <2>6. QED
    BY <2>1, <2>2, <2>3, <2>4
<1>2. Len(ids) = Len(cs) /\ Len(ids) \in Nat /\ IsList(ids)
  BY ListParts DEF Reads
<1>3. ids[1] # 0 /\ Id(f, ids[1]) = "VP8X" /\ Payload(f, ids[1]) = x
  <2>1. PICK v : v = <<HeaderChunk(x)>> /\ Len(v) = 1 /\ v[1] = HeaderChunk(x)
    BY ShortLists
  <2>2. PICK j \in 1 .. Len(v) : j = 1
    BY <2>1
  <2>3. Within(v, cs, 0) /\ Len(v) \in Nat
    BY <1>1, <2>1
  <2>4. /\ ids[0 + j] # 0
        /\ Id(Written(p), ids[0 + j]) = v[j][1].v.id
        /\ Payload(Written(p), ids[0 + j]) = v[j][2].v
    BY <2>3, ReadPart
  <2>5. 0 + j = 1 /\ v[j] = HeaderChunk(x)
    BY <2>1, <2>2
  <2>6. QED
    BY <2>4, <2>5, HeaderRead
<1> HIDE DEF f
<1>4. DAfter(f, ids)[1] = DState(x, Nil, Nil, Nil, 0, 0, <<>>)
  BY <1>1, <1>2, <1>3, DemuxSteps DEF DStart
<1>5. DAfter(f, ids)[i] = DState(x, icc, Nil, Nil, 0, 0, <<>>)
  <2>1. PICK s \in Nat : s = 1
    OBVIOUS
  <2>2. DAfter(Written(p), ids)[s] = DState(x, Nil, Nil, Nil, 0, 0, <<>>)
    BY <1>4, <2>1 DEF f
  <2>3. s >= 1 /\ Within(OptionalChunks("ICCP", icc), cs, s) /\ i = s + Len(OptionalChunks("ICCP", icc))
    BY <1>1, <2>1
  <2>4. DAfter(Written(p), ids)[i] = DState(x, icc, Nil, Nil, 0, 0, <<>>)
    BY <2>2, <2>3, DemuxMetadata
  <2>5. QED
    BY <2>4 DEF f
<1>6. ids # <<>>
  BY <1>1, <1>2, EmptyList
<1>7. DemuxAt(f, ids, cs, x, icc, ms, exif, xmp, i, m, e)
  BY <1>1, <1>2, <1>3, <1>5, <1>6 DEF DemuxAt
<1>8. QED
  BY <1>7 DEF f

\* The demuxer over an extended file, given what it makes of the chunks in the middle.
LEMMA DemuxRun ==
    ASSUME NEW x, NEW icc \in Nat \cup {Nil}, NEW exif \in Nat \cup {Nil}, NEW xmp \in Nat \cup {Nil},
           NEW ms, IsList(ms), NEW p, NEW ids, NEW cs, cs = ExtList(x, icc, ms, exif, xmp), Reads(p, ids, cs),
           NEW bg, NEW loop, NEW fs,
           Passes(Written(p), ids, cs, x, icc, ms, bg, loop, fs)
    PROVE  /\ DAfter(Written(p), ids)[Len(ids)] = DState(x, icc, exif, xmp, bg, loop, fs)
           /\ ids # <<>> /\ ids[1] # 0 /\ Id(Written(p), ids[1]) = "VP8X"
<1> DEFINE f == Written(p)
<1>1. PICK i, m, e : DemuxAt(Written(p), ids, cs, x, icc, ms, exif, xmp, i, m, e)
  BY DemuxOpened
<1>2. /\ i \in Nat /\ i >= 1 /\ m = i + Len(ms) /\ m \in Nat /\ m >= i
      /\ e = m + Len(OptionalChunks("EXIF", exif)) /\ e \in Nat /\ e >= m
      /\ Len(ids) = e + Len(OptionalChunks("XMP", xmp)) /\ Len(ids) \in Nat
      /\ Within(ms, cs, i)
      /\ Within(OptionalChunks("EXIF", exif), cs, m)
      /\ Within(OptionalChunks("XMP", xmp), cs, e)
      /\ ids # <<>> /\ ids[1] # 0 /\ Id(f, ids[1]) = "VP8X"
      /\ DAfter(f, ids)[i] = DState(x, icc, Nil, Nil, 0, 0, <<>>)
  BY <1>1 DEF DemuxAt
<1> HIDE DEF f
<1>6. DAfter(f, ids)[m] = DState(x, icc, Nil, Nil, bg, loop, fs)
  BY <1>2 DEF Passes, f
<1>7. DAfter(f, ids)[e] = DState(x, icc, exif, Nil, bg, loop, fs)
  <2>1. DAfter(Written(p), ids)[m] = DState(x, icc, Nil, Nil, bg, loop, fs)
    BY <1>6 DEF f
  <2>2. m \in Nat /\ m >= 1 /\ Within(OptionalChunks("EXIF", exif), cs, m) /\ e = m + Len(OptionalChunks("EXIF", exif))
    BY <1>2
  <2>3. DAfter(Written(p), ids)[e] = DState(x, icc, exif, Nil, bg, loop, fs)
    BY <2>1, <2>2, DemuxMetadata
  <2>4. QED
    BY <2>3 DEF f
<1>8. DAfter(f, ids)[Len(ids)] = DState(x, icc, exif, xmp, bg, loop, fs)
  <2>1. DAfter(Written(p), ids)[e] = DState(x, icc, exif, Nil, bg, loop, fs)
    BY <1>7 DEF f
  <2>2. e \in Nat /\ e >= 1 /\ Within(OptionalChunks("XMP", xmp), cs, e)
        /\ Len(ids) = e + Len(OptionalChunks("XMP", xmp))
    BY <1>2
  <2>3. DAfter(Written(p), ids)[Len(ids)] = DState(x, icc, exif, xmp, bg, loop, fs)
    BY <2>1, <2>2, DemuxMetadata
  <2>4. QED
    BY <2>3 DEF f
<1>9. QED
  BY <1>2, <1>8 DEF f

\* So what the demuxer makes of the chunks of a whole file.
LEMMA DemuxExt ==
    ASSUME NEW x, NEW icc \in Nat \cup {Nil}, NEW exif \in Nat \cup {Nil}, NEW xmp \in Nat \cup {Nil},
           NEW ms, IsList(ms), NEW p, NEW ids, NEW cs, cs = ExtList(x, icc, ms, exif, xmp), Reads(p, ids, cs),
           NEW bg, NEW loop, NEW fs, fs # <<>>,
           Passes(Written(p), ids, cs, x, icc, ms, bg, loop, fs)
    PROVE  /\ DemuxExtended(Written(p), ids) = DState(x, icc, exif, xmp, bg, loop, fs)
           /\ ids # <<>> /\ ids[1] # 0 /\ Id(Written(p), ids[1]) = "VP8X"
<1>1. PICK all : all = DState(x, icc, exif, xmp, bg, loop, fs)
  OBVIOUS
<1>2. all.ok /\ all.frames = fs
  BY <1>1, DStateParts
<1>3. DAfter(Written(p), ids)[Len(ids)] = all /\ ids # <<>> /\ ids[1] # 0 /\ Id(Written(p), ids[1]) = "VP8X"
  BY <1>1, DemuxRun
<1>4. DemuxExtended(Written(p), ids) = all
  BY <1>2, <1>3, DemuxLast
<1>5. QED
  BY <1>1, <1>3, <1>4

\* The chunks in the middle of an animation.
LEMMA AnimChunked ==
    ASSUME NEW bg, NEW loop, NEW fr, NEW n \in Nat, \A j \in 1 .. n : ImageOk(fr[j].data)
    PROVE  /\ Chunked(AnimPieces(bg, loop, fr, n), AnimList(bg, loop, fr, n))
           /\ Size(AnimPieces(bg, loop, fr, n)) =
                  ChunkHeaderSize + ANIMChunkSize + Size(FlattenSeq(FrameChunks(fr, n)))
           /\ IsList(FrameChunks(fr, n)) /\ Len(FrameChunks(fr, n)) = n
           /\ Pieces(FlattenSeq(FrameChunks(fr, n)))
<1>1. PICK a : a = AnimChunk(bg, loop) /\ IsChunk(a) /\ Size(a) = ChunkHeaderSize + ANIMChunkSize
  BY AnimRead
<1>2. PICK cs : cs = FrameChunks(fr, n)
  OBVIOUS
<1>3. cs = [i \in 1 .. n |-> cs[i]]
  BY <1>2 DEF FrameChunks
<1>4. \A i \in 1 .. n : IsChunk(cs[i])
  <2> TAKE i \in 1 .. n
  <2>1. cs[i] = writeANMFChunk(fr[i])
    BY <1>2 DEF FrameChunks
  <2>2. IsChunk(writeANMFChunk(fr[i]))
    BY FrameChunkRead
  <2>3. QED
    BY <2>1, <2>2
<1>5. Chunked(FlattenSeq(cs), cs)
  BY <1>3, <1>4, ChunkedFlat
<1>6. Chunked(a, <<a>>)
  BY <1>1, ChunkedOne
<1>7. Chunked(a \o FlattenSeq(cs), <<a>> \o cs)
  BY <1>5, <1>6, ChunkedJoined
<1>8. Pieces(a) /\ Pieces(FlattenSeq(cs))
  BY <1>5, <1>6 DEF Chunked
<1>9. Size(a \o FlattenSeq(cs)) = Size(a) + Size(FlattenSeq(cs))
  BY <1>8, SizeJoined
<1>10. IsList(cs) /\ Len(cs) = n
  BY <1>3, FunctionList
<1>11. AnimPieces(bg, loop, fr, n) = a \o FlattenSeq(cs) /\ AnimList(bg, loop, fr, n) = <<a>> \o cs
  BY <1>1, <1>2 DEF AnimPieces, AnimList
<1>12. QED
  BY <1>1, <1>2, <1>7, <1>8, <1>9, <1>10, <1>11

\* What the demuxer makes of them,
LEMMA PassesAnim ==
    ASSUME NEW p, NEW ids, NEW cs, Reads(p, ids, cs), NEW x, NEW icc, NEW bg, NEW loop,
           NEW fr, NEW n \in Nat, n <= MaxFrames, \A j \in 1 .. n : FrameOk(fr[j]), 
           NEW ms, ms = AnimList(bg, loop, fr, n)
    PROVE  Passes(Written(p), ids, cs, x, icc, ms, bg, loop, FramesGiven(fr, n))
<1> DEFINE f == Written(p)
<1> SUFFICES ASSUME NEW s \in Nat, s >= 1, Within(ms, cs, s),
                    DAfter(f, ids)[s] = DState(x, icc, Nil, Nil, 0, 0, <<>>)
             PROVE  DAfter(f, ids)[s + Len(ms)] = DState(x, icc, Nil, Nil, bg, loop, FramesGiven(fr, n))
  BY DEF Passes
<1>1. PICK a : a = <<AnimChunk(bg, loop)>> /\ IsList(a) /\ Len(a) = 1
  BY ShortLists
<1>2. PICK b : b = FrameChunks(fr, n) /\ IsList(b) /\ Len(b) = n
  <2>1. \A j \in 1 .. n : ImageOk(fr[j].data)
    BY DEF FrameOk
  <2>2. QED
    BY <2>1, AnimChunked
<1>3. ms = a \o b
  BY <1>1, <1>2 DEF AnimList
<1>4. /\ Len(ms) = 1 + n /\ IsList(ms) /\ Within(a, ms, 0) /\ Within(b, ms, 1)
  BY <1>1, <1>2, <1>3, PartJoined
<1>5. Len(cs) \in Nat
  BY ListParts DEF Reads
<1>6. Within(a, cs, s + 0) /\ Within(b, cs, s + 1)
  <2>1. Len(a) \in Nat /\ Len(b) \in Nat /\ Len(ms) \in Nat
    BY <1>1, <1>2, <1>4
  <2>2. QED
    BY <1>4, <1>5, <2>1, WithinTwice
<1>7. DAfter(Written(p), ids)[s + 1] = DState(x, icc, Nil, Nil, bg, loop, <<>>)
  <2>1. s + 0 = s /\ Within(<<AnimChunk(bg, loop)>>, cs, s)
    BY <1>1, <1>6
  <2>2. QED
    BY <2>1, DemuxAnim
<1>8. PICK t \in Nat : t = s + 1 /\ t >= 1
  OBVIOUS
<1>9. DAfter(Written(p), ids)[t + n] = DState(x, icc, Nil, Nil, bg, loop, FramesGiven(fr, n))
  <2>1. DAfter(Written(p), ids)[t] = DState(x, icc, Nil, Nil, bg, loop, <<>>)
    BY <1>7, <1>8
  <2>2. Within(FrameChunks(fr, n), cs, t)
    BY <1>2, <1>6, <1>8
  <2>3. QED
    BY <1>8, <2>1, <2>2, DemuxFrames
<1>10. t + n = s + Len(ms)
  BY <1>4, <1>8
<1>11. QED
  BY <1>9, <1>10

\* and of the chunks of a still image.
LEMMA PassesImage ==
    ASSUME NEW p, NEW ids, NEW cs, Reads(p, ids, cs), NEW x, ~x.flags.anim, NEW icc,
           NEW d, ImageOk(d), NEW ms, ms = SubList(d),
           NEW fs, fs = <<StillOf(d, x.w + 1, x.h + 1)>>
    PROVE  Passes(Written(p), ids, cs, x, icc, ms, 0, 0, fs)
<1> DEFINE f == Written(p)
<1> SUFFICES ASSUME NEW s \in Nat, s >= 1, Within(ms, cs, s),
                    DAfter(f, ids)[s] = DState(x, icc, Nil, Nil, 0, 0, <<>>)
             PROVE  DAfter(f, ids)[s + Len(ms)] = DState(x, icc, Nil, Nil, 0, 0, fs)
  BY DEF Passes
<1>1. Len(ms) = Planes(d) + 1 /\ Planes(d) \in 0 .. 1
  BY ImageChunks
<1>2. DAfter(Written(p), ids)[s + Planes(d) + 1] = DState(x, icc, Nil, Nil, 0, 0, <<StillOf(d, x.w + 1, x.h + 1)>>)
  BY DemuxImage
<1>3. s + Planes(d) + 1 = s + Len(ms)
  BY <1>1
<1>4. QED
  BY <1>2, <1>3

\* What the demuxer reads in a whole extended file.
LEMMA DemuxExtFile ==
    ASSUME NEW x, NEW icc \in Nat \cup {Nil}, NEW exif \in Nat \cup {Nil}, NEW xmp \in Nat \cup {Nil},
           NEW m, NEW ms, Chunked(m, ms),
           NEW f, f = Written(ExtFile(x, icc, m, exif, xmp)), NEW bytes, bytes = Bytes(f),
           NEW bg, NEW loop, NEW fs, fs # <<>>, PassesIn(x, icc, ms, exif, xmp, bg, loop, fs)
    PROVE  Demux(f, bytes) = DState(x, icc, exif, xmp, bg, loop, fs)
<1>1. PICK body, cs : body = ExtBody(x, icc, m, exif, xmp) /\ cs = ExtList(x, icc, ms, exif, xmp)
  OBVIOUS
<1>2. Chunked(body, cs)
  BY <1>1, ExtChunked
<1>3. PICK p, size : size = 4 + Size(body) /\ p = FilePieces(size, body)
  OBVIOUS
<1>4. PICK ids : ids = Walk(f, RIFFHeaderSize, PayloadEnd(f, bytes), FALSE)
  OBVIOUS
<1>5. Reads(p, ids, cs) /\ bytes >= RIFFHeaderSize /\ bytes \in Nat
  <2>1. size = 4 + Size(body) /\ f = Written(FilePieces(size, body))
    BY <1>1, <1>3 DEF ExtFile
  <2>2. /\ Reads(FilePieces(size, body), Walk(f, RIFFHeaderSize, PayloadEnd(f, bytes), FALSE), cs)
        /\ bytes >= RIFFHeaderSize /\ bytes \in Nat
    BY <1>2, <1>3, <2>1, FileRead
  <2>3. QED
    BY <1>3, <1>4, <2>2
<1>6. Passes(Written(p), ids, cs, x, icc, ms, bg, loop, fs)
  BY <1>1, <1>5 DEF PassesIn
<1>7. /\ DemuxExtended(Written(p), ids) = DState(x, icc, exif, xmp, bg, loop, fs)
      /\ ids # <<>> /\ ids[1] # 0 /\ Id(Written(p), ids[1]) = "VP8X"
  <2>1. IsList(ms)
    BY DEF Chunked
  <2>2. QED
    BY <1>1, <1>5, <1>6, <2>1, DemuxExt
<1>8. Written(p) = f
  BY <1>1, <1>3 DEF ExtFile
<1>9. ~(bytes < RIFFHeaderSize)
  BY <1>5 DEF RIFFHeaderSize
<1>10. QED
  BY <1>4, <1>7, <1>8, <1>9 DEF Demux

\* The walk over a simple file finds its one chunk.
LEMMA SimpleRead ==
    ASSUME NEW d, ImageOk(d), NEW f, f = Written(SimpleFile(d)), NEW bytes, bytes = Bytes(f), NEW needPad,
           NEW ids, ids = Walk(f, RIFFHeaderSize, PayloadEnd(f, bytes), needPad)
    PROVE  /\ ids # <<>> /\ ids[1] # 0 /\ Id(f, ids[1]) = d.codec /\ Payload(f, ids[1]) = Raw(d)
           /\ ~(bytes < RIFFHeaderSize)
<1>1. PICK c : c = writeDataChunk(d.codec, d.n, Raw(d)) /\ IsChunk(c) /\ Size(c) = chunkTotalSize(d.n)
               /\ c[1].v.id = d.codec /\ c[2].v = Raw(d)
  BY ImageParts, DataChunk
<1>2. PICK cs : cs = <<c>> /\ Len(cs) = 1 /\ cs[1] = c /\ IsList(cs)
  BY ShortLists
<1>3. Chunked(c, cs)
  BY <1>1, <1>2, ChunkedOne
<1>4. PICK p, size : size = 4 + Size(c) /\ p = FilePieces(size, c)
  OBVIOUS
<1>5. f = Written(p)
  BY <1>1, <1>4 DEF SimpleFile
<1>7. Reads(p, ids, cs) /\ bytes >= RIFFHeaderSize /\ bytes \in Nat
  <2>1. f = Written(FilePieces(size, c))
    BY <1>4, <1>5
  <2>2. /\ Reads(FilePieces(size, c), Walk(f, RIFFHeaderSize, PayloadEnd(f, bytes), needPad), cs)
        /\ bytes >= RIFFHeaderSize /\ bytes \in Nat
    BY <1>3, <1>4, <2>1, FileRead
  <2>3. QED
    BY <1>4, <2>2
<1>8. PICK k \in 1 .. Len(cs) : k = 1
  BY <1>2
<1>9. /\ Len(ids) = Len(cs) /\ ids[k] # 0 /\ Id(Written(p), ids[k]) = cs[k][1].v.id
      /\ Payload(Written(p), ids[k]) = cs[k][2].v
  BY <1>7 DEF Reads
<1>10. ids # <<>>
  BY <1>2, <1>9, EmptyList
<1>11. ids[1] # 0 /\ Id(f, ids[1]) = d.codec /\ Payload(f, ids[1]) = Raw(d)
  BY <1>1, <1>2, <1>5, <1>8, <1>9
<1>12. ~(bytes < RIFFHeaderSize)
  BY <1>7 DEF RIFFHeaderSize
<1>13. QED
  BY <1>10, <1>11, <1>12

LEMMA PlainImage ==
    ASSUME NEW d, ImageOk(d), d.alph = Nil
    PROVE  /\ StillFrame(d.w, d.h, Raw(d), Nil, IsVP8L(d) /\ d.alpha) = StillGiven(d)
           /\ (IsVP8L(Raw(d)) /\ Raw(d).alpha) = (IsVP8L(d) /\ d.alpha)
           /\ HasHeader(Raw(d))
<1>1. (d.alph # Nil \/ (IsVP8L(d) /\ d.alpha)) = (IsVP8L(d) /\ d.alpha)
  OBVIOUS
<1>2. StillFrame(d.w, d.h, Raw(d), Nil, IsVP8L(d) /\ d.alpha) = StillGiven(d)
  BY <1>1 DEF StillGiven
<1>3. (IsVP8L(Raw(d)) /\ Raw(d).alpha) = (IsVP8L(d) /\ d.alpha)
  BY ImageParts DEF IsVP8L
<1>4. HasHeader(Raw(d))
  BY ImageParts DEF HasHeader
<1>5. QED
  BY <1>2, <1>3, <1>4

\* What the demuxer makes of the one chunk of a simple file,
LEMMA DemuxOneImage ==
    ASSUME NEW d, ImageOk(d), d.alph = Nil, NEW f, NEW i, Id(f, i) = d.codec, Payload(f, i) = Raw(d)
    PROVE  DemuxSimple(f, i) = SimpleState(d) /\ Id(f, i) # "VP8X"
<1>1. Id(f, i) # "VP8X"
  BY ImageParts
<1>2. PICK r, has : r = Raw(d) /\ has = (IsVP8L(d) /\ d.alpha)
  OBVIOUS
<1>3. HasHeader(r) /\ frameDataHasAlpha(r) = has /\ r.w = d.w /\ r.h = d.h
  BY <1>2, PlainImage, ImageParts DEF frameDataHasAlpha
<1>4. DemuxSimple(f, i) =
          [ok |-> TRUE, flags |-> SimpleFlags(has), w |-> r.w, h |-> r.h,
           icc |-> Nil, exif |-> Nil, xmp |-> Nil, bgColor |-> 0, loopCount |-> 0,
           frames |-> <<StillFrame(r.w, r.h, r, Nil, has)>>]
  BY <1>2, <1>3 DEF DemuxSimple
<1>5. StillFrame(r.w, r.h, r, Nil, has) = StillGiven(d)
  BY <1>2, <1>3, PlainImage
<1>6. QED
  BY <1>1, <1>2, <1>3, <1>4, <1>5 DEF SimpleState

\* so of a whole one.
LEMMA DemuxSimpleFile ==
    ASSUME NEW d, ImageOk(d), d.alph = Nil, NEW f, f = Written(SimpleFile(d)), NEW bytes, bytes = Bytes(f)
    PROVE  Demux(f, bytes) = SimpleState(d)
<1>1. PICK ids : ids = Walk(f, RIFFHeaderSize, PayloadEnd(f, bytes), FALSE)
  OBVIOUS
<1>2. /\ ids # <<>> /\ ids[1] # 0 /\ Id(f, ids[1]) = d.codec /\ Payload(f, ids[1]) = Raw(d)
      /\ ~(bytes < RIFFHeaderSize)
  <2>1. PICK pad : pad = FALSE
    OBVIOUS
  <2>2. ids = Walk(f, RIFFHeaderSize, PayloadEnd(f, bytes), pad)
    BY <1>1, <2>1
  <2>3. QED
    BY <2>2, SimpleRead
<1>3. DemuxSimple(f, ids[1]) = SimpleState(d) /\ Id(f, ids[1]) # "VP8X"
  BY <1>2, DemuxOneImage
<1>4. Demux(f, bytes) = DemuxSimple(f, ids[1])
  BY <1>1, <1>2, <1>3 DEF Demux
<1>5. QED
  BY <1>3, <1>4

(***************************************************************************)
(* The sizes the writers compute                                            *)
(***************************************************************************)

\* The sizes of the chunks add up.
LEMMA SizeChunked ==
    ASSUME NEW q, NEW cs, Chunked(q, cs), NEW g, g[0] = 0,
           \A k \in 1 .. Len(cs) : g[k] = g[k - 1] + Size(cs[k])
    PROVE  Size(q) = g[Len(cs)]
<1>1. PICK st : Starts(q, cs, st)
  BY DEF Chunked
<1>2. Pieces(q) /\ Len(q) \in Nat /\ Len(cs) \in Nat
  BY AtType, ListParts DEF Chunked
<1>3. /\ st[1] = 0 /\ st[Len(cs) + 1] = Len(q)
      /\ \A k \in 1 .. Len(cs) :
             /\ IsChunk(cs[k]) /\ Within(cs[k], q, st[k])
             /\ st[k + 1] = st[k] + Len(cs[k])
  BY <1>1 DEF Starts
<1>4. ASSUME NEW k \in 1 .. Len(cs)
      PROVE  At(q, st[k + 1] + 1) = At(q, st[k] + 1) + Size(cs[k])
  <2>1. PICK c, s : c = cs[k] /\ s = st[k]
    OBVIOUS
  <2>2. Pieces(c) /\ Within(c, q, s) /\ Len(c) \in Nat /\ s \in Nat
    BY <1>3, <2>1, AtType DEF IsChunk, Within
  <2>3. \A j \in 1 .. Len(c) + 1 : At(q, s + j) = At(q, s + 1) + At(c, j)
    BY <1>2, <2>2, Run
  <2>4. At(q, s + (Len(c) + 1)) = At(q, s + 1) + At(c, Len(c) + 1)
    BY <2>2, <2>3
  <2>5. s + (Len(c) + 1) = st[k + 1] + 1
    BY <1>3, <2>1, <2>2
  <2>6. QED
    BY <2>1, <2>4, <2>5 DEF Size
<1> DEFINE T == {m \in Nat : m <= Len(cs) => At(q, st[m + 1] + 1) = g[m]}
<1>5. 0 \in T
  <2>1. At(q, 1) = 0
    BY <1>2, AtRules
  <2>2. QED
    BY <1>3, <2>1
<1>6. ASSUME NEW m \in T PROVE m + 1 \in T
  <2> SUFFICES ASSUME m + 1 <= Len(cs) PROVE At(q, st[(m + 1) + 1] + 1) = g[m + 1]
    OBVIOUS
  <2>1. PICK k \in 1 .. Len(cs) : k = m + 1 /\ k - 1 = m
    BY <1>2
  <2>2. At(q, st[k] + 1) = g[m]
    BY <1>2, <2>1
  <2>3. g[k] = g[k - 1] + Size(cs[k])
    BY <2>1
  <2>4. QED
    BY <1>4, <2>1, <2>2, <2>3
<1>7. Len(cs) \in T
  <2>1. T \in SUBSET Nat
    OBVIOUS
  <2> HIDE DEF T
  <2>2. QED
    BY <1>2, <1>5, <1>6, <2>1, CountUp
<1>8. At(q, Len(q) + 1) = g[Len(cs)]
  BY <1>2, <1>3, <1>7
<1>9. QED
  BY <1>8 DEF Size

\* The recursion of framesSize has a solution.
LEMMA SomeSizes ==
    ASSUME NEW fr, NEW n \in Nat
    PROVE  \E g : g = [k \in 0 .. n |-> SizeStep(fr, g, k)]
<1> DEFINE P(m) == \E g : g = [k \in 0 .. m |-> SizeStep(fr, g, k)]
           T == {m \in Nat : P(m)}
<1>1. 0 \in T
  <2> DEFINE g == [k \in 0 .. 0 |-> 0]
  <2>1. g = [k \in 0 .. 0 |-> SizeStep(fr, g, k)]
    BY DEF SizeStep
  <2>2. QED
    BY <2>1
<1>2. ASSUME NEW m \in T PROVE m + 1 \in T
  <2>1. PICK a : a = [k \in 0 .. m |-> SizeStep(fr, a, k)]
    OBVIOUS
  <2> DEFINE b == [k \in 0 .. m + 1 |-> IF k <= m THEN a[k] ELSE SizeStep(fr, a, k)]
  <2>2. ASSUME NEW k \in 0 .. m + 1 PROVE b[k] = SizeStep(fr, b, k)
    <3>1. k # 0 => k - 1 \in 0 .. m + 1 /\ b[k - 1] = a[k - 1]
      OBVIOUS
    <3> HIDE DEF b
    <3>2. SizeStep(fr, b, k) = SizeStep(fr, a, k)
      BY <3>1 DEF SizeStep
    <3>3. b[k] = IF k <= m THEN a[k] ELSE SizeStep(fr, a, k)
      BY DEF b
    <3>4. k <= m => a[k] = SizeStep(fr, a, k)
      <4>1. k <= m => k \in 0 .. m
        OBVIOUS
      <4>2. QED
        BY <2>1, <4>1
    <3>5. QED
      BY <3>2, <3>3, <3>4
  <2>3. b = [k \in 0 .. m + 1 |-> SizeStep(fr, b, k)]
    BY <2>2
  <2>4. P(m + 1)
    BY <2>3
  <2>5. QED
    BY <2>4
<1> HIDE DEF P
<1>3. n \in T
  <2>1. T \in SUBSET Nat
    OBVIOUS
  <2> HIDE DEF T
  <2>2. QED
    BY <1>1, <1>2, <2>1, CountUp
<1>4. QED
  BY <1>3 DEF P

\* What the muxer sums is what the frames take.
LEMMA FramesSize ==
    ASSUME Len(frames) \in Nat, \A j \in 1 .. Len(frames) : ImageOk(frames[j].data)
    PROVE  /\ Size(FlattenSeq(FrameChunks(frames, Len(frames)))) = framesSize[Len(frames)]
           /\ framesSize[Len(frames)] \in Nat
<1>0. PICK n \in Nat : n = Len(frames)
  OBVIOUS
<1>1. PICK cs : n = Len(frames) /\ cs = FrameChunks(frames, n)
  BY <1>0
<1>2. framesSize = CHOOSE g : g = [k \in 0 .. Len(frames) |-> SizeStep(frames, g, k)]
  BY DEF framesSize, SizeStep
<1>3. framesSize = [k \in 0 .. n |-> SizeStep(frames, framesSize, k)]
  BY <1>1, <1>2, SomeSizes
<1>4. PICK g : g = framesSize
  OBVIOUS
<1>5. g[0] = 0 /\ \A k \in 1 .. n : g[k] = g[k - 1] + ANMFSize(frames[k])
  <2>1. g = [k \in 0 .. n |-> SizeStep(frames, g, k)]
    BY <1>3, <1>4
  <2>2. g[0] = 0
    BY <2>1 DEF SizeStep
  <2>3. ASSUME NEW k \in 1 .. n PROVE g[k] = g[k - 1] + ANMFSize(frames[k])
    <3>1. k \in 0 .. n /\ k # 0
      OBVIOUS
    <3>2. g[k] = SizeStep(frames, g, k)
      BY <2>1, <3>1
    <3>3. QED
      BY <3>1, <3>2 DEF SizeStep
  <2>4. QED
    BY <2>2, <2>3
<1>6. IsList(cs) /\ Len(cs) = n /\ cs = [i \in 1 .. n |-> cs[i]]
  <2>1. cs = [i \in 1 .. n |-> cs[i]]
    BY <1>1 DEF FrameChunks
  <2>2. QED
    BY <2>1, FunctionList
<1>7. \A k \in 1 .. n : IsChunk(cs[k]) /\ Size(cs[k]) = ANMFSize(frames[k])
  <2> TAKE k \in 1 .. n
  <2>1. cs[k] = writeANMFChunk(frames[k]) /\ ImageOk(frames[k].data)
    BY <1>1 DEF FrameChunks
  <2>2. QED
    BY <2>1, FrameChunkRead
<1>8. Chunked(FlattenSeq(cs), cs)
  BY <1>6, <1>7, ChunkedFlat
<1>9. Size(FlattenSeq(cs)) = g[Len(cs)]
  <2>1. \A k \in 1 .. Len(cs) : g[k] = g[k - 1] + Size(cs[k])
    BY <1>5, <1>6, <1>7
  <2>2. QED
    BY <1>5, <1>8, <2>1, SizeChunked
<1>10. Size(FlattenSeq(cs)) \in Nat
  BY <1>8, AtType DEF Chunked
<1>11. QED
  BY <1>1, <1>4, <1>6, <1>9, <1>10

(***************************************************************************)
(* What the demuxer says of each shape of file                              *)
(***************************************************************************)

\* The header of an extended file.
LEMMA ExtendedParts ==
    ASSUME NEW flags, NEW cw \in 1 .. MaxCanvasSize, NEW ch \in 1 .. MaxCanvasSize
    PROVE  LET x == Extended(flags, cw, ch)
           IN  x.flags = flags /\ x.w + 1 = cw /\ x.h + 1 = ch
<1>1. LE24(cw - 1) + 1 = cw /\ LE24(ch - 1) + 1 = ch
  BY LessOne
<1>2. QED
  BY <1>1 DEF Extended

\* The demuxer on a still image of an extended file,
LEMMA StillRead ==
    ASSUME NEW d, ImageOk(d),
           NEW icc \in Nat \cup {Nil}, NEW exif \in Nat \cup {Nil}, NEW xmp \in Nat \cup {Nil},
           NEW flags, ~flags.anim, NEW cw \in 1 .. MaxCanvasSize, NEW ch \in 1 .. MaxCanvasSize,
           NEW x, x = Extended(flags, cw, ch),
           NEW f, f = Written(ExtFile(x, icc, SubPieces(d), exif, xmp)),
           NEW bytes, bytes = Bytes(f)
    PROVE  Demux(f, bytes) = DState(x, icc, exif, xmp, 0, 0, <<StillOf(d, cw, ch)>>)
<1>1. x.flags = flags /\ x.w + 1 = cw /\ x.h + 1 = ch
  BY ExtendedParts
<1>2. PICK m, ms : m = SubPieces(d) /\ ms = SubList(d) /\ Chunked(m, ms)
  BY ImageChunks
<1>3. PICK fs : fs = <<StillOf(d, cw, ch)>> /\ fs # <<>>
  <2>1. Len(<<StillOf(d, cw, ch)>>) = 1
    BY ShortLists
  <2>2. <<StillOf(d, cw, ch)>> # <<>>
    BY <2>1, EmptyList
  <2>3. QED
    BY <2>2
<1>4. PICK cs : cs = ExtList(x, icc, ms, exif, xmp)
  OBVIOUS
<1>5. ASSUME NEW p, NEW ids, Reads(p, ids, cs)
      PROVE  Passes(Written(p), ids, cs, x, icc, ms, 0, 0, fs)
  <2>1. fs = <<StillOf(d, x.w + 1, x.h + 1)>> /\ ~x.flags.anim
    BY <1>1, <1>3
  <2>2. QED
    BY <1>2, <1>5, <2>1, PassesImage
<1>6. PassesIn(x, icc, ms, exif, xmp, 0, 0, fs)
  BY <1>4, <1>5 DEF PassesIn
<1>7. f = Written(ExtFile(x, icc, m, exif, xmp))
  BY <1>2
<1>8. Demux(f, bytes) = DState(x, icc, exif, xmp, 0, 0, fs)
  BY <1>2, <1>3, <1>6, <1>7, DemuxExtFile
<1>9. QED
  BY <1>3, <1>8

\* and on an animation.
LEMMA AnimationRead ==
    ASSUME NEW fr, NEW n \in Nat, n >= 1, n <= MaxFrames, \A j \in 1 .. n : FrameOk(fr[j]),
           NEW icc \in Nat \cup {Nil}, NEW exif \in Nat \cup {Nil}, NEW xmp \in Nat \cup {Nil},
           NEW x, NEW bg, NEW loop,
           NEW f, f = Written(ExtFile(x, icc, AnimPieces(bg, loop, fr, n), exif, xmp)),
           NEW bytes, bytes = Bytes(f)
    PROVE  Demux(f, bytes) = DState(x, icc, exif, xmp, bg, loop, FramesGiven(fr, n))
<1>1. \A j \in 1 .. n : ImageOk(fr[j].data)
  BY DEF FrameOk
<1>2. PICK m, ms : m = AnimPieces(bg, loop, fr, n) /\ ms = AnimList(bg, loop, fr, n) /\ Chunked(m, ms)
  BY <1>1, AnimChunked
<1>3. PICK fs : fs = FramesGiven(fr, n) /\ fs # <<>>
  <2>1. PICK fs : fs = FramesGiven(fr, n) /\ Len(fs) = n
    BY OneMore
  <2>2. QED
    BY <2>1, EmptyList
<1>4. PICK cs : cs = ExtList(x, icc, ms, exif, xmp)
  OBVIOUS
<1>5. ASSUME NEW p, NEW ids, Reads(p, ids, cs)
      PROVE  Passes(Written(p), ids, cs, x, icc, ms, bg, loop, fs)
  BY <1>2, <1>3, <1>5, PassesAnim
<1>6. PassesIn(x, icc, ms, exif, xmp, bg, loop, fs)
  BY <1>4, <1>5 DEF PassesIn
<1>7. f = Written(ExtFile(x, icc, m, exif, xmp))
  BY <1>2
<1>8. Demux(f, bytes) = DState(x, icc, exif, xmp, bg, loop, fs)
  BY <1>2, <1>3, <1>6, <1>7, DemuxExtFile
<1>9. QED
  BY <1>3, <1>8

(***************************************************************************)
(* The shapes of what the Muxer and the encoder write                       *)
(***************************************************************************)

\* The canvas a Muxer that validates writes has a size the header can hold.
LEMMA CanvasOk ==
    ASSUME MuxerOk
    PROVE  /\ canvasSize[1] \in 1 .. MaxCanvasSize /\ canvasSize[2] \in 1 .. MaxCanvasSize
           /\ Pair(canvasSize)
<1> DEFINE wide == {1} \union {frames[i].x + frames[i].data.w : i \in DOMAIN frames}
           high == {1} \union {frames[i].y + frames[i].data.h : i \in DOMAIN frames}
<1>1. canvasSize = IF canvas[1] > 0 /\ canvas[2] > 0 THEN canvas ELSE <<Max(wide), Max(high)>>
  BY DEF canvasSize
<1>2. MaxCanvasSize \in Nat /\ MaxCanvasSize > 0
  BY MaxNat
<1>3. \A i \in DOMAIN frames : frames[i].x + frames[i].data.w \in 0 .. MaxCanvasSize
  <2> TAKE i \in DOMAIN frames
  <2>1. FrameOk(frames[i])
    BY ListParts DEF MuxerOk
  <2>2. QED
    BY <1>2, <2>1, ImageParts DEF FrameOk
<1>4. \A i \in DOMAIN frames : frames[i].y + frames[i].data.h \in 0 .. MaxCanvasSize
  <2> TAKE i \in DOMAIN frames
  <2>1. FrameOk(frames[i])
    BY ListParts DEF MuxerOk
  <2>2. QED
    BY <1>2, <2>1, ImageParts DEF FrameOk
<1>5. wide \in SUBSET (0 .. MaxCanvasSize) /\ wide # {} /\ 1 \in wide
  BY <1>2, <1>3
<1>6. high \in SUBSET (0 .. MaxCanvasSize) /\ high # {} /\ 1 \in high
  BY <1>2, <1>4
<1> HIDE DEF wide, high
<1>7a. PICK top \in Nat : top = MaxCanvasSize
  BY <1>2
<1>7. Max(wide) \in 1 .. MaxCanvasSize
  <2>1. wide \in SUBSET (0 .. top) /\ wide # {} /\ 1 \in wide
    BY <1>5, <1>7a
  <2>2. Max(wide) \in wide /\ \A y \in wide : Max(wide) >= y
    BY <2>1, NatMax
  <2>3. PICK q : q = Max(wide)
    OBVIOUS
  <2>4. q \in 0 .. top /\ q >= 1
    BY <2>1, <2>2, <2>3
  <2>5. q \in 1 .. top
    BY <2>4
  <2>6. QED
    BY <1>7a, <2>3, <2>5
<1>8. Max(high) \in 1 .. MaxCanvasSize
  <2>1. high \in SUBSET (0 .. top) /\ high # {} /\ 1 \in high
    BY <1>6, <1>7a
  <2>2. Max(high) \in high /\ \A y \in high : Max(high) >= y
    BY <2>1, NatMax
  <2>3. PICK q : q = Max(high)
    OBVIOUS
  <2>4. q \in 0 .. top /\ q >= 1
    BY <2>1, <2>2, <2>3
  <2>5. q \in 1 .. top
    BY <2>4
  <2>6. QED
    BY <1>7a, <2>3, <2>5
<1>9. canvas[1] > 0 /\ canvas[2] > 0 => canvas[1] \in 1 .. MaxCanvasSize /\ canvas[2] \in 1 .. MaxCanvasSize
  <2>1. \A i \in 1 .. 2 : canvas[i] \in Int /\ canvas[i] <= MaxCanvasSize
    BY DEF MuxerOk
  <2>2. canvas[1] \in Int /\ canvas[1] <= MaxCanvasSize /\ canvas[2] \in Int /\ canvas[2] <= MaxCanvasSize
    BY <2>1
  <2>3. QED
    BY <1>2, <2>2
<1>10. Pair(canvas)
  BY DEF MuxerOk
<1>11. CASE canvas[1] > 0 /\ canvas[2] > 0
  BY <1>1, <1>9, <1>10, <1>11
<1>12. CASE ~(canvas[1] > 0 /\ canvas[2] > 0)
  <2>1. PICK a, b : a = Max(wide) /\ b = Max(high)
    OBVIOUS
  <2>2. canvasSize = <<a, b>>
    BY <1>1, <1>12, <2>1
  <2>3. QED
    BY <1>7, <1>8, <2>1, <2>2 DEF Pair
<1>13. QED
  BY <1>11, <1>12

\* Image data that do not begin with an ALPH chunk are written as they are.
LEMMA PlainData ==
    ASSUME NEW d, ImageOk(d), d.alph = Nil
    PROVE  Raw(d) = d /\ detectBitstreamType(d) = d.codec /\ Length(d) = d.n
<1>1. d \in [alph : {Nil} \cup (Nat \ {0}), codec : {"VP8", "VP8L"},
             w : 1 .. MaxCanvasSize, h : 1 .. MaxCanvasSize, alpha : BOOLEAN, n : Nat]
  BY DEF ImageOk
<1>2. Raw(d) = d
  BY <1>1 DEF Raw
<1>3. detectBitstreamType(d) = d.codec
  BY <1>2, ImageParts
<1>4. Length(d) = d.n
  BY ImageParts DEF Length
<1>5. QED
  BY <1>2, <1>3, <1>4

\* The bytes assembleExtended writes are a file around its middle,
LEMMA AroundIsFile ==
    ASSUME NEW h, NEW m, Pieces(m), MetadataOk
    PROVE  Around(h, m) = FilePieces(h, AssembledBody(m))
<1>1. PICK a, v : a = <<RiffHeader(h)>> /\ v = HeaderChunk(AssembledX) /\ IsList(a) /\ IsList(v)
  <2>1. IsList(<<RiffHeader(h)>>)
    BY ShortLists
  <2>2. IsList(HeaderChunk(AssembledX))
    BY HeaderRead DEF IsChunk, Pieces
  <2>3. QED
    BY <2>1, <2>2
<1>2. PICK i : i = metadataChunk("ICCP", iccData) /\ IsList(i)
  BY OptionalChunk DEF MetadataOk, Metadatum, Chunked, Pieces
<1>3. PICK e : e = metadataChunk("EXIF", exifData) /\ IsList(e)
  BY OptionalChunk DEF MetadataOk, Metadatum, Chunked, Pieces
<1>4. PICK y : y = metadataChunk("XMP", xmpData) /\ IsList(y)
  BY OptionalChunk DEF MetadataOk, Metadatum, Chunked, Pieces
<1>5. IsList(m)
  BY DEF Pieces
<1>6. Strung(a, v, i, m, e, y) = a \o Row(v, i, m, e, y)
  <2>1. IsList(a) /\ IsList(v) /\ IsList(i) /\ IsList(m) /\ IsList(e) /\ IsList(y)
    BY <1>1, <1>2, <1>3, <1>4, <1>5
  <2>2. QED
    BY <2>1, RowAfter
<1>7. Around(h, m) = Strung(a, v, i, m, e, y)
  BY <1>1, <1>2, <1>3, <1>4 DEF Around
<1>8. AssembledBody(m) = Row(v, i, m, e, y)
  BY <1>1, <1>2, <1>3, <1>4 DEF AssembledBody, ExtBody
<1>9. QED
  BY <1>1, <1>6, <1>7, <1>8 DEF FilePieces

\* the size in the RIFF header is that of its pieces,
LEMMA AssembledSize ==
    ASSUME NEW m, NEW ms, Chunked(m, ms), MetadataOk
    PROVE  Size(AssembledBody(m)) = (ChunkHeaderSize + VP8XChunkSize) + metadataSize(iccData) + Size(m)
                                        + metadataSize(exifData) + metadataSize(xmpData)
<1>1. PICK x, i, e, y : x = AssembledX /\ i = iccData /\ e = exifData /\ y = xmpData
  OBVIOUS
<1>2. i \in Nat \cup {Nil} /\ e \in Nat \cup {Nil} /\ y \in Nat \cup {Nil}
  BY <1>1 DEF MetadataOk, Metadatum
<1>3. Chunked(ExtBody(x, i, m, e, y), ExtList(x, i, ms, e, y)) /\ Size(ExtBody(x, i, m, e, y)) = ExtSize(i, Size(m), e, y)
  <2>1. Chunked(m, ms)
    OBVIOUS
  <2>2. PICK ii \in Nat \cup {Nil}, ee \in Nat \cup {Nil}, yy \in Nat \cup {Nil} : ii = i /\ ee = e /\ yy = y
    BY <1>2
  <2>3. Chunked(ExtBody(x, ii, m, ee, yy), ExtList(x, ii, ms, ee, yy)) /\ Size(ExtBody(x, ii, m, ee, yy)) = ExtSize(ii, Size(m), ee, yy)
    BY <2>1, ExtChunked
  <2>4. QED
    BY <2>2, <2>3
<1>4. QED
  BY <1>1, <1>3 DEF AssembledBody, ExtSize

LEMMA HeaderShape ==
    VP8X(AssembledFlags, canvasSize[1], canvasSize[2]) = HeaderChunk(AssembledX)
BY DEF VP8X, HeaderChunk, AssembledX, Extended

\* and the middle is the animation
LEMMA AnimatedShape ==
    ASSUME MuxerOk, isAnimated
    PROVE  assembleExtended =
               ExtFile(AssembledX, iccData, AnimPieces(bgColor, loopCount, frames, Len(frames)), exifData, xmpData)
<1>1. PICK n \in Nat : n = Len(frames) /\ DOMAIN frames = 1 .. n
  BY ListParts DEF MuxerOk
<1>2. \A j \in 1 .. n : ImageOk(frames[j].data)
  BY <1>1 DEF MuxerOk, FrameOk
<1>3. PICK m : m = AnimPieces(bgColor, loopCount, frames, n)
  OBVIOUS
<1>4. Chunked(m, AnimList(bgColor, loopCount, frames, n))
      /\ Size(m) = ChunkHeaderSize + ANIMChunkSize + Size(FlattenSeq(FrameChunks(frames, n)))
  BY <1>2, <1>3, AnimChunked
<1>5. LE16(loopCount) = loopCount
  <2>0. loopCount \in 0 .. maxLoopCount
    BY DEF MuxerOk
  <2>1. maxLoopCount \in Nat
    BY DEF maxLoopCount
  <2>2. PICK q \in Nat, m1 \in Nat : q = loopCount /\ m1 = maxLoopCount + 1 /\ q < m1
    BY <2>0, <2>1
  <2>3. q % m1 = q
    BY <2>2, SmallRemainder
  <2>4. QED
    BY <2>2, <2>3 DEF LE16
<1>6. <<ChunkHeader("ANIM", ANIMChunkSize),
        Data(ANIMChunkSize, [bgColor |-> bgColor, loopCount |-> LE16(loopCount)])>>
            \o FlattenSeq([i \in DOMAIN frames |-> writeANMFChunk(frames[i])]) = m
  BY <1>1, <1>3, <1>5 DEF AnimPieces, AnimChunk, AnimInfo, FrameChunks
<1>7. MetadataOk
  BY DEF MuxerOk, MetadataOk
<1>8. assembleExtended = Around(riffPayload, m)
  <2>1. PICK v : v = VP8X(AssembledFlags, canvasSize[1], canvasSize[2]) /\ v = HeaderChunk(AssembledX)
    BY HeaderShape
  <2>2. assembleExtended = ((((<<RiffHeader(riffPayload)>> \o v) \o metadataChunk("ICCP", iccData)) \o m)
                              \o metadataChunk("EXIF", exifData)) \o metadataChunk("XMP", xmpData)
    BY <1>6, <2>1 DEF assembleExtended, AssembledFlags
  <2>3. QED
    BY <2>1, <2>2 DEF Around, Strung
<1>9. Pieces(m)
  BY <1>4 DEF Chunked
<1>10. riffPayload = 4 + Size(AssembledBody(m))
  <2>1. Size(FlattenSeq(FrameChunks(frames, n))) = framesSize[n] /\ framesSize[n] \in Nat
    BY <1>1, <1>2, FramesSize
  <2>2. Size(AssembledBody(m)) = (ChunkHeaderSize + VP8XChunkSize) + metadataSize(iccData) + Size(m)
                                    + metadataSize(exifData) + metadataSize(xmpData)
    BY <1>4, <1>7, AssembledSize
  <2>3. metadataSize(iccData) \in Nat /\ metadataSize(exifData) \in Nat /\ metadataSize(xmpData) \in Nat
    BY <1>7, OptionalChunk DEF MetadataOk, Metadatum
  <2>4. riffPayload = 4 + ChunkHeaderSize + VP8XChunkSize + metadataSize(iccData)
                        + (ChunkHeaderSize + ANIMChunkSize + framesSize[n])
                        + metadataSize(exifData) + metadataSize(xmpData)
    BY <1>1 DEF riffPayload
  <2> HIDE DEF metadataSize
  <2>5. QED
    BY <1>4, <2>1, <2>2, <2>3, <2>4 DEF ChunkHeaderSize, VP8XChunkSize, ANIMChunkSize
<1>11. QED
  BY <1>1, <1>3, <1>7, <1>8, <1>9, <1>10, AroundIsFile DEF ExtFile, AssembledBody

\* A still image whose data do not begin with an ALPH chunk.
LEMMA StillShape ==
    ASSUME MuxerOk, ~isAnimated, NEW d, ImageOk(d), d.alph = Nil, frames[1].data = d
    PROVE  assembleExtended = ExtFile(AssembledX, iccData, SubPieces(d), exifData, xmpData)
<1>1. Raw(d) = d /\ detectBitstreamType(d) = d.codec /\ Length(d) = d.n
  BY PlainData
<1>2. PICK m : m = writeDataChunk(d.codec, d.n, d)
  OBVIOUS
<1>3. SubPieces(d) = m
  <2>1. metadataChunk("ALPH", d.alph) = <<>>
    BY DEF metadataChunk
  <2>2. IsList(m)
    BY <1>2, ImageParts, DataChunk DEF IsChunk, Pieces
  <2>3. QED
    BY <1>1, <1>2, <2>1, <2>2, NothingJoined DEF SubPieces
<1>4. Chunked(m, SubList(d)) /\ Size(m) = frameSubChunksSize(d) /\ Pieces(m)
  BY <1>3, ImageChunks DEF Chunked
<1>5. Size(m) = chunkTotalSize(d.n)
  BY <1>2, ImageParts, DataChunk
<1>6. MetadataOk
  BY DEF MuxerOk, MetadataOk
<1>7. assembleExtended = Around(riffPayload, m)
  <2>1. PICK v : v = VP8X(AssembledFlags, canvasSize[1], canvasSize[2]) /\ v = HeaderChunk(AssembledX)
    BY HeaderShape
  <2>2. assembleExtended = ((((<<RiffHeader(riffPayload)>> \o v) \o metadataChunk("ICCP", iccData)) \o m)
                              \o metadataChunk("EXIF", exifData)) \o metadataChunk("XMP", xmpData)
    BY <1>1, <1>2, <2>1 DEF assembleExtended, AssembledFlags
  <2>3. QED
    BY <2>1, <2>2 DEF Around, Strung
<1>8. riffPayload = 4 + Size(AssembledBody(m))
  <2>1. Size(AssembledBody(m)) = (ChunkHeaderSize + VP8XChunkSize) + metadataSize(iccData) + Size(m)
                                    + metadataSize(exifData) + metadataSize(xmpData)
    BY <1>4, <1>6, AssembledSize
  <2>2. metadataSize(iccData) \in Nat /\ metadataSize(exifData) \in Nat /\ metadataSize(xmpData) \in Nat
    BY <1>6, OptionalChunk DEF MetadataOk, Metadatum
  <2>3. riffPayload = 4 + ChunkHeaderSize + VP8XChunkSize + metadataSize(iccData)
                        + chunkTotalSize(d.n)
                        + metadataSize(exifData) + metadataSize(xmpData)
    BY <1>1 DEF riffPayload
  <2>4. Size(m) \in Nat
    BY <1>4, AtType
  <2>5. QED
    BY <1>5, <2>1, <2>2, <2>3, <2>4 DEF ChunkHeaderSize, VP8XChunkSize
<1>9. QED
  BY <1>3, <1>4, <1>6, <1>7, <1>8, AroundIsFile DEF ExtFile, AssembledBody

\* The simple file of the Muxer is the simple file of its one frame.
LEMMA SimpleShape ==
    ASSUME NEW d, ImageOk(d), d.alph = Nil, frames[1].data = d
    PROVE  assembleSimple = SimpleFile(d)
<1>1. Raw(d) = d /\ detectBitstreamType(d) = d.codec /\ Length(d) = d.n
  BY PlainData
<1>2. QED
  BY <1>1 DEF assembleSimple, SimpleFile, FilePieces

LEMMA PresentOk ==
    ASSUME NEW n \in Nat \cup {Nil}
    PROVE  Present(n) \in Nat \cup {Nil} /\ (~(n > 0) => Present(n) = Nil)
BY DEF Present

\* The encoder's file without metadata or alpha plane,
LEMMA EncodedSimple ==
    ASSUME NEW d, ImageOk(d), NEW icc, NEW exif, NEW xmp, ~IsExtended(d, icc, exif, xmp)
    PROVE  /\ d.alph = Nil /\ Present(icc) = Nil /\ Present(exif) = Nil /\ Present(xmp) = Nil
           /\ writeRIFF(d, icc, exif, xmp) = SimpleFile(d)
<1>1. ~(d.alph > 0) /\ ~(icc > 0) /\ ~(exif > 0) /\ ~(xmp > 0)
  BY DEF IsExtended
<1>2. d.alph = Nil
  BY <1>1, ImageParts
<1>3. writeRIFF(d, icc, exif, xmp) = SimpleFile(d)
  BY DEF writeRIFF, IsExtended, SimpleFile, FilePieces
<1>4. QED
  BY <1>1, <1>2, <1>3 DEF Present

\* and its extended file, are of the same two shapes.
LEMMA EncodedExtended ==
    ASSUME NEW d, ImageOk(d), NEW icc \in Nat \cup {Nil}, NEW exif \in Nat \cup {Nil},
           NEW xmp \in Nat \cup {Nil}, IsExtended(d, icc, exif, xmp)
    PROVE  writeRIFF(d, icc, exif, xmp) =
               ExtFile(EncodedX(d, icc, exif, xmp), Present(icc), SubPieces(d), Present(exif), Present(xmp))
<1>1. PICK x, flags : flags = EncodedFlags(d, icc, exif, xmp) /\ x = Extended(flags, d.w, d.h)
  OBVIOUS
<1>2. PICK i \in Nat \cup {Nil}, e \in Nat \cup {Nil}, y \in Nat \cup {Nil} :
          i = Present(icc) /\ e = Present(exif) /\ y = Present(xmp)
  BY PresentOk
<1>3. Present(d.alph) = d.alph
  <2>1. d.alph # Nil => d.alph > 0
    BY ImageParts
  <2>2. d.alph > 0 \/ d.alph = Nil
    BY <2>1
  <2>3. ~(Nil > 0)
    BY DEF Nil
  <2>4. QED
    BY <2>2, <2>3 DEF Present
<1>4. PICK size :
          size = 4 + ChunkHeaderSize + VP8XChunkSize + metadataSize(i) + metadataSize(d.alph)
                   + chunkTotalSize(d.n) + metadataSize(e) + metadataSize(y)
  OBVIOUS
<1>5. PICK r, v, ci, ca, cd, ce, cy :
          /\ r = <<RiffHeader(size)>> /\ v = HeaderChunk(x)
          /\ ci = metadataChunk("ICCP", i) /\ ca = metadataChunk("ALPH", d.alph)
          /\ cd = writeDataChunk(d.codec, d.n, Raw(d))
          /\ ce = metadataChunk("EXIF", e) /\ cy = metadataChunk("XMP", y)
  OBVIOUS
<1>6. writeRIFF(d, icc, exif, xmp) = (((((r \o v) \o ci) \o ca) \o cd) \o ce) \o cy
  <2>1. v = VP8X(flags, d.w, d.h)
    BY <1>1, <1>5 DEF VP8X, HeaderChunk, Extended
  <2> DEFINE present(n) == IF n > 0 THEN n ELSE Nil
  <2>2. present(icc) = i /\ present(exif) = e /\ present(xmp) = y /\ present(d.alph) = d.alph
    BY <1>2, <1>3 DEF Present
  <2> HIDE DEF present
  <2>3. writeRIFF(d, icc, exif, xmp) =
          <<RiffHeader(4 + ChunkHeaderSize + VP8XChunkSize
                        + metadataSize(present(icc)) + metadataSize(present(d.alph)) + chunkTotalSize(d.n)
                        + metadataSize(present(exif)) + metadataSize(present(xmp)))>>
           \o VP8X(flags, d.w, d.h)
           \o metadataChunk("ICCP", present(icc))
           \o metadataChunk("ALPH", present(d.alph))
           \o writeDataChunk(d.codec, d.n, Raw(d))
           \o metadataChunk("EXIF", present(exif))
           \o metadataChunk("XMP", present(xmp))
    BY <1>1 DEF writeRIFF, IsExtended, EncodedFlags, present
  <2>4. QED
    BY <1>4, <1>5, <2>1, <2>2, <2>3
<1>7. /\ IsList(r) /\ IsList(v) /\ IsList(ci) /\ IsList(ca) /\ IsList(cd) /\ IsList(ce) /\ IsList(cy)
  <2>1. IsList(r)
    BY <1>5, ShortLists
  <2>2. IsList(v)
    BY <1>5, HeaderRead DEF IsChunk, Pieces
  <2>3. IsList(ci) /\ IsList(ce) /\ IsList(cy)
    BY <1>5, OptionalChunk DEF Chunked, Pieces
  <2>4. IsList(ca)
    BY <1>5, ImageParts, OptionalChunk DEF Chunked, Pieces
  <2>5. IsList(cd)
    BY <1>5, ImageParts, DataChunk DEF IsChunk, Pieces
  <2>6. QED
    BY <2>1, <2>2, <2>3, <2>4, <2>5
<1>8. PICK m : m = ca \o cd /\ m = SubPieces(d)
  BY <1>5 DEF SubPieces
<1>9. (((r \o v) \o ci) \o ca) \o cd = ((r \o v) \o ci) \o m
  <2>1. PICK a : a = r \o v /\ IsList(a)
    BY <1>7, PartJoined
  <2>2. PICK b : b = a \o ci /\ IsList(b)
    BY <1>7, <2>1, PartJoined
  <2>3. (b \o ca) \o cd = b \o (ca \o cd)
    <3>1. IsList(b) /\ IsList(ca) /\ IsList(cd)
      BY <1>7, <2>2
    <3>2. QED
      BY <3>1, JoinedTwice, SMTT(30)
  <2>4. QED
    BY <1>8, <2>1, <2>2, <2>3
<1>10. writeRIFF(d, icc, exif, xmp) = Strung(r, v, ci, m, ce, cy)
  BY <1>6, <1>9 DEF Strung
<1>11. Strung(r, v, ci, m, ce, cy) = r \o Row(v, ci, m, ce, cy)
  <2>1. IsList(m)
    BY <1>7, <1>8, PartJoined
  <2>2. IsList(r) /\ IsList(v) /\ IsList(ci) /\ IsList(m) /\ IsList(ce) /\ IsList(cy)
    BY <1>7, <2>1
  <2>3. QED
    BY <2>2, RowAfter
<1>12. Row(v, ci, m, ce, cy) = ExtBody(x, i, m, e, y)
  BY <1>5 DEF ExtBody
<1>13. size = 4 + Size(ExtBody(x, i, m, e, y))
  <2>1. Chunked(m, SubList(d)) /\ Size(m) = frameSubChunksSize(d)
    BY <1>8, ImageChunks
  <2>2. PICK ms : ms = SubList(d)
    OBVIOUS
  <2>3. Chunked(m, ms)
    BY <2>1, <2>2
  <2>4. Chunked(ExtBody(x, i, m, e, y), ExtList(x, i, ms, e, y)) /\ Size(ExtBody(x, i, m, e, y)) = ExtSize(i, Size(m), e, y)
    BY <2>3, ExtChunked
  <2>5. Size(m) = metadataSize(d.alph) + chunkTotalSize(d.n)
    BY <2>1 DEF frameSubChunksSize, metadataSize
  <2>6. metadataSize(i) \in Nat /\ metadataSize(e) \in Nat /\ metadataSize(y) \in Nat
    BY OptionalChunk
  <2>7. metadataSize(d.alph) \in Nat /\ chunkTotalSize(d.n) \in Nat
    <3>1. d.n \in Nat /\ d.n % 2 \in 0 .. 1
      BY ImageParts
    <3>2. chunkTotalSize(d.n) \in Nat
      BY <3>1 DEF chunkTotalSize, ChunkHeaderSize
    <3>3. QED
      BY <3>2, ImageParts, OptionalChunk
  <2>8. QED
    BY <1>4, <2>4, <2>5, <2>6, <2>7 DEF ExtSize, ChunkHeaderSize, VP8XChunkSize
<1>14. ExtFile(x, i, m, e, y) = r \o ExtBody(x, i, m, e, y)
  BY <1>5, <1>13 DEF ExtFile, FilePieces
<1>15. writeRIFF(d, icc, exif, xmp) = ExtFile(x, i, m, e, y)
  BY <1>10, <1>11, <1>12, <1>14
<1>16. QED
  BY <1>1, <1>2, <1>8, <1>15 DEF EncodedX

\* What the demuxer says of a simple file is what was given,
LEMMA SaysSimple ==
    ASSUME NEW d, ImageOk(d), d.alph = Nil, NEW r, r = SimpleState(d), NEW g,
           g.size = <<d.w, d.h>>, g.frames = <<StillGiven(d)>>, ~g.anim, g.anim \in BOOLEAN,
           g.icc = Nil, g.exif = Nil, g.xmp = Nil
    PROVE  SaysOf(r, g)
<1>1. r.ok /\ r.w = d.w /\ r.h = d.h /\ r.icc = Nil /\ r.exif = Nil /\ r.xmp = Nil
      /\ r.frames = g.frames /\ r.flags = SimpleFlags(IsVP8L(d) /\ d.alpha)
  BY DEF SimpleState
<1>2. r.flags.anim = FALSE /\ r.flags.alpha = (IsVP8L(d) /\ d.alpha)
  BY <1>1 DEF SimpleFlags
<1>3. (\E i \in DOMAIN g.frames : g.frames[i].hasAlpha) = (IsVP8L(d) /\ d.alpha)
  <2>1. PICK fs : fs = <<StillGiven(d)>> /\ fs[1] = StillGiven(d) /\ Len(fs) = 1 /\ DOMAIN fs = 1 .. 1
    <3>1. PICK s : s = StillGiven(d)
      OBVIOUS
    <3>2. <<s>>[1] = s /\ Len(<<s>>) = 1 /\ DOMAIN <<s>> = 1 .. 1
      OBVIOUS
    <3>3. QED
      BY <3>1, <3>2
  <2>2. StillGiven(d).hasAlpha = (d.alph # Nil \/ (IsVP8L(d) /\ d.alpha))
    BY DEF StillGiven, StillFrame
  <2>3. (\E i \in DOMAIN g.frames : g.frames[i].hasAlpha) <=> fs[1].hasAlpha
    <3>1. DOMAIN fs = {1}
      BY <2>1
    <3>2. g.frames = fs
      BY <2>1
    <3>3. QED
      BY <3>1, <3>2
  <2>4. fs[1].hasAlpha <=> (IsVP8L(d) /\ d.alpha)
    BY <2>1, <2>2
  <2>5. QED
    BY <2>3, <2>4
<1>4. QED
  BY <1>1, <1>2, <1>3 DEF SaysOf

\* and so it is of a still image with metadata.
LEMMA SaysStill ==
    ASSUME NEW d, ImageOk(d), NEW x, NEW icc, NEW exif, NEW xmp, NEW r, NEW g,
           r = DState(x, icc, exif, xmp, 0, 0, <<StillOf(d, d.w, d.h)>>),
           x.w + 1 = d.w, x.h + 1 = d.h, x.flags.anim = FALSE,
           x.flags.alpha = (d.alph # Nil \/ (IsVP8L(d) /\ d.alpha)),
           g.size = <<d.w, d.h>>, g.frames = <<StillGiven(d)>>, g.anim = FALSE,
           g.icc = icc, g.exif = exif, g.xmp = xmp
    PROVE  SaysOf(r, g)
<1>1. StillOf(d, d.w, d.h) = StillGiven(d)
  BY DEF StillOf, StillGiven
<1>2. r.ok /\ r.w = d.w /\ r.h = d.h /\ r.icc = icc /\ r.exif = exif /\ r.xmp = xmp
      /\ r.frames = g.frames /\ r.flags = x.flags
  BY <1>1, DStateParts
<1>3. (\E i \in DOMAIN g.frames : g.frames[i].hasAlpha) <=> (d.alph # Nil \/ (IsVP8L(d) /\ d.alpha))
  <2>1. PICK fs : fs = <<StillGiven(d)>> /\ fs[1] = StillGiven(d) /\ DOMAIN fs = 1 .. 1
    <3>1. PICK s : s = StillGiven(d)
      OBVIOUS
    <3>2. <<s>>[1] = s /\ Len(<<s>>) = 1 /\ DOMAIN <<s>> = 1 .. 1
      OBVIOUS
    <3>3. QED
      BY <3>1, <3>2
  <2>2. StillGiven(d).hasAlpha = (d.alph # Nil \/ (IsVP8L(d) /\ d.alpha))
    BY DEF StillGiven, StillFrame
  <2>3. (\E i \in DOMAIN g.frames : g.frames[i].hasAlpha) <=> fs[1].hasAlpha
    <3>1. DOMAIN fs = {1}
      BY <2>1
    <3>2. g.frames = fs
      BY <2>1
    <3>3. QED
      BY <3>1, <3>2
  <2>4. QED
    BY <2>1, <2>2, <2>3
<1>4. QED
  BY <1>2, <1>3 DEF SaysOf

(***************************************************************************)
(* The parser, chunk by chunk                                               *)
(***************************************************************************)

\* The recursion of ParseVP8X has a solution.
LEMMA SomeParse ==
    ASSUME NEW f, NEW ids, NEW n \in Nat
    PROVE  \E after : after = [k \in 1 .. n |-> PStep(f, ids, after, k)]
<1> DEFINE P(m) == \E after : after = [k \in 1 .. m |-> PStep(f, ids, after, k)]
           T == {m \in Nat : P(m)}
<1>1. 0 \in T
  <2> DEFINE a == [k \in 1 .. 0 |-> 0]
  <2>1. a = [k \in 1 .. 0 |-> PStep(f, ids, a, k)]
    OBVIOUS
  <2>2. QED
    BY <2>1
<1>2. ASSUME NEW m \in T PROVE m + 1 \in T
  <2>1. PICK a : a = [k \in 1 .. m |-> PStep(f, ids, a, k)]
    OBVIOUS
  <2> DEFINE b == [k \in 1 .. m + 1 |-> IF k <= m THEN a[k] ELSE PStep(f, ids, a, k)]
  <2>2. ASSUME NEW k \in 1 .. m + 1 PROVE b[k] = PStep(f, ids, b, k)
    <3>1. k # 1 => k - 1 \in 1 .. m + 1 /\ b[k - 1] = a[k - 1]
      OBVIOUS
    <3> HIDE DEF b
    <3>2. PStep(f, ids, b, k) = PStep(f, ids, a, k)
      BY <3>1 DEF PStep
    <3>3. b[k] = IF k <= m THEN a[k] ELSE PStep(f, ids, a, k)
      BY DEF b
    <3>4. k <= m => a[k] = PStep(f, ids, a, k)
      <4>1. k <= m => k \in 1 .. m
        OBVIOUS
      <4>2. QED
        BY <2>1, <4>1
    <3>5. QED
      BY <3>2, <3>3, <3>4
  <2>3. b = [k \in 1 .. m + 1 |-> PStep(f, ids, b, k)]
    BY <2>2
  <2>4. P(m + 1)
    BY <2>3
  <2>5. QED
    BY <2>4
<1> HIDE DEF P
<1>3. n \in T
  <2>1. T \in SUBSET Nat
    OBVIOUS
  <2> HIDE DEF T
  <2>2. QED
    BY <1>1, <1>2, <2>1, CountUp
<1>4. QED
  BY <1>3 DEF P

\* So the parser is a run of PStep over the chunks.
LEMMA ParseSteps ==
    ASSUME NEW f, NEW ids, Len(ids) \in Nat
    PROVE  /\ 1 <= Len(ids) => PAfter(f, ids)[1] = PStart(f, ids)
           /\ \A k \in 1 .. Len(ids) :
                  k + 1 <= Len(ids) /\ PAfter(f, ids)[k].ok /\ ~PAfter(f, ids)[k].done =>
                      PAfter(f, ids)[k + 1] = ParseChunk(PAfter(f, ids)[k], f, ids, k + 1)
           /\ \A k \in 1 .. Len(ids) :
                  k + 1 <= Len(ids) /\ PAfter(f, ids)[k].done => PAfter(f, ids)[k + 1] = PAfter(f, ids)[k]
<1> DEFINE a == PAfter(f, ids)
<1>1. a = [k \in 1 .. Len(ids) |-> PStep(f, ids, a, k)]
  BY SomeParse DEF PAfter
<1> HIDE DEF a
<1>2. 1 <= Len(ids) => a[1] = PStart(f, ids)
  <2>1. 1 <= Len(ids) => 1 \in 1 .. Len(ids)
    OBVIOUS
  <2>2. QED
    BY <1>1, <2>1 DEF PStep
<1>3. ASSUME NEW k \in 1 .. Len(ids), k + 1 <= Len(ids)
      PROVE  a[k + 1] = IF a[k].ok /\ ~a[k].done THEN ParseChunk(a[k], f, ids, k + 1) ELSE a[k]
  <2>1. PICK l \in 1 .. Len(ids) : l = k + 1 /\ l - 1 = k /\ l # 1
    BY <1>3
  <2>2. a[l] = PStep(f, ids, a, l)
    BY <1>1
  <2>3. a[l] = IF a[l - 1].ok /\ ~a[l - 1].done THEN ParseChunk(a[l - 1], f, ids, l) ELSE a[l - 1]
    BY <1>3, <2>1, <2>2 DEF PStep
  <2>4. QED
    BY <2>1, <2>3
<1>4. QED
  BY <1>2, <1>3 DEF a

LEMMA ParseLast ==
    ASSUME NEW f, NEW ids, NEW all, all = PAfter(f, ids)[Len(ids)],
           NEW x, x = Payload(f, ids[1]), ~((x.w + 1) * (x.h + 1) >= MaxImageArea)
    PROVE  ParseVP8X(f, ids) = all
<1> DEFINE start == [ok |-> TRUE, done |-> FALSE, anim |-> FALSE, flags |-> x.flags,
                  w |-> x.w + 1, h |-> x.h + 1, icc |-> Nil, exif |-> Nil, xmp |-> Nil,
                  bgColor |-> -1, loopCount |-> 1, frames |-> <<>>]
           step(after, k) ==
            IF k = 1 THEN start
            ELSE IF after[k - 1].ok /\ ~after[k - 1].done
                 THEN ParseChunk(after[k - 1], f, ids, k) ELSE after[k - 1]
           a == CHOOSE after : after = [k \in 1 .. Len(ids) |-> step(after, k)]
<1>1. ParseVP8X(f, ids) = IF start.w * start.h >= MaxImageArea THEN Failed ELSE a[Len(ids)]
  BY DEF ParseVP8X
<1>2. a = PAfter(f, ids)
  BY DEF PAfter, PStep, PStart, PState
<1> HIDE DEF a
<1>3. start.w = x.w + 1 /\ start.h = x.h + 1
  OBVIOUS
<1> HIDE DEF start
<1>4. QED
  BY <1>1, <1>2, <1>3

LEMMA PStateParts ==
    ASSUME NEW x, NEW anim, NEW icc, NEW exif, NEW xmp, NEW bg, NEW loop, NEW fs
    PROVE  LET d == PState(x, anim, icc, exif, xmp, bg, loop, fs)
           IN  /\ d.ok /\ ~d.done /\ d.anim = anim /\ d.flags = x.flags /\ d.frames = fs
               /\ d.w = x.w + 1 /\ d.h = x.h + 1
               /\ d.icc = icc /\ d.exif = exif /\ d.xmp = xmp /\ d.bgColor = bg /\ d.loopCount = loop
BY DEF PState

LEMMA PStateIcc ==
    ASSUME NEW x, NEW anim, NEW icc, NEW exif, NEW xmp, NEW bg, NEW loop, NEW fs, NEW v,
           NEW d, d = PState(x, anim, icc, exif, xmp, bg, loop, fs)
    PROVE  [d EXCEPT !.icc = v] = PState(x, anim, v, exif, xmp, bg, loop, fs)
<1>1. PICK t, z, g, w, h : t = TRUE /\ z = FALSE /\ g = x.flags /\ w = x.w + 1 /\ h = x.h + 1
  OBVIOUS
<1>2. d =
         [ok |-> t, done |-> z, anim |-> anim, flags |-> g, w |-> w, h |-> h,
          icc |-> icc, exif |-> exif, xmp |-> xmp, bgColor |-> bg, loopCount |-> loop, frames |-> fs]
  BY <1>1 DEF PState
<1>3. [d EXCEPT !.icc = v] =
         [ok |-> t, done |-> z, anim |-> anim, flags |-> g, w |-> w, h |-> h,
          icc |-> v, exif |-> exif, xmp |-> xmp, bgColor |-> bg, loopCount |-> loop, frames |-> fs]
  BY <1>2
<1>4. QED
  BY <1>1, <1>3 DEF PState

LEMMA PStateExif ==
    ASSUME NEW x, NEW anim, NEW icc, NEW exif, NEW xmp, NEW bg, NEW loop, NEW fs, NEW v,
           NEW d, d = PState(x, anim, icc, exif, xmp, bg, loop, fs)
    PROVE  [d EXCEPT !.exif = v] = PState(x, anim, icc, v, xmp, bg, loop, fs)
<1>1. PICK t, z, g, w, h : t = TRUE /\ z = FALSE /\ g = x.flags /\ w = x.w + 1 /\ h = x.h + 1
  OBVIOUS
<1>2. d =
         [ok |-> t, done |-> z, anim |-> anim, flags |-> g, w |-> w, h |-> h,
          icc |-> icc, exif |-> exif, xmp |-> xmp, bgColor |-> bg, loopCount |-> loop, frames |-> fs]
  BY <1>1 DEF PState
<1>3. [d EXCEPT !.exif = v] =
         [ok |-> t, done |-> z, anim |-> anim, flags |-> g, w |-> w, h |-> h,
          icc |-> icc, exif |-> v, xmp |-> xmp, bgColor |-> bg, loopCount |-> loop, frames |-> fs]
  BY <1>2
<1>4. QED
  BY <1>1, <1>3 DEF PState

LEMMA PStateXmp ==
    ASSUME NEW x, NEW anim, NEW icc, NEW exif, NEW xmp, NEW bg, NEW loop, NEW fs, NEW v,
           NEW d, d = PState(x, anim, icc, exif, xmp, bg, loop, fs)
    PROVE  [d EXCEPT !.xmp = v] = PState(x, anim, icc, exif, v, bg, loop, fs)
<1>1. PICK t, z, g, w, h : t = TRUE /\ z = FALSE /\ g = x.flags /\ w = x.w + 1 /\ h = x.h + 1
  OBVIOUS
<1>2. d =
         [ok |-> t, done |-> z, anim |-> anim, flags |-> g, w |-> w, h |-> h,
          icc |-> icc, exif |-> exif, xmp |-> xmp, bgColor |-> bg, loopCount |-> loop, frames |-> fs]
  BY <1>1 DEF PState
<1>3. [d EXCEPT !.xmp = v] =
         [ok |-> t, done |-> z, anim |-> anim, flags |-> g, w |-> w, h |-> h,
          icc |-> icc, exif |-> exif, xmp |-> v, bgColor |-> bg, loopCount |-> loop, frames |-> fs]
  BY <1>2
<1>4. QED
  BY <1>1, <1>3 DEF PState

LEMMA PStateFrames ==
    ASSUME NEW x, NEW anim, NEW icc, NEW exif, NEW xmp, NEW bg, NEW loop, NEW fs, NEW v,
           NEW d, d = PState(x, anim, icc, exif, xmp, bg, loop, fs)
    PROVE  [d EXCEPT !.frames = v] = PState(x, anim, icc, exif, xmp, bg, loop, v)
<1>1. PICK t, z, g, w, h : t = TRUE /\ z = FALSE /\ g = x.flags /\ w = x.w + 1 /\ h = x.h + 1
  OBVIOUS
<1>2. d =
         [ok |-> t, done |-> z, anim |-> anim, flags |-> g, w |-> w, h |-> h,
          icc |-> icc, exif |-> exif, xmp |-> xmp, bgColor |-> bg, loopCount |-> loop, frames |-> fs]
  BY <1>1 DEF PState
<1>3. [d EXCEPT !.frames = v] =
         [ok |-> t, done |-> z, anim |-> anim, flags |-> g, w |-> w, h |-> h,
          icc |-> icc, exif |-> exif, xmp |-> xmp, bgColor |-> bg, loopCount |-> loop, frames |-> v]
  BY <1>2
<1>4. QED
  BY <1>1, <1>3 DEF PState

LEMMA PStateColor ==
    ASSUME NEW x, NEW anim, NEW icc, NEW exif, NEW xmp, NEW bg, NEW loop, NEW fs, NEW v,
           NEW d, d = PState(x, anim, icc, exif, xmp, bg, loop, fs)
    PROVE  [d EXCEPT !.bgColor = v] = PState(x, anim, icc, exif, xmp, v, loop, fs)
<1>1. PICK t, z, g, w, h : t = TRUE /\ z = FALSE /\ g = x.flags /\ w = x.w + 1 /\ h = x.h + 1
  OBVIOUS
<1>2. d =
         [ok |-> t, done |-> z, anim |-> anim, flags |-> g, w |-> w, h |-> h,
          icc |-> icc, exif |-> exif, xmp |-> xmp, bgColor |-> bg, loopCount |-> loop, frames |-> fs]
  BY <1>1 DEF PState
<1>3. [d EXCEPT !.bgColor = v] =
         [ok |-> t, done |-> z, anim |-> anim, flags |-> g, w |-> w, h |-> h,
          icc |-> icc, exif |-> exif, xmp |-> xmp, bgColor |-> v, loopCount |-> loop, frames |-> fs]
  BY <1>2
<1>4. QED
  BY <1>1, <1>3 DEF PState

LEMMA PStateLoop ==
    ASSUME NEW x, NEW anim, NEW icc, NEW exif, NEW xmp, NEW bg, NEW loop, NEW fs, NEW v,
           NEW d, d = PState(x, anim, icc, exif, xmp, bg, loop, fs)
    PROVE  [d EXCEPT !.loopCount = v] = PState(x, anim, icc, exif, xmp, bg, v, fs)
<1>1. PICK t, z, g, w, h : t = TRUE /\ z = FALSE /\ g = x.flags /\ w = x.w + 1 /\ h = x.h + 1
  OBVIOUS
<1>2. d =
         [ok |-> t, done |-> z, anim |-> anim, flags |-> g, w |-> w, h |-> h,
          icc |-> icc, exif |-> exif, xmp |-> xmp, bgColor |-> bg, loopCount |-> loop, frames |-> fs]
  BY <1>1 DEF PState
<1>3. [d EXCEPT !.loopCount = v] =
         [ok |-> t, done |-> z, anim |-> anim, flags |-> g, w |-> w, h |-> h,
          icc |-> icc, exif |-> exif, xmp |-> xmp, bgColor |-> bg, loopCount |-> v, frames |-> fs]
  BY <1>2
<1>4. QED
  BY <1>1, <1>3 DEF PState

LEMMA PStateAnim ==
    ASSUME NEW x, NEW anim, NEW icc, NEW exif, NEW xmp, NEW bg, NEW loop, NEW fs, NEW v,
           NEW d, d = PState(x, anim, icc, exif, xmp, bg, loop, fs)
    PROVE  [d EXCEPT !.anim = v] = PState(x, v, icc, exif, xmp, bg, loop, fs)
<1>1. PICK t, z, g, w, h : t = TRUE /\ z = FALSE /\ g = x.flags /\ w = x.w + 1 /\ h = x.h + 1
  OBVIOUS
<1>2. d =
         [ok |-> t, done |-> z, anim |-> anim, flags |-> g, w |-> w, h |-> h,
          icc |-> icc, exif |-> exif, xmp |-> xmp, bgColor |-> bg, loopCount |-> loop, frames |-> fs]
  BY <1>1 DEF PState
<1>3. [d EXCEPT !.anim = v] =
         [ok |-> t, done |-> z, anim |-> v, flags |-> g, w |-> w, h |-> h,
          icc |-> icc, exif |-> exif, xmp |-> xmp, bgColor |-> bg, loopCount |-> loop, frames |-> fs]
  BY <1>2
<1>4. QED
  BY <1>1, <1>3 DEF PState

LEMMA ParseNext ==
    ASSUME NEW p, NEW ids, NEW cs, Reads(p, ids, cs), NEW part, NEW s, Within(part, cs, s),
           NEW j \in 1 .. Len(part), Len(part) \in Nat, NEW i \in Nat, i >= 1, i + 1 = s + j,
           PAfter(Written(p), ids)[i].ok, ~PAfter(Written(p), ids)[i].done
    PROVE  PAfter(Written(p), ids)[s + j] = ParseChunk(PAfter(Written(p), ids)[i], Written(p), ids, s + j)
<1>1. s + j \in 1 .. Len(ids) /\ Len(ids) \in Nat /\ s \in Nat
  BY ReadPart
<1>2. i \in 1 .. Len(ids) /\ i + 1 <= Len(ids)
  BY <1>1
<1>3. PAfter(Written(p), ids)[i + 1] = ParseChunk(PAfter(Written(p), ids)[i], Written(p), ids, i + 1)
  BY <1>1, <1>2, ParseSteps
<1>4. QED
  BY <1>3

\* The parser takes a metadata chunk that the flags announce.
LEMMA ParseMetadata ==
    ASSUME NEW p, NEW ids, NEW cs, Reads(p, ids, cs), NEW s \in Nat, s >= 1,
           NEW x, NEW anim, NEW icc, NEW exif, NEW xmp, NEW bg, NEW loop, NEW fs,
           PAfter(Written(p), ids)[s] = PState(x, anim, icc, exif, xmp, bg, loop, fs),
           NEW id, NEW n \in Nat \cup {Nil}, Within(OptionalChunks(id, n), cs, s),
           NEW e, e = s + Len(OptionalChunks(id, n))
    PROVE  /\ id = "ICCP" /\ icc = Nil /\ (n # Nil => x.flags.icc) =>
                  PAfter(Written(p), ids)[e] = PState(x, anim, n, exif, xmp, bg, loop, fs)
           /\ id = "EXIF" /\ exif = Nil /\ (n # Nil => x.flags.exif) =>
                  PAfter(Written(p), ids)[e] = PState(x, anim, icc, n, xmp, bg, loop, fs)
           /\ id = "XMP" /\ xmp = Nil /\ (n # Nil => x.flags.xmp) =>
                  PAfter(Written(p), ids)[e] = PState(x, anim, icc, exif, n, bg, loop, fs)
           /\ e \in Nat /\ e >= 1
<1> DEFINE f == Written(p)
           os == OptionalChunks(id, n)
           d == PState(x, anim, icc, exif, xmp, bg, loop, fs)
<1>1. /\ Len(os) = (IF n = Nil THEN 0 ELSE 1)
      /\ n # Nil => os[1][1].v.id = id /\ os[1][2].v = n
  BY OptionalChunk
<1> HIDE DEF f, os
<1>2. CASE n = Nil
  <2>1. e = s
    BY <1>1, <1>2 DEF os
  <2>2. QED
    BY <1>2, <2>1 DEF f
<1>3. CASE n # Nil
  <2>1. e = s + 1 /\ 1 \in 1 .. Len(os) /\ Len(os) \in Nat
    BY <1>1, <1>3 DEF os
  <2>2. Within(os, cs, s)
    BY DEF os
  <2>3. Id(f, ids[s + 1]) = id /\ Payload(f, ids[s + 1]) = n
    BY <1>1, <1>3, <2>1, <2>2, ReadPart DEF f
  <2>4. d.ok /\ ~d.done /\ d.flags = x.flags /\ PAfter(f, ids)[s] = d
    BY PStateParts DEF f
  <2>5. PAfter(f, ids)[s + 1] = ParseChunk(d, f, ids, s + 1)
    <3>1. PAfter(f, ids)[s].ok /\ ~PAfter(f, ids)[s].done
      BY <2>4
    <3> HIDE DEF d
    <3>2. PAfter(f, ids)[s + 1] = ParseChunk(PAfter(f, ids)[s], f, ids, s + 1)
      BY <2>1, <2>2, <3>1, ParseNext DEF f
    <3>3. QED
      BY <2>4, <3>2
  <2> HIDE DEF d
  <2>6. id = "ICCP" /\ x.flags.icc => ParseChunk(d, f, ids, s + 1) = [d EXCEPT !.icc = n]
    BY <2>3, <2>4 DEF ParseChunk
  <2>7. id = "EXIF" /\ x.flags.exif => ParseChunk(d, f, ids, s + 1) = [d EXCEPT !.exif = n]
    BY <2>3, <2>4 DEF ParseChunk
  <2>8. id = "XMP" /\ x.flags.xmp => ParseChunk(d, f, ids, s + 1) = [d EXCEPT !.xmp = n]
    BY <2>3, <2>4 DEF ParseChunk
  <2>9. /\ [d EXCEPT !.icc = n] = PState(x, anim, n, exif, xmp, bg, loop, fs)
        /\ [d EXCEPT !.exif = n] = PState(x, anim, icc, n, xmp, bg, loop, fs)
        /\ [d EXCEPT !.xmp = n] = PState(x, anim, icc, exif, n, bg, loop, fs)
    BY PStateIcc, PStateExif, PStateXmp DEF d
  <2>10. QED
    BY <1>3, <2>1, <2>5, <2>6, <2>7, <2>8, <2>9 DEF f
<1>4. QED
  BY <1>2, <1>3

\* It takes an animation from the ANIM chunk on.
LEMMA ParseAnim ==
    ASSUME NEW p, NEW ids, NEW cs, Reads(p, ids, cs), NEW s \in Nat, s >= 1,
           NEW x, NEW anim0, NEW icc, NEW fs, NEW bg, NEW loop, NEW bg0, NEW loop0,
           PAfter(Written(p), ids)[s] = PState(x, anim0, icc, Nil, Nil, bg0, loop0, fs),
           Within(<<AnimChunk(bg, loop)>>, cs, s)
    PROVE  PAfter(Written(p), ids)[s + 1] = PAnimated(x, icc, bg, loop, fs)
<1> DEFINE f == Written(p)
           c == AnimChunk(bg, loop)
           part == <<c>>
<1>1. PICK d : d = PState(x, anim0, icc, Nil, Nil, bg0, loop0, fs)
  OBVIOUS
<1>2. Len(part) = 1 /\ part[1] = c
  BY ShortLists
<1>3. c[1].v.id = "ANIM" /\ c[2].v = AnimInfo(bg, loop)
  BY AnimRead
<1> HIDE DEF f, c, part
<1>4. Within(part, cs, s) /\ 1 \in 1 .. Len(part) /\ Len(part) \in Nat
  BY <1>2 DEF part, c
<1>5. Id(f, ids[s + 1]) = "ANIM" /\ Payload(f, ids[s + 1]) = AnimInfo(bg, loop)
  <2>1. PICK j \in 1 .. Len(part) : j = 1
    BY <1>4
  <2>2. Id(Written(p), ids[s + j]) = part[j][1].v.id /\ Payload(Written(p), ids[s + j]) = part[j][2].v
    BY <1>4, ReadPart
  <2>3. QED
    BY <1>2, <1>3, <2>1, <2>2 DEF f
<1>6. PAfter(f, ids)[s] = d /\ d.ok /\ ~d.done
  BY <1>1, PStateParts DEF f
<1>7. PAfter(f, ids)[s + 1] = ParseChunk(d, f, ids, s + 1)
  <2>1. PAfter(f, ids)[s].ok /\ ~PAfter(f, ids)[s].done
    BY <1>6
  <2>2. PAfter(f, ids)[s + 1] = ParseChunk(PAfter(f, ids)[s], f, ids, s + 1)
    BY <1>4, <2>1, ParseNext DEF f
  <2>3. QED
    BY <1>6, <2>2
<1>8. PICK a : a = AnimInfo(bg, loop) /\ a.bgColor = bg /\ a.loopCount = loop
  <2>1. AnimInfo(bg, loop).bgColor = bg /\ AnimInfo(bg, loop).loopCount = loop
    BY DEF AnimInfo
  <2>2. QED
    BY <2>1
<1>9. PICK t : t = TRUE
  OBVIOUS
<1>10. ParseChunk(d, f, ids, s + 1) = [d EXCEPT !.anim = t, !.bgColor = a.bgColor, !.loopCount = a.loopCount]
  BY <1>5, <1>8, <1>9 DEF ParseChunk
<1>11. PICK d1 : d1 = [d EXCEPT !.anim = t]
  OBVIOUS
<1>12. d1 = PState(x, t, icc, Nil, Nil, bg0, loop0, fs)
  BY <1>1, <1>11, PStateAnim
<1>13. PICK d2 : d2 = [d1 EXCEPT !.bgColor = a.bgColor]
  OBVIOUS
<1>14. d2 = PState(x, t, icc, Nil, Nil, bg, loop0, fs)
  BY <1>8, <1>12, <1>13, PStateColor
<1>15. PICK d3 : d3 = [d2 EXCEPT !.loopCount = a.loopCount]
  OBVIOUS
<1>16. d3 = PState(x, t, icc, Nil, Nil, bg, loop, fs)
  BY <1>8, <1>14, <1>15, PStateLoop
<1>17. d3 = [d EXCEPT !.anim = t, !.bgColor = a.bgColor, !.loopCount = a.loopCount]
  BY <1>11, <1>13, <1>15
<1>18. QED
  BY <1>7, <1>9, <1>10, <1>16, <1>17 DEF f, PAnimated

\* It takes the frames in their order.
LEMMA ParseFrames ==
    ASSUME NEW p, NEW ids, NEW cs, Reads(p, ids, cs), NEW s \in Nat, s >= 1,
           NEW x, NEW icc, NEW bg, NEW loop,
           PAfter(Written(p), ids)[s] = PAnimated(x, icc, bg, loop, <<>>),
           NEW fr, NEW n \in Nat, n <= MaxFrames, \A j \in 1 .. n : FrameOk(fr[j]) /\ NoPlane(fr[j].data),
           Within(FrameChunks(fr, n), cs, s)
    PROVE  PAfter(Written(p), ids)[s + n] = PAnimated(x, icc, bg, loop, FramesGiven(fr, n))
<1>0. PICK t : t = TRUE
  OBVIOUS
<1> DEFINE f == Written(p)
           part == FrameChunks(fr, n)
           T == {m \in Nat : m <= n =>
                    PAfter(f, ids)[s + m] = PState(x, t, icc, Nil, Nil, bg, loop, FramesGiven(fr, m))}
<1>1. 0 \in T
  <2>1. FramesGiven(fr, 0) = <<>> /\ s + 0 = s
    <3>1. Len(FramesGiven(fr, 0)) = 0 /\ IsList(FramesGiven(fr, 0))
      BY OneMore
    <3>2. QED
      BY <3>1, EmptyList, SameList
  <2>2. QED
    BY <1>0, <2>1 DEF PAnimated
<1>2. ASSUME NEW m \in T PROVE m + 1 \in T
  <2> SUFFICES ASSUME m + 1 <= n
               PROVE  PAfter(f, ids)[s + (m + 1)] = PState(x, t, icc, Nil, Nil, bg, loop, FramesGiven(fr, m + 1))
    OBVIOUS
  <2>1. PICK d : d = PState(x, t, icc, Nil, Nil, bg, loop, FramesGiven(fr, m))
    OBVIOUS
  <2>2. PAfter(f, ids)[s + m] = d /\ m \in Nat
    BY <2>1
  <2>3. PICK j \in 1 .. n : j = m + 1
    BY <2>2
  <2> DEFINE r == fr[j]
             c == writeANMFChunk(r)
  <2>4. FrameOk(r) /\ ImageOk(r.data) /\ NoPlane(r.data)
    BY DEF FrameOk
  <2>5. c[1].v.id = "ANMF" /\ c[2].v = Info(r)
    BY <2>4, FrameChunkRead
  <2>6. part[j] = c /\ Len(part) = n
    <3>1. part[j] = c
      BY DEF FrameChunks
    <3>2. part = [l \in 1 .. n |-> part[l]]
      BY DEF FrameChunks
    <3> HIDE DEF part
    <3>3. QED
      BY <3>1, <3>2, FunctionList
  <2>7. Within(part, cs, s) /\ j \in 1 .. Len(part) /\ Len(part) \in Nat
    BY <2>6
  <2> HIDE DEF part, c, f, r
  <2>8. /\ Id(f, ids[s + j]) = "ANMF" /\ Payload(f, ids[s + j]) = Info(r)
        /\ ids[s + j] \in 1 .. Len(p) /\ Within(c, p, ids[s + j] - 1)
    <3>1. /\ Id(Written(p), ids[s + j]) = part[j][1].v.id /\ Payload(Written(p), ids[s + j]) = part[j][2].v
          /\ ids[s + j] \in 1 .. Len(p) /\ Within(part[j], p, ids[s + j] - 1)
      BY <2>7, ReadPart
    <3>2. QED
      BY <2>5, <2>6, <3>1 DEF f
  <2>9. d.ok /\ ~d.done /\ d.anim = t /\ d.frames = FramesGiven(fr, m)
    BY <2>1, PStateParts
  <2>10. PAfter(f, ids)[s + j] = ParseChunk(d, f, ids, s + j)
    <3>1. PICK i \in Nat : i = s + m /\ i >= 1 /\ i + 1 = s + j
      BY <2>2, <2>3
    <3>2. PAfter(f, ids)[i].ok /\ ~PAfter(f, ids)[i].done /\ PAfter(f, ids)[i] = d
      BY <2>2, <2>9, <3>1
    <3>3. PAfter(f, ids)[s + j] = ParseChunk(PAfter(f, ids)[i], f, ids, s + j)
      <4>1. PAfter(Written(p), ids)[i].ok /\ ~PAfter(Written(p), ids)[i].done
        BY <3>2 DEF f
      <4>2. s + j \in 1 .. Len(ids) /\ Len(ids) \in Nat
        BY <2>7, ReadPart
      <4>3. i \in 1 .. Len(ids) /\ i + 1 <= Len(ids) /\ i + 1 = s + j
        BY <3>1, <4>2
      <4>4. PAfter(Written(p), ids)[i + 1] = ParseChunk(PAfter(Written(p), ids)[i], Written(p), ids, i + 1)
        BY <4>1, <4>2, <4>3, ParseSteps
      <4>5. PAfter(Written(p), ids)[s + j] = ParseChunk(PAfter(Written(p), ids)[i], Written(p), ids, s + j)
        BY <4>3, <4>4
      <4>6. QED
        BY <4>5 DEF f
    <3>4. QED
      BY <3>2, <3>3
  <2>11. Len(d.frames) \in Nat /\ Len(d.frames) < MaxFrames
    <3>1. Len(d.frames) = m
      BY <2>2, <2>9, OneMore
    <3>2. QED
      BY <2>2, <3>1, MaxFramesAssumption
  <2>12. ParseFrame(f, ids[s + j]) = [ok |-> TRUE, frame |-> FrameGiven(r)]
    <3>1. Pieces(p)
      BY DEF Reads
    <3>2. PICK h \in 1 .. Len(p) : h = ids[s + j]
      BY <2>8
    <3>3. Within(writeANMFChunk(r), p, h - 1) /\ Payload(Written(p), h) = Info(r)
      BY <2>8, <3>2 DEF c, f
    <3>4. ParseFrame(Written(p), h) = [ok |-> TRUE, frame |-> FrameGiven(r)]
      BY <2>4, <3>1, <3>3, ParserReadsFrame
    <3>5. QED
      BY <3>2, <3>4 DEF f
  <2>13. PICK q : q = ParseFrame(f, ids[s + j]) /\ q.ok /\ q.frame = FrameGiven(r)
    BY <2>12
  <2>14. ParseChunk(d, f, ids, s + j) = AddTo(d, q.frame)
    BY <1>0, <2>8, <2>9, <2>11, <2>13 DEF ParseChunk
  <2>15. PICK fs : fs = FramesGiven(fr, m + 1) /\ fs = Append(d.frames, FrameGiven(r))
    <3>1. Append(FramesGiven(fr, m), FrameGiven(fr[m + 1])) = FramesGiven(fr, m + 1)
      BY <2>2, OneMore
    <3>2. QED
      BY <2>3, <2>9, <3>1 DEF r
  <2>16. AddTo(d, q.frame) = [d EXCEPT !.frames = fs]
    BY <2>13, <2>15 DEF AddTo
  <2>17. [d EXCEPT !.frames = fs] = PState(x, t, icc, Nil, Nil, bg, loop, fs)
    BY <2>1, PStateFrames
  <2>18. QED
    BY <2>3, <2>10, <2>14, <2>15, <2>16, <2>17
<1>3. n \in T
  <2>1. T \in SUBSET Nat
    OBVIOUS
  <2> HIDE DEF T
  <2>2. QED
    BY <1>1, <1>2, <2>1, CountUp
<1>4. PAfter(Written(p), ids)[s + n] = PState(x, t, icc, Nil, Nil, bg, loop, FramesGiven(fr, n))
  <2>1. n \in Nat /\ n <= n
    OBVIOUS
  <2>2. QED
    BY <1>3, <2>1
<1>5. QED
  BY <1>0, <1>4 DEF PAnimated

\* What the parser takes for the image from its chunks.
LEMMA ParserTakes ==
    ASSUME NEW x, IsFlags(x.flags), NEW icc, NEW d, NEW p,
           p = PBefore(x, icc),
           NEW has, has \in BOOLEAN, x.flags.alpha = has,
           NEW fs, fs = <<StillOf(d, d.w, d.h)>>
    PROVE  Taken(p, d, has, fs) = PTaken(x, icc, d)
<1>1. PICK t, z, g, w0, h0, m, o, none :
          t = TRUE /\ z = FALSE /\ g = x.flags /\ w0 = x.w + 1 /\ h0 = x.h + 1 /\ m = -1 /\ o = 1 /\ none = <<>>
  OBVIOUS
<1>2. p = [ok |-> t, done |-> z, anim |-> z, flags |-> g, w |-> w0, h |-> h0,
           icc |-> icc, exif |-> Nil, xmp |-> Nil, bgColor |-> m, loopCount |-> o, frames |-> none]
  BY <1>1 DEF PState, PBefore
<1>3. PICK w, h : w = d.w /\ h = d.h
  OBVIOUS
<1>4. PICK a : a = (g.alpha \/ has)
  OBVIOUS
<1>5. a = has
  BY <1>1, <1>4
<1>6. [g EXCEPT !.alpha = a] = g
  <2>1. g = [anim |-> g.anim, alpha |-> g.alpha, icc |-> g.icc, exif |-> g.exif, xmp |-> g.xmp]
    BY <1>1 DEF IsFlags
  <2>2. [g EXCEPT !.alpha = a] = [anim |-> g.anim, alpha |-> a, icc |-> g.icc, exif |-> g.exif, xmp |-> g.xmp]
    BY <2>1
  <2>3. g.alpha = a
    BY <1>1, <1>5
  <2>4. QED
    BY <2>1, <2>2, <2>3
<1>7. PICK p1 : p1 = [p EXCEPT !.w = w]
  OBVIOUS
<1>8. p1 = [ok |-> t, done |-> z, anim |-> z, flags |-> g, w |-> w, h |-> h0,
           icc |-> icc, exif |-> Nil, xmp |-> Nil, bgColor |-> m, loopCount |-> o, frames |-> none]
  BY <1>2, <1>7
<1>9. PICK p2 : p2 = [p1 EXCEPT !.h = h]
  OBVIOUS
<1>10. p2 = [ok |-> t, done |-> z, anim |-> z, flags |-> g, w |-> w, h |-> h,
           icc |-> icc, exif |-> Nil, xmp |-> Nil, bgColor |-> m, loopCount |-> o, frames |-> none]
  BY <1>8, <1>9
<1>11. PICK p3 : p3 = [p2 EXCEPT !.done = t]
  OBVIOUS
<1>12. p3 = [ok |-> t, done |-> t, anim |-> z, flags |-> g, w |-> w, h |-> h,
           icc |-> icc, exif |-> Nil, xmp |-> Nil, bgColor |-> m, loopCount |-> o, frames |-> none]
  BY <1>10, <1>11
<1>13. PICK p4 : p4 = [p3 EXCEPT !.flags = [g EXCEPT !.alpha = a]]
  OBVIOUS
<1>14. p4 = [ok |-> t, done |-> t, anim |-> z, flags |-> g, w |-> w, h |-> h,
           icc |-> icc, exif |-> Nil, xmp |-> Nil, bgColor |-> m, loopCount |-> o, frames |-> none]
  BY <1>6, <1>12, <1>13
<1>15. PICK p5 : p5 = [p4 EXCEPT !.frames = fs]
  OBVIOUS
<1>16. p5 = [ok |-> t, done |-> t, anim |-> z, flags |-> g, w |-> w, h |-> h,
           icc |-> icc, exif |-> Nil, xmp |-> Nil, bgColor |-> m, loopCount |-> o, frames |-> fs]
  BY <1>14, <1>15
<1>17. p3.flags = g
  BY <1>12
<1>18. [p EXCEPT !.w = w, !.h = h, !.done = t, !.flags.alpha = @ \/ has, !.frames = fs] = p5
  <2>1. p4 = [p3 EXCEPT !.flags.alpha = @ \/ has]
    BY <1>4, <1>13, <1>17
  <2>2. QED
    BY <1>7, <1>9, <1>11, <1>15, <2>1
<1>19. p5 = PTaken(x, icc, d)
  BY <1>1, <1>3, <1>16 DEF PTaken
<1>20. QED
  BY <1>1, <1>3, <1>18, <1>19 DEF Taken

\* From the first chunk of an image the parser takes the image with its plane.
LEMMA ParserTakesImage ==
    ASSUME NEW f, NEW ids, NEW d, ImageOk(d), NoPlane(d), NEW k, NEW i, Shown(f, ids, d, k, i),
           NEW x, IsFlags(x.flags), x.flags.alpha = HasAlphaOf(d), NEW icc, NEW p,
           p = PBefore(x, icc)
    PROVE  parseExtSingleImage(p, f, ids, k) = PTaken(x, icc, d)
<1> DEFINE first == FirstNot(f, ids, k, Len(ids))
           id == IF first > Len(ids) THEN "end" ELSE Id(f, ids[first])
           alph == IF first = k THEN Nil ELSE Payload(f, ids[first - 1])
           image == Payload(f, ids[first])
           has == IF id = "VP8L" THEN image.alpha ELSE alph # Nil
<1>0. /\ Len(ids) \in Nat /\ k \in Nat /\ i \in 1 .. Len(ids) /\ k >= 1 /\ i = k + Planes(d)
      /\ Id(f, ids[i]) = d.codec /\ Payload(f, ids[i]) = Raw(d)
      /\ d.alph # Nil => Id(f, ids[k]) = "ALPH" /\ Payload(f, ids[k]) = d.alph
  BY DEF Shown
<1>1. parseExtSingleImage(p, f, ids, k) =
        IF ~(id \in {"VP8", "VP8L"}) THEN Failed
        ELSE IF ~HasHeader(image) \/ (id = "VP8L" /\ alph # Nil) THEN Failed
        ELSE [p EXCEPT !.w = image.w, !.h = image.h, !.done = TRUE,
                       !.flags.alpha = @ \/ has,
                       !.frames = <<StillFrame(image.w, image.h, image, alph, has)>>]
  BY DEF parseExtSingleImage, FirstNot
<1>2. d.codec \in {"VP8", "VP8L"} /\ Planes(d) \in 0 .. 1
  BY ImageParts DEF Planes
<1>3. (d.alph # Nil => Planes(d) = 1) /\ (d.alph = Nil => Planes(d) = 0)
  BY DEF Planes
<1>4. first = i
  <2>1. i = k \/ i = k + 1
    BY <1>0, <1>2
  <2>2. i = k + 1 => Id(f, ids[k]) = "ALPH"
    BY <1>0, <1>3
  <2>3. Id(f, ids[i]) # "ALPH" /\ i \in Nat /\ i <= Len(ids) /\ k <= i
    BY <1>0, <1>2
  <2>4. QED
    BY <1>0, <2>1, <2>2, <2>3, FirstImage
<1> HIDE DEF first
<1>5. id = d.codec /\ image = Raw(d)
  BY <1>0, <1>4
<1>6. alph = d.alph
  <2>1. CASE d.alph = Nil
    BY <1>0, <1>3, <1>4, <2>1
  <2>2. CASE d.alph # Nil
    <3>1. i - 1 = k /\ i # k
      BY <1>0, <1>3, <2>2
    <3>2. QED
      BY <1>0, <1>4, <2>2, <3>1
  <2>3. QED
    BY <2>1, <2>2
<1> HIDE DEF id, alph, image
<1>7. image.w = d.w /\ image.h = d.h /\ image.alpha = d.alpha /\ HasHeader(image)
  BY <1>5, ImageParts DEF HasHeader
<1>8. has = HasAlphaOf(d) /\ has \in BOOLEAN
  <2>0. d.alpha \in BOOLEAN
    BY DEF ImageOk
  <2>1. CASE d.codec = "VP8L"
    <3>1. d.alph = Nil
      BY <2>1 DEF NoPlane
    <3>2. has = d.alpha
      BY <1>5, <1>7, <2>1
    <3>3. HasAlphaOf(d) = d.alpha
      BY <2>0, <2>1, <3>1 DEF HasAlphaOf, IsVP8L
    <3>4. QED
      BY <2>0, <3>2, <3>3
  <2>2. CASE d.codec # "VP8L"
    <3>1. has = (d.alph # Nil)
      BY <1>5, <1>6, <2>2
    <3>2. HasAlphaOf(d) = (d.alph # Nil)
      BY <2>2 DEF HasAlphaOf, IsVP8L
    <3>3. QED
      BY <3>1, <3>2
  <2>3. QED
    BY <2>1, <2>2
<1> HIDE DEF has
<1>9. PICK fs : fs = <<StillFrame(image.w, image.h, image, alph, has)>>
  OBVIOUS
<1>10. fs = <<StillOf(d, d.w, d.h)>>
  BY <1>5, <1>6, <1>7, <1>8, <1>9 DEF StillOf, HasAlphaOf
<1>11. ~(id = "VP8L" /\ alph # Nil)
  BY <1>5, <1>6 DEF NoPlane
<1>12. parseExtSingleImage(p, f, ids, k) = Taken(p, d, has, fs)
  BY <1>1, <1>2, <1>5, <1>7, <1>9, <1>11 DEF Taken
<1>13. /\ IsFlags(x.flags) /\ p = PBefore(x, icc)
       /\ has \in BOOLEAN /\ x.flags.alpha = has /\ fs = <<StillOf(d, d.w, d.h)>>
  BY <1>8, <1>10
<1>14. Taken(p, d, has, fs) = PTaken(x, icc, d)
  BY <1>13, ParserTakes, SMTT(30)
<1>15. QED
  BY <1>12, <1>14

\* The parser reaches the chunks in the middle of an extended file.
LEMMA ParseOpened ==
    ASSUME NEW x, NEW icc \in Nat \cup {Nil}, NEW exif \in Nat \cup {Nil}, NEW xmp \in Nat \cup {Nil},
           icc # Nil => x.flags.icc,
           NEW ms, IsList(ms), NEW p, NEW ids, NEW cs, cs = ExtList(x, icc, ms, exif, xmp), Reads(p, ids, cs)
    PROVE  \E i, m, e : Opened(Written(p), ids, cs, x, icc, ms, exif, xmp, i, m, e)
<1> DEFINE f == Written(p)
<1>1. PICK i, m, e :
          /\ i = 1 + Len(OptionalChunks("ICCP", icc)) /\ m = i + Len(ms) /\ e = m + Len(OptionalChunks("EXIF", exif))
          /\ i \in Nat /\ i >= 1 /\ m \in Nat /\ m >= i /\ e \in Nat /\ e >= m
          /\ Len(cs) = e + Len(OptionalChunks("XMP", xmp)) /\ Len(cs) >= e
          /\ Within(<<HeaderChunk(x)>>, cs, 0)
          /\ Within(OptionalChunks("ICCP", icc), cs, 1)
          /\ Within(ms, cs, i)
          /\ Within(OptionalChunks("EXIF", exif), cs, m)
          /\ Within(OptionalChunks("XMP", xmp), cs, e)
  <2>1. LET c == ExtList(x, icc, ms, exif, xmp)
            i == 1 + Len(OptionalChunks("ICCP", icc))
            m == i + Len(ms)
            e == m + Len(OptionalChunks("EXIF", exif))
        IN  /\ IsList(c) /\ Len(c) = e + Len(OptionalChunks("XMP", xmp))
            /\ i \in Nat /\ i >= 1 /\ m \in Nat /\ m >= i /\ e \in Nat /\ e >= m /\ Len(c) >= e
            /\ Within(<<HeaderChunk(x)>>, c, 0)
            /\ Within(OptionalChunks("ICCP", icc), c, 1)
            /\ Within(ms, c, i)
            /\ Within(OptionalChunks("EXIF", exif), c, m)
            /\ Within(OptionalChunks("XMP", xmp), c, e)
    BY ExtParts
  <2>2. PICK i : i = 1 + Len(OptionalChunks("ICCP", icc))
    OBVIOUS
  <2>3. PICK m : m = i + Len(ms)
    OBVIOUS
  <2>4. PICK e : e = m + Len(OptionalChunks("EXIF", exif))
    OBVIOUS
  <2>5. WITNESS i, m, e
  <2>6. QED
    BY <2>1, <2>2, <2>3, <2>4
<1>2. Len(ids) = Len(cs) /\ Len(ids) \in Nat /\ IsList(ids)
  BY ListParts DEF Reads
<1>3. ids[1] # 0 /\ Id(f, ids[1]) = "VP8X" /\ Payload(f, ids[1]) = x
  <2>1. PICK v : v = <<HeaderChunk(x)>> /\ Len(v) = 1 /\ v[1] = HeaderChunk(x)
    BY ShortLists
  <2>2. PICK j \in 1 .. Len(v) : j = 1
    BY <2>1
  <2>3. Within(v, cs, 0) /\ Len(v) \in Nat
    BY <1>1, <2>1
  <2>4. /\ ids[0 + j] # 0
        /\ Id(Written(p), ids[0 + j]) = v[j][1].v.id
        /\ Payload(Written(p), ids[0 + j]) = v[j][2].v
    BY <2>3, ReadPart
  <2>5. 0 + j = 1 /\ v[j] = HeaderChunk(x)
    BY <2>1, <2>2
  <2>6. QED
    BY <2>4, <2>5, HeaderRead
<1> HIDE DEF f
<1>4. PAfter(f, ids)[1] = PBefore(x, Nil)
  <2>1. 1 <= Len(ids)
    BY <1>1, <1>2
  <2>2. PAfter(f, ids)[1] = PStart(f, ids)
    BY <1>2, <2>1, ParseSteps
  <2>3. QED
    BY <1>3, <2>2 DEF PStart, PBefore
<1>5. PAfter(f, ids)[i] = PBefore(x, icc)
  <2>1. PICK s \in Nat : s = 1
    OBVIOUS
  <2>0. PICK z, bg, o, none : z = FALSE /\ bg = -1 /\ o = 1 /\ none = <<>>
    OBVIOUS
  <2>2. PAfter(Written(p), ids)[s] = PState(x, z, Nil, Nil, Nil, bg, o, none)
    BY <1>4, <2>0, <2>1 DEF f, PBefore
  <2>3. s >= 1 /\ Within(OptionalChunks("ICCP", icc), cs, s) /\ i = s + Len(OptionalChunks("ICCP", icc))
    BY <1>1, <2>1
  <2>4. PAfter(Written(p), ids)[i] = PState(x, z, icc, Nil, Nil, bg, o, none)
    BY <2>2, <2>3, ParseMetadata
  <2>5. QED
    BY <2>0, <2>4 DEF f, PBefore
<1>6. ids # <<>>
  BY <1>1, <1>2, EmptyList
<1>7. Opened(f, ids, cs, x, icc, ms, exif, xmp, i, m, e)
  BY <1>1, <1>2, <1>3, <1>5, <1>6 DEF Opened
<1>8. QED
  BY <1>7 DEF f

\* Once it has taken a still image the parser reads no further.
LEMMA ParseStays ==
    ASSUME NEW f, NEW ids, Len(ids) \in Nat, NEW k \in 1 .. Len(ids), PAfter(f, ids)[k].done
    PROVE  PAfter(f, ids)[Len(ids)] = PAfter(f, ids)[k]
<1> DEFINE T == {m \in Nat : k + m <= Len(ids) => PAfter(f, ids)[k + m] = PAfter(f, ids)[k]}
<1>1. 0 \in T
  OBVIOUS
<1>2. ASSUME NEW m \in T PROVE m + 1 \in T
  <2> SUFFICES ASSUME k + (m + 1) <= Len(ids) PROVE PAfter(f, ids)[k + (m + 1)] = PAfter(f, ids)[k]
    OBVIOUS
  <2>1. PICK j \in 1 .. Len(ids) : j = k + m /\ j + 1 = k + (m + 1) /\ j + 1 <= Len(ids)
    OBVIOUS
  <2>2. PAfter(f, ids)[j] = PAfter(f, ids)[k]
    BY <2>1
  <2>3. PAfter(f, ids)[j + 1] = PAfter(f, ids)[j]
    BY <2>1, <2>2, ParseSteps
  <2>4. QED
    BY <2>1, <2>2, <2>3
<1>3. PICK n \in Nat : k + n = Len(ids)
  OBVIOUS
<1>4. n \in T
  <2>1. T \in SUBSET Nat
    OBVIOUS
  <2> HIDE DEF T
  <2>2. QED
    BY <1>1, <1>2, <2>1, CountUp
<1>5. k + n <= Len(ids)
  BY <1>3
<1>6. QED
  BY <1>3, <1>4, <1>5

\* The frames of an animation, after its ANIM chunk.
LEMMA ParseAnimated ==
    ASSUME NEW p, NEW ids, NEW cs, Reads(p, ids, cs), NEW s \in Nat, s >= 1,
           NEW x, NEW icc, NEW bg, NEW loop, PAfter(Written(p), ids)[s] = PBefore(x, icc),
           NEW fr, NEW n \in Nat, n <= MaxFrames, \A j \in 1 .. n : FrameOk(fr[j]) /\ NoPlane(fr[j].data),
           NEW ms, ms = AnimList(bg, loop, fr, n), Within(ms, cs, s), NEW e, e = s + Len(ms)
    PROVE  PAfter(Written(p), ids)[e] = PAnimated(x, icc, bg, loop, FramesGiven(fr, n))
<1>1. PICK a : a = <<AnimChunk(bg, loop)>> /\ IsList(a) /\ Len(a) = 1
  BY ShortLists
<1>2. PICK b : b = FrameChunks(fr, n) /\ IsList(b) /\ Len(b) = n
  <2>1. \A j \in 1 .. n : ImageOk(fr[j].data)
    BY DEF FrameOk
  <2>2. QED
    BY <2>1, AnimChunked
<1>3. ms = a \o b
  BY <1>1, <1>2 DEF AnimList
<1>4. /\ Len(ms) = 1 + n /\ IsList(ms) /\ Within(a, ms, 0) /\ Within(b, ms, 1)
  BY <1>1, <1>2, <1>3, PartJoined
<1>5. Len(cs) \in Nat
  BY ListParts DEF Reads
<1>6. Within(a, cs, s + 0) /\ Within(b, cs, s + 1)
  <2>1. Len(a) \in Nat /\ Len(b) \in Nat /\ Len(ms) \in Nat
    BY <1>1, <1>2, <1>4
  <2>2. QED
    BY <1>4, <1>5, <2>1, WithinTwice
<1>7. PAfter(Written(p), ids)[s + 1] = PAnimated(x, icc, bg, loop, <<>>)
  <2>1. s + 0 = s /\ Within(<<AnimChunk(bg, loop)>>, cs, s)
    BY <1>1, <1>6
  <2>2. PICK z, m, o, none : z = FALSE /\ m = -1 /\ o = 1 /\ none = <<>>
    OBVIOUS
  <2>3. PAfter(Written(p), ids)[s] = PState(x, z, icc, Nil, Nil, m, o, none)
    BY <2>2 DEF PBefore
  <2>4. PAfter(Written(p), ids)[s + 1] = PAnimated(x, icc, bg, loop, none)
    BY <2>1, <2>3, ParseAnim
  <2>5. QED
    BY <2>2, <2>4
<1>8. PICK t \in Nat : t = s + 1 /\ t >= 1
  OBVIOUS
<1>9. PAfter(Written(p), ids)[t + n] = PAnimated(x, icc, bg, loop, FramesGiven(fr, n))
  <2>1. PAfter(Written(p), ids)[t] = PAnimated(x, icc, bg, loop, <<>>)
    BY <1>7, <1>8
  <2>2. Within(FrameChunks(fr, n), cs, t)
    BY <1>2, <1>6, <1>8
  <2>3. QED
    BY <1>8, <2>1, <2>2, ParseFrames
<1>10. t + n = e
  BY <1>4, <1>8
<1>11. QED
  BY <1>9, <1>10

\* The parser over the chunks of a still image.
LEMMA ParseImage ==
    ASSUME NEW p, NEW ids, NEW cs, Reads(p, ids, cs), NEW s \in Nat, s >= 1,
           NEW x, ~x.flags.anim, IsFlags(x.flags), NEW d, ImageOk(d), NoPlane(d), x.flags.alpha = HasAlphaOf(d),
           NEW icc, PAfter(Written(p), ids)[s] = PBefore(x, icc),
           Within(SubList(d), cs, s)
    PROVE  PAfter(Written(p), ids)[Len(ids)] = PTaken(x, icc, d)
<1> DEFINE f == Written(p)
           part == SubList(d)
<1>1. /\ Len(part) = Planes(d) + 1 /\ Planes(d) \in 0 .. 1
      /\ part[Planes(d) + 1][1].v.id = d.codec
      /\ part[Planes(d) + 1][2].v = Raw(d)
      /\ d.alph # Nil => part[1][1].v.id = "ALPH" /\ part[1][2].v = d.alph
  BY ImageChunks
<1> HIDE DEF part, f
<1>2. Within(part, cs, s) /\ Len(part) \in Nat
  BY <1>1 DEF part
<1>3. (d.alph # Nil => Planes(d) = 1) /\ (d.alph = Nil => Planes(d) = 0)
  BY DEF Planes
<1>4. PICK k \in Nat, i \in 1 .. Len(ids) :
          /\ k = s + 1 /\ i = k + Planes(d) /\ Len(ids) \in Nat /\ k \in 1 .. Len(ids)
          /\ Id(f, ids[i]) = d.codec /\ Payload(f, ids[i]) = Raw(d)
          /\ d.alph # Nil => Id(f, ids[k]) = "ALPH" /\ Payload(f, ids[k]) = d.alph
  <2>1. PICK j \in 1 .. Len(part), l \in 1 .. Len(part) : j = Planes(d) + 1 /\ l = 1
    BY <1>1
  <2>2. /\ s + j \in 1 .. Len(ids) /\ Len(ids) \in Nat
        /\ Id(Written(p), ids[s + j]) = part[j][1].v.id /\ Payload(Written(p), ids[s + j]) = part[j][2].v
    BY <1>2, ReadPart
  <2>3. /\ s + l \in 1 .. Len(ids)
        /\ Id(Written(p), ids[s + l]) = part[l][1].v.id /\ Payload(Written(p), ids[s + l]) = part[l][2].v
    BY <1>2, ReadPart
  <2>4. Id(f, ids[s + j]) = d.codec /\ Payload(f, ids[s + j]) = Raw(d)
    BY <1>1, <2>1, <2>2 DEF f
  <2>5. d.alph # Nil => Id(f, ids[s + l]) = "ALPH" /\ Payload(f, ids[s + l]) = d.alph
    BY <1>1, <2>1, <2>3 DEF f
  <2>6. s + j = (s + l) + Planes(d) /\ s + l = s + 1 /\ s + l \in Nat
    BY <1>1, <2>1
  <2>7. QED
    BY <2>2, <2>3, <2>4, <2>5, <2>6
<1>5. d.codec \in {"VP8", "VP8L"}
  BY ImageParts
<1>6. PICK a : a = PBefore(x, icc)
  OBVIOUS
<1>7. PAfter(f, ids)[s] = a /\ a.ok /\ ~a.done /\ ~a.anim /\ a.flags = x.flags
  BY <1>6 DEF f, PBefore, PState
<1>8. ParseChunk(a, f, ids, k) = PTaken(x, icc, d)
  <2>1. parseExtSingleImage(a, f, ids, k) = PTaken(x, icc, d)
    <3>1. Shown(f, ids, d, k, i)
      BY <1>4 DEF Shown
    <3>2. ImageOk(d) /\ NoPlane(d) /\ IsFlags(x.flags) /\ x.flags.alpha = HasAlphaOf(d) /\ a = PBefore(x, icc)
      BY <1>6
    <3>3. QED
      BY <3>1, <3>2, ParserTakesImage
  <2>2. Id(f, ids[k]) \in {"VP8", "VP8L", "ALPH"}
    <3>1. CASE d.alph = Nil
      <4>1. k = i
        BY <1>3, <1>4, <3>1
      <4>2. QED
        BY <1>4, <1>5, <4>1
    <3>2. CASE d.alph # Nil
      BY <1>4, <3>2
    <3>3. QED
      BY <3>1, <3>2
  <2>3. ~a.flags.anim
    BY <1>7
  <2>4. ParseChunk(a, f, ids, k) = parseExtSingleImage(a, f, ids, k)
    BY <1>7, <2>2, <2>3 DEF ParseChunk
  <2>5. QED
    BY <2>1, <2>4
<1>9. PAfter(f, ids)[k] = PTaken(x, icc, d)
  <2>1. s \in 1 .. Len(ids) /\ s + 1 <= Len(ids)
    BY <1>4
  <2>2. PAfter(f, ids)[s + 1] = ParseChunk(a, f, ids, s + 1)
    BY <1>4, <1>7, <2>1, ParseSteps
  <2>3. QED
    BY <1>4, <1>8, <2>2
<1>10. PTaken(x, icc, d).done
  BY DEF PTaken
<1>11. PAfter(f, ids)[Len(ids)] = PAfter(f, ids)[k]
  BY <1>4, <1>9, <1>10, ParseStays
<1>12. QED
  BY <1>9, <1>11 DEF f

\* What the parser reads in a whole extended file.
LEMMA ParseExtFile ==
    ASSUME NEW x, Parsed(x), NEW icc \in Nat \cup {Nil}, NEW exif \in Nat \cup {Nil}, NEW xmp \in Nat \cup {Nil},
           icc # Nil => x.flags.icc, NEW m, NEW ms, Chunked(m, ms),
           NEW f, f = Written(ExtFile(x, icc, m, exif, xmp)), NEW bytes, bytes = Bytes(f)
    PROVE  ExtParsed(f, bytes, x, icc, ms, exif, xmp)
<1>1. PICK body, cs : body = ExtBody(x, icc, m, exif, xmp) /\ cs = ExtList(x, icc, ms, exif, xmp)
  OBVIOUS
<1>2. Chunked(body, cs)
  BY <1>1, ExtChunked
<1>3. PICK p, size : size = 4 + Size(body) /\ p = FilePieces(size, body)
  OBVIOUS
<1>4. PICK pad, ids : pad = TRUE /\ ids = Walk(f, RIFFHeaderSize, PayloadEnd(f, bytes), pad)
  OBVIOUS
<1>5. Reads(p, ids, cs) /\ bytes >= RIFFHeaderSize /\ bytes \in Nat
  <2>1. size = 4 + Size(body) /\ f = Written(FilePieces(size, body))
    BY <1>1, <1>3 DEF ExtFile
  <2>2. /\ Reads(FilePieces(size, body), Walk(f, RIFFHeaderSize, PayloadEnd(f, bytes), pad), cs)
        /\ bytes >= RIFFHeaderSize /\ bytes \in Nat
    BY <1>2, <1>3, <2>1, FileRead
  <2>3. QED
    BY <1>3, <1>4, <2>2
<1>6. Written(p) = f
  BY <1>1, <1>3 DEF ExtFile
<1>7. PICK i, j, e : Opened(f, ids, cs, x, icc, ms, exif, xmp, i, j, e)
  <2>1. IsList(ms)
    BY DEF Chunked
  <2>2. \E i, j, e : Opened(Written(p), ids, cs, x, icc, ms, exif, xmp, i, j, e)
    BY <1>1, <1>5, <2>1, ParseOpened
  <2>3. QED
    BY <1>6, <2>2
<1>8. ids # <<>> /\ ids[1] # 0 /\ Id(f, ids[1]) = "VP8X" /\ Payload(f, ids[1]) = x
  BY <1>7 DEF Opened
<1>9. ~(bytes < RIFFHeaderSize)
  BY <1>5 DEF RIFFHeaderSize
<1>10. Parse(f, bytes) = ParseVP8X(f, ids)
  BY <1>4, <1>8, <1>9 DEF Parse
<1>11. ParseVP8X(f, ids) = PAfter(f, ids)[Len(ids)]
  BY <1>8, ParseLast DEF Parsed
<1>12. QED
  BY <1>1, <1>5, <1>6, <1>7, <1>10, <1>11 DEF ExtParsed

LEMMA AnimationParsed ==
    ASSUME NEW fr, NEW n \in Nat, n <= MaxFrames, \A j \in 1 .. n : FrameOk(fr[j]) /\ NoPlane(fr[j].data),
           NEW icc \in Nat \cup {Nil}, NEW exif \in Nat \cup {Nil}, NEW xmp \in Nat \cup {Nil},
           NEW x, Parsed(x), icc # Nil => x.flags.icc, exif # Nil => x.flags.exif, xmp # Nil => x.flags.xmp,
           NEW bg, NEW loop,
           NEW f, f = Written(ExtFile(x, icc, AnimPieces(bg, loop, fr, n), exif, xmp)),
           NEW bytes, bytes = Bytes(f)
    PROVE  Parse(f, bytes) = PWhole(x, icc, exif, xmp, bg, loop, FramesGiven(fr, n))
<1>1. \A j \in 1 .. n : ImageOk(fr[j].data)
  BY DEF FrameOk
<1>2. PICK m, ms : m = AnimPieces(bg, loop, fr, n) /\ ms = AnimList(bg, loop, fr, n) /\ Chunked(m, ms)
  BY <1>1, AnimChunked
<1>4. PICK p, ids, cs, i, j, e :
          /\ f = Written(p) /\ cs = ExtList(x, icc, ms, exif, xmp) /\ Reads(p, ids, cs)
          /\ Opened(f, ids, cs, x, icc, ms, exif, xmp, i, j, e)
          /\ Parse(f, bytes) = PAfter(f, ids)[Len(ids)]
  <2>1. f = Written(ExtFile(x, icc, m, exif, xmp)) /\ bytes = Bytes(f) /\ Chunked(m, ms) /\ Parsed(x)
        /\ (icc # Nil => x.flags.icc)
    BY <1>2
  <2>2. ExtParsed(f, bytes, x, icc, ms, exif, xmp)
    BY <2>1, ParseExtFile
  <2>3. QED
    BY <2>2 DEF ExtParsed
<1>5. /\ i \in Nat /\ i >= 1 /\ j = i + Len(ms) /\ j \in Nat /\ j >= i
      /\ e = j + Len(OptionalChunks("EXIF", exif)) /\ e \in Nat /\ e >= j
      /\ Len(ids) = e + Len(OptionalChunks("XMP", xmp))
      /\ Within(ms, cs, i) /\ Within(OptionalChunks("EXIF", exif), cs, j) /\ Within(OptionalChunks("XMP", xmp), cs, e)
      /\ PAfter(f, ids)[i] = PBefore(x, icc)
  BY <1>4 DEF Opened
<1>6. PICK t, fs : t = TRUE /\ fs = FramesGiven(fr, n)
  OBVIOUS
<1>7. PAfter(Written(p), ids)[j] = PState(x, t, icc, Nil, Nil, bg, loop, fs)
  <2>1. PAfter(Written(p), ids)[i] = PBefore(x, icc)
    BY <1>4, <1>5
  <2>2. PAfter(Written(p), ids)[j] = PAnimated(x, icc, bg, loop, FramesGiven(fr, n))
    BY <1>2, <1>4, <1>5, <2>1, ParseAnimated
  <2>3. QED
    BY <1>6, <2>2 DEF PAnimated
<1>8. PAfter(Written(p), ids)[e] = PState(x, t, icc, exif, Nil, bg, loop, fs)
  <2>1. /\ Reads(p, ids, cs) /\ j >= 1 /\ Within(OptionalChunks("EXIF", exif), cs, j)
        /\ e = j + Len(OptionalChunks("EXIF", exif)) /\ (exif # Nil => x.flags.exif)
    BY <1>4, <1>5
  <2>2. QED
    BY <1>5, <1>7, <2>1, ParseMetadata
<1>9. PAfter(Written(p), ids)[Len(ids)] = PState(x, t, icc, exif, xmp, bg, loop, fs)
  <2>1. /\ Reads(p, ids, cs) /\ e >= 1 /\ Within(OptionalChunks("XMP", xmp), cs, e)
        /\ Len(ids) = e + Len(OptionalChunks("XMP", xmp)) /\ (xmp # Nil => x.flags.xmp)
    BY <1>4, <1>5
  <2>2. QED
    BY <1>5, <1>8, <2>1, ParseMetadata
<1>10. QED
  BY <1>4, <1>6, <1>9 DEF PWhole

\* The parser on a still image of an extended file,
LEMMA StillParsed ==
    ASSUME NEW d, ImageOk(d), NoPlane(d),
           NEW icc \in Nat \cup {Nil}, NEW exif \in Nat \cup {Nil}, NEW xmp \in Nat \cup {Nil},
           NEW x, Parsed(x), IsFlags(x.flags), ~x.flags.anim, x.flags.alpha = HasAlphaOf(d), icc # Nil => x.flags.icc,
           NEW f, f = Written(ExtFile(x, icc, SubPieces(d), exif, xmp)),
           NEW bytes, bytes = Bytes(f)
    PROVE  Parse(f, bytes) = PTaken(x, icc, d)
<1>1. PICK m, ms : m = SubPieces(d) /\ ms = SubList(d) /\ Chunked(m, ms)
  BY ImageChunks
<1>3. PICK p, ids, cs, i, j, e :
          /\ f = Written(p) /\ cs = ExtList(x, icc, ms, exif, xmp) /\ Reads(p, ids, cs)
          /\ Opened(f, ids, cs, x, icc, ms, exif, xmp, i, j, e)
          /\ Parse(f, bytes) = PAfter(f, ids)[Len(ids)]
  <2>1. f = Written(ExtFile(x, icc, m, exif, xmp)) /\ bytes = Bytes(f) /\ Chunked(m, ms) /\ Parsed(x)
        /\ (icc # Nil => x.flags.icc)
    BY <1>1
  <2>2. ExtParsed(f, bytes, x, icc, ms, exif, xmp)
    BY <2>1, ParseExtFile
  <2>3. QED
    BY <2>2 DEF ExtParsed
<1>4. i \in Nat /\ i >= 1 /\ Within(ms, cs, i) /\ PAfter(f, ids)[i] = PBefore(x, icc)
  BY <1>3 DEF Opened
<1>5. PAfter(Written(p), ids)[Len(ids)] = PTaken(x, icc, d)
  <2>1. /\ Reads(p, ids, cs) /\ i >= 1 /\ PAfter(Written(p), ids)[i] = PBefore(x, icc)
        /\ Within(SubList(d), cs, i) /\ ~x.flags.anim /\ IsFlags(x.flags)
        /\ ImageOk(d) /\ NoPlane(d) /\ x.flags.alpha = HasAlphaOf(d)
    BY <1>1, <1>3, <1>4
  <2>2. QED
    BY <1>4, <2>1, ParseImage
<1>6. QED
  BY <1>3, <1>5

\* and of the one chunk of a simple file,
LEMMA ParseOneImage ==
    ASSUME NEW d, ImageOk(d), d.alph = Nil, NEW f, NEW i, Id(f, i) = d.codec, Payload(f, i) = Raw(d)
    PROVE  ParseSingleImage(f, i) = SimpleState(d) /\ Id(f, i) # "VP8X"
<1>1. Id(f, i) # "VP8X"
  BY ImageParts
<1>2. PICK r, has : r = Raw(d) /\ has = (IsVP8L(d) /\ d.alpha)
  OBVIOUS
<1>3. HasHeader(r) /\ (IsVP8L(r) /\ r.alpha) = has /\ r.w = d.w /\ r.h = d.h
  BY <1>2, PlainImage, ImageParts
<1>4. ParseSingleImage(f, i) =
          [ok |-> TRUE, flags |-> SimpleFlags(has), w |-> r.w, h |-> r.h,
           icc |-> Nil, exif |-> Nil, xmp |-> Nil, bgColor |-> 0, loopCount |-> 0,
           frames |-> <<StillFrame(r.w, r.h, r, Nil, has)>>]
  BY <1>2, <1>3 DEF ParseSingleImage
<1>5. StillFrame(r.w, r.h, r, Nil, has) = StillGiven(d)
  BY <1>2, <1>3, PlainImage
<1>6. QED
  BY <1>1, <1>2, <1>3, <1>4, <1>5 DEF SimpleState

\* so of a whole one.
LEMMA SimpleParsed ==
    ASSUME NEW d, ImageOk(d), d.alph = Nil, NEW f, f = Written(SimpleFile(d)), NEW bytes, bytes = Bytes(f)
    PROVE  Parse(f, bytes) = SimpleState(d)
<1>1. PICK pad, ids : pad = TRUE /\ ids = Walk(f, RIFFHeaderSize, PayloadEnd(f, bytes), pad)
  OBVIOUS
<1>2. /\ ids # <<>> /\ ids[1] # 0 /\ Id(f, ids[1]) = d.codec /\ Payload(f, ids[1]) = Raw(d)
      /\ ~(bytes < RIFFHeaderSize)
  <2>1. ids = Walk(f, RIFFHeaderSize, PayloadEnd(f, bytes), pad)
    BY <1>1
  <2>2. QED
    BY <2>1, SimpleRead
<1>3. ParseSingleImage(f, ids[1]) = SimpleState(d) /\ Id(f, ids[1]) # "VP8X"
  BY <1>2, ParseOneImage
<1>4. Parse(f, bytes) = ParseSingleImage(f, ids[1])
  BY <1>1, <1>2, <1>3 DEF Parse
<1>5. QED
  BY <1>3, <1>4

(***************************************************************************)
(* The two readers together                                                 *)
(***************************************************************************)

\* The demuxer and the parser agree on a simple file,
LEMMA AgreeSimple ==
    ASSUME NEW d, NEW a, a = SimpleState(d), NEW b, b = SimpleState(d)
    PROVE  Agree(a, b)
<1>1. b = a /\ a.ok
  BY DEF SimpleState
<1>2. QED
  BY <1>1 DEF Agree

\* on an animation,
LEMMA AgreeAnimated ==
    ASSUME NEW x, NEW icc, NEW exif, NEW xmp, NEW bg, NEW loop, NEW fs,
           NEW a, a = DState(x, icc, exif, xmp, bg, loop, fs),
           NEW b, b = PWhole(x, icc, exif, xmp, bg, loop, fs)
    PROVE  Agree(a, b)
<1>1. /\ a.flags = x.flags /\ a.frames = fs /\ a.w = x.w + 1 /\ a.h = x.h + 1
      /\ a.icc = icc /\ a.exif = exif /\ a.xmp = xmp /\ a.bgColor = bg /\ a.loopCount = loop
  BY DEF DState
<1>2. /\ b.ok /\ b.flags = x.flags /\ b.frames = fs /\ b.w = x.w + 1 /\ b.h = x.h + 1
      /\ b.icc = icc /\ b.exif = exif /\ b.xmp = xmp /\ b.bgColor = bg /\ b.loopCount = loop
  BY DEF PWhole, PState
<1>3. QED
  BY <1>1, <1>2 DEF Agree

\* and on a still image of an extended file.
LEMMA AgreeStill ==
    ASSUME NEW d, NEW x, ~x.flags.anim, x.w + 1 = d.w, x.h + 1 = d.h,
           NEW icc, NEW exif, NEW xmp,
           NEW a, a = DState(x, icc, exif, xmp, 0, 0, <<StillOf(d, d.w, d.h)>>),
           NEW b, b = PTaken(x, icc, d)
    PROVE  Agree(a, b)
<1>1. /\ a.flags = x.flags /\ a.frames = <<StillOf(d, d.w, d.h)>> /\ a.w = x.w + 1 /\ a.h = x.h + 1
      /\ a.icc = icc
  BY DEF DState
<1>2. /\ b.ok /\ b.flags = x.flags /\ b.frames = <<StillOf(d, d.w, d.h)>> /\ b.w = d.w /\ b.h = d.h
      /\ b.icc = icc
  BY DEF PTaken
<1>3. QED
  BY <1>1, <1>2 DEF Agree

\* A file of the Muxer is read right, whatever the Muxer holds when it assembles it.
LEMMA MuxerReads ==
    ASSUME MuxerOk, validate, Carried,
           NEW f, f = Written(IF needsVP8X THEN assembleExtended ELSE assembleSimple), NEW bytes, bytes = Bytes(f),
           NEW g, g = MuxerGiven
    PROVE  ReadRight(f, bytes, g)
<1>1. PICK n \in Nat : n = Len(frames) /\ DOMAIN frames = 1 .. n /\ n >= 1 /\ n <= MaxFrames
  <2>1. Len(frames) \in Nat /\ DOMAIN frames = 1 .. Len(frames) /\ IsList(frames) /\ Len(frames) <= MaxFrames
    BY ListParts DEF MuxerOk
  <2>2. frames # <<>>
    BY DEF validate
  <2>3. Len(frames) # 0
    BY <2>1, <2>2, EmptyList, SameList
  <2>4. Len(frames) >= 1
    BY <2>1, <2>3
  <2>5. QED
    BY <2>1, <2>4
<1>2. PICK d : d = frames[1].data /\ ImageOk(d)
  BY <1>1 DEF MuxerOk, FrameOk
<1>3. PICK cw \in 1 .. MaxCanvasSize, ch \in 1 .. MaxCanvasSize :
          cw = canvasSize[1] /\ ch = canvasSize[2] /\ canvasSize = <<cw, ch>>
  BY CanvasOk DEF Pair
<1>4. PICK x : x = AssembledX /\ x.flags = AssembledFlags /\ x.w + 1 = cw /\ x.h + 1 = ch
  BY <1>3, ExtendedParts DEF AssembledX
<1>5. g = MuxerGiven /\ f = Written(IF needsVP8X THEN assembleExtended ELSE assembleSimple)
  OBVIOUS
<1>6. PICK icc \in Nat \cup {Nil}, exif \in Nat \cup {Nil}, xmp \in Nat \cup {Nil} :
          icc = iccData /\ exif = exifData /\ xmp = xmpData
  BY DEF MuxerOk, Metadatum
<1>7. /\ g.size = <<cw, ch>> /\ g.anim = isAnimated
      /\ g.icc = icc /\ g.exif = exif /\ g.xmp = xmp
      /\ g.bgColor = bgColor /\ g.loopCount = loopCount
      /\ g.frames = IF isAnimated THEN [i \in DOMAIN frames |-> FrameGiven(frames[i])]
                        ELSE <<StillGiven(d)>>
  BY <1>2, <1>3, <1>5, <1>6 DEF MuxerGiven
<1>8. x.flags.anim = isAnimated /\ x.flags.alpha = hasAlpha
  BY <1>4 DEF AssembledFlags
<1>11. ParsableOf(g) => Parsed(x)
  <2>1. g.size[1] = cw /\ g.size[2] = ch
    BY <1>7
  <2>2. cw * ch \in Nat /\ MaxImageArea \in Nat
    <3>1. PICK a \in Nat, b \in Nat : a = cw /\ b = ch
      BY MaxNat
    <3>2. a * b \in Nat
      OBVIOUS
    <3>3. QED
      BY <3>1, <3>2, MaxNat
  <2>3. QED
    BY <1>4, <2>1, <2>2 DEF ParsableOf, Parsed
<1>12. IsFlags(x.flags) /\ (icc # Nil => x.flags.icc) /\ (exif # Nil => x.flags.exif) /\ (xmp # Nil => x.flags.xmp)
  <2>1. PICK a1, a2, a3, a4, a5 :
            a1 = isAnimated /\ a2 = hasAlpha /\ a3 = (icc # Nil) /\ a4 = (exif # Nil) /\ a5 = (xmp # Nil)
    OBVIOUS
  <2>2. x.flags = [anim |-> a1, alpha |-> a2, icc |-> a3, exif |-> a4, xmp |-> a5]
    BY <1>4, <1>6, <2>1 DEF AssembledFlags
  <2>3. IsFlags(x.flags) /\ x.flags.icc = a3 /\ x.flags.exif = a4 /\ x.flags.xmp = a5
    BY <2>2 DEF IsFlags
  <2>4. QED
    BY <2>1, <2>3
<1>9. CASE isAnimated
  <2>1. needsVP8X
    BY <1>9 DEF needsVP8X
  <2>3. f = Written(ExtFile(x, icc, AnimPieces(bgColor, loopCount, frames, n), exif, xmp))
    BY <1>1, <1>4, <1>5, <1>6, <1>9, <2>1, AnimatedShape
  <2>4. \A j \in 1 .. n : FrameOk(frames[j])
    BY <1>1 DEF MuxerOk
  <2>5. PICK fr, bg, loop : fr = frames /\ bg = bgColor /\ loop = loopCount
    OBVIOUS
  <2>6. Demux(f, bytes) = DState(x, icc, exif, xmp, bg, loop, FramesGiven(fr, n))
    <3>1. /\ f = Written(ExtFile(x, icc, AnimPieces(bg, loop, fr, n), exif, xmp))
          /\ \A j \in 1 .. n : FrameOk(fr[j])
          /\ n >= 1 /\ n <= MaxFrames /\ bytes = Bytes(f)
      BY <1>1, <2>3, <2>4, <2>5
    <3>2. QED
      BY <3>1, AnimationRead
  <2>7. FramesGiven(fr, n) = g.frames
    BY <1>1, <1>7, <1>9, <2>5 DEF FramesGiven
  <2>8. PICK r : r = Demux(f, bytes)
    OBVIOUS
  <2>9. /\ r.ok /\ r.flags = x.flags /\ r.frames = g.frames /\ r.w = cw /\ r.h = ch
        /\ r.icc = icc /\ r.exif = exif /\ r.xmp = xmp /\ r.bgColor = bg /\ r.loopCount = loop
    BY <1>4, <2>6, <2>7, <2>8, DStateParts
  <2>10. hasAlpha <=> \E i \in DOMAIN g.frames : g.frames[i].hasAlpha
    <3>1. g.frames = [i \in DOMAIN frames |-> FrameGiven(frames[i])]
      BY <1>7, <1>9
    <3>2. \A i \in DOMAIN frames :
              FrameGiven(frames[i]).hasAlpha =
                  (frames[i].data.alph # Nil \/ (IsVP8L(frames[i].data) /\ frames[i].data.alpha))
      BY DEF FrameGiven
    <3>3. hasAlpha <=> \E i \in DOMAIN frames : FrameGiven(frames[i]).hasAlpha
      BY <3>2 DEF hasAlpha
    <3>4. DOMAIN g.frames = DOMAIN frames /\ \A i \in DOMAIN frames : g.frames[i] = FrameGiven(frames[i])
      BY <3>1
    <3>5. QED
      BY <3>3, <3>4
  <2>11. SaysOf(r, g)
    <3>1. r.flags.anim = g.anim
      BY <1>7, <1>8, <2>9
    <3>2. r.flags.alpha = (\E i \in DOMAIN g.frames : g.frames[i].hasAlpha)
      <4>1. r.flags.alpha = hasAlpha
        BY <1>8, <2>9
      <4>2. hasAlpha \in BOOLEAN
        BY DEF hasAlpha
      <4>3. QED
        BY <2>10, <4>1, <4>2
    <3>3. r.ok /\ <<r.w, r.h>> = g.size /\ r.frames = g.frames
          /\ <<r.icc, r.exif, r.xmp>> = <<g.icc, g.exif, g.xmp>>
          /\ <<r.bgColor, r.loopCount>> = <<g.bgColor, g.loopCount>>
      BY <1>7, <2>5, <2>9
    <3>4. QED
      BY <3>1, <3>2, <3>3 DEF SaysOf
  <2>12. ParsableOf(g) => Agree(r, Parse(f, bytes))
    <3> SUFFICES ASSUME ParsableOf(g) PROVE Agree(r, Parse(f, bytes))
      OBVIOUS
    <3>1. \A j \in 1 .. n : FrameOk(fr[j]) /\ NoPlane(fr[j].data)
      <4> TAKE j \in 1 .. n
      <4>1. FrameOk(fr[j])
        BY <2>4, <2>5
      <4>2. g.frames[j] = FrameGiven(fr[j]) /\ j \in DOMAIN g.frames
        BY <1>1, <1>7, <1>9, <2>5
      <4>3. g.frames[j].data.codec = "VP8L" => g.frames[j].alph = Nil
        BY <4>2 DEF ParsableOf
      <4>8. PICK a, d1, e1 : a = FrameGiven(fr[j]) /\ d1 = fr[j].data /\ e1 = Raw(d1)
        OBVIOUS
      <4>4. a = FrameGiven(fr[j]) /\ d1 = fr[j].data /\ a.data = Raw(d1) /\ a.alph = d1.alph
        BY <4>8 DEF FrameGiven
      <4>5. Raw(d1).codec = d1.codec
        BY <4>1, <4>4, ImageParts DEF FrameOk
      <4>6. NoPlane(d1)
        BY <4>2, <4>3, <4>4, <4>5 DEF NoPlane
      <4>7. QED
        BY <4>1, <4>4, <4>6
    <3>2. Parsed(x)
      BY <1>11
    <3>3. f = Written(ExtFile(x, icc, AnimPieces(bg, loop, fr, n), exif, xmp))
      BY <2>3, <2>5
    <3>4. Parse(f, bytes) = PWhole(x, icc, exif, xmp, bg, loop, FramesGiven(fr, n))
      <4>1. /\ n <= MaxFrames /\ \A j \in 1 .. n : FrameOk(fr[j]) /\ NoPlane(fr[j].data)
            /\ Parsed(x) /\ (icc # Nil => x.flags.icc) /\ (exif # Nil => x.flags.exif) /\ (xmp # Nil => x.flags.xmp)
            /\ f = Written(ExtFile(x, icc, AnimPieces(bg, loop, fr, n), exif, xmp)) /\ bytes = Bytes(f)
        BY <1>1, <1>12, <3>1, <3>2, <3>3
      <4>2. QED
        BY <4>1, AnimationParsed
    <3>5. QED
      BY <2>6, <2>8, <3>4, AgreeAnimated
  <2>13. QED
    BY <2>8, <2>11, <2>12 DEF ReadRight
<1>10. CASE ~isAnimated
  <2>1. d.alph = Nil /\ canvasSize = <<d.w, d.h>>
    <3>1. frames # <<>>
      BY DEF validate
    <3>2. QED
      BY <1>2, <1>10, <3>1 DEF Carried
  <2>2. cw = d.w /\ ch = d.h
    BY <1>3, <2>1
  <2>3. n = 1
    BY <1>1, <1>10 DEF isAnimated
  <2>4. hasAlpha <=> (d.alph # Nil \/ (IsVP8L(d) /\ d.alpha))
    <3>1. DOMAIN frames = {1}
      BY <1>1, <2>3
    <3>2. QED
      BY <1>2, <3>1 DEF hasAlpha
  <2>5. g.frames = <<StillGiven(d)>> /\ g.anim = FALSE
    BY <1>7, <1>10
  <2>7. CASE needsVP8X
    <3>1. f = Written(ExtFile(x, icc, SubPieces(d), exif, xmp))
      BY <1>2, <1>4, <1>5, <1>6, <1>10, <2>1, <2>7, StillShape
    <3>2. PICK flags : flags = x.flags /\ flags.anim = FALSE /\ x = Extended(flags, cw, ch)
      BY <1>3, <1>4, <1>8, <1>10 DEF AssembledX
    <3>3. PICK r : r = Demux(f, bytes)
      OBVIOUS
    <3>4. r = DState(x, icc, exif, xmp, 0, 0, <<StillOf(d, cw, ch)>>)
      <4>1. ~flags.anim /\ bytes = Bytes(f)
        BY <3>2
      <4>2. Demux(f, bytes) = DState(x, icc, exif, xmp, 0, 0, <<StillOf(d, cw, ch)>>)
        <5>1. ImageOk(d) /\ x = Extended(flags, cw, ch) /\ ~flags.anim /\ bytes = Bytes(f)
              /\ f = Written(ExtFile(x, icc, SubPieces(d), exif, xmp))
          BY <1>2, <3>1, <3>2, <4>1
        <5>2. QED
          BY <5>1, StillRead
      <4>3. QED
        BY <3>3, <4>2
    <3>5. r = DState(x, icc, exif, xmp, 0, 0, <<StillOf(d, d.w, d.h)>>)
      BY <2>2, <3>4
    <3>6. /\ x.w + 1 = d.w /\ x.h + 1 = d.h /\ x.flags.anim = FALSE
          /\ x.flags.alpha = (d.alph # Nil \/ (IsVP8L(d) /\ d.alpha))
          /\ g.size = <<d.w, d.h>>
      <4>1. x.w + 1 = d.w /\ x.h + 1 = d.h /\ g.size = <<d.w, d.h>>
        BY <1>4, <1>7, <2>2
      <4>2. x.flags.anim = FALSE
        BY <1>8, <1>10
      <4>3. x.flags.alpha = hasAlpha
        BY <1>8
      <4>4. x.flags.alpha = (d.alph # Nil \/ (IsVP8L(d) /\ d.alpha))
        <5>1. hasAlpha \in BOOLEAN
          BY DEF hasAlpha
        <5>2. QED
          BY <2>4, <4>3, <5>1
      <4>5. QED
        BY <4>1, <4>2, <4>4
    <3>7. SaysOf(r, g)
      BY <1>2, <1>7, <2>5, <3>5, <3>6, SaysStill
    <3>8. ParsableOf(g) => Agree(r, Parse(f, bytes))
      <4> SUFFICES ASSUME ParsableOf(g) PROVE Agree(r, Parse(f, bytes))
        OBVIOUS
      <4>1. /\ ImageOk(d) /\ NoPlane(d) /\ Parsed(x) /\ IsFlags(x.flags) /\ ~x.flags.anim
            /\ x.flags.alpha = HasAlphaOf(d) /\ (icc # Nil => x.flags.icc)
            /\ f = Written(ExtFile(x, icc, SubPieces(d), exif, xmp)) /\ bytes = Bytes(f)
        BY <1>2, <1>11, <1>12, <2>1, <3>1, <3>6 DEF NoPlane, HasAlphaOf
      <4>2. Parse(f, bytes) = PTaken(x, icc, d)
        BY <4>1, StillParsed
      <4>3. QED
        BY <3>5, <3>6, <4>1, <4>2, AgreeStill
    <3>9. QED
      BY <3>3, <3>7, <3>8 DEF ReadRight
  <2>8. CASE ~needsVP8X
    <3>1. icc = Nil /\ exif = Nil /\ xmp = Nil
      BY <1>6, <2>8 DEF needsVP8X
    <3>2. f = Written(SimpleFile(d))
      BY <1>2, <1>5, <2>1, <2>8, SimpleShape
    <3>3. PICK r : r = Demux(f, bytes)
      OBVIOUS
    <3>4. r = SimpleState(d)
      BY <1>2, <2>1, <3>2, <3>3, DemuxSimpleFile
    <3>5. g.size = <<d.w, d.h>>
      BY <1>7, <2>2
    <3>6. SaysOf(r, g)
      BY <1>2, <1>7, <2>1, <2>5, <3>1, <3>4, <3>5, SaysSimple
    <3>7. Parse(f, bytes) = SimpleState(d)
      BY <1>2, <2>1, <3>2, SimpleParsed
    <3>8. QED
      BY <3>3, <3>4, <3>6, <3>7, AgreeSimple DEF ReadRight
  <2>9. QED
    BY <2>7, <2>8
<1>13. QED
  BY <1>9, <1>10

\* So is a file of the encoder.
LEMMA EncoderReads ==
    ASSUME NEW d, ImageOk(d), NEW icc \in Nat \cup {Nil}, NEW exif \in Nat \cup {Nil}, NEW xmp \in Nat \cup {Nil},
           NEW f, f = Written(writeRIFF(d, icc, exif, xmp)), NEW bytes, bytes = Bytes(f),
           NEW g, g = EncoderGiven(d, icc, exif, xmp)
    PROVE  ReadRight(f, bytes, g)
<1>1. PICK i \in Nat \cup {Nil}, e \in Nat \cup {Nil}, y \in Nat \cup {Nil} :
          i = Present(icc) /\ e = Present(exif) /\ y = Present(xmp)
  BY PresentOk
<1>2. /\ g.size = <<d.w, d.h>> /\ g.frames = <<StillGiven(d)>> /\ g.anim = FALSE
      /\ g.icc = i /\ g.exif = e /\ g.xmp = y
  BY <1>1 DEF EncoderGiven
<1>3. PICK r : r = Demux(f, bytes)
  OBVIOUS
<1>4. CASE IsExtended(d, icc, exif, xmp)
  <2>1. PICK x, flags : flags = EncodedFlags(d, icc, exif, xmp) /\ x = Extended(flags, d.w, d.h)
    OBVIOUS
  <2>2. f = Written(ExtFile(x, i, SubPieces(d), e, y))
    BY <1>1, <1>4, <2>1, EncodedExtended DEF EncodedX
  <2>3. PICK cw \in 1 .. MaxCanvasSize, ch \in 1 .. MaxCanvasSize : cw = d.w /\ ch = d.h
    BY DEF ImageOk
  <2>4. flags.anim = FALSE /\ flags.alpha = (d.alph > 0 \/ (d.codec = "VP8L" /\ d.alpha))
    BY <2>1 DEF EncodedFlags
  <2>5. Demux(f, bytes) = DState(x, i, e, y, 0, 0, <<StillOf(d, cw, ch)>>)
    <3>1. ImageOk(d) /\ x = Extended(flags, cw, ch) /\ ~flags.anim /\ bytes = Bytes(f)
          /\ f = Written(ExtFile(x, i, SubPieces(d), e, y))
      BY <2>1, <2>2, <2>3, <2>4
    <3>2. QED
      BY <3>1, StillRead
  <2>6. x.flags = flags /\ x.w + 1 = d.w /\ x.h + 1 = d.h
    BY <2>1, <2>3, ExtendedParts
  <2>7. (d.alph > 0 \/ (d.codec = "VP8L" /\ d.alpha)) <=> (d.alph # Nil \/ (IsVP8L(d) /\ d.alpha))
    <3>1. d.alph # Nil <=> d.alph > 0
      BY ImageParts DEF Nil
    <3>2. QED
      BY <3>1 DEF IsVP8L
  <2>8. x.flags.anim = FALSE /\ x.flags.alpha = (d.alph # Nil \/ (IsVP8L(d) /\ d.alpha))
    BY <2>4, <2>6, <2>7
  <2>9. r = DState(x, i, e, y, 0, 0, <<StillOf(d, d.w, d.h)>>)
    BY <1>3, <2>3, <2>5
  <2>10. SaysOf(r, g)
    BY <1>2, <2>6, <2>8, <2>9, SaysStill
  <2>11. ParsableOf(g) => Agree(r, Parse(f, bytes))
    <3> SUFFICES ASSUME ParsableOf(g) PROVE Agree(r, Parse(f, bytes))
      OBVIOUS
    <3>1. Parsed(x)
      <4>1. g.size[1] = d.w /\ g.size[2] = d.h
        BY <1>2
      <4>2. d.w * d.h \in Nat /\ MaxImageArea \in Nat
        <5>1. PICK a \in Nat, b \in Nat : a = d.w /\ b = d.h
          BY ImageParts
        <5>2. a * b \in Nat
          OBVIOUS
        <5>3. QED
          BY <5>1, <5>2, MaxNat
      <4>3. QED
        BY <2>6, <4>1, <4>2 DEF ParsableOf, Parsed
    <3>2. NoPlane(d)
      <4>5. PICK s : s = StillGiven(d)
        OBVIOUS
      <4>6. PICK fs : fs = <<s>>
        OBVIOUS
      <4>1. s = StillGiven(d) /\ fs = <<s>> /\ fs[1] = s /\ 1 \in DOMAIN fs
        BY <4>5, <4>6
      <4>2. fs[1].data.codec = "VP8L" => fs[1].alph = Nil
        BY <1>2, <4>1 DEF ParsableOf
      <4>3. s.data = Raw(d) /\ s.alph = d.alph
        BY <4>1 DEF StillGiven, StillFrame
      <4>4. QED
        BY <4>1, <4>2, <4>3, ImageParts DEF NoPlane
    <3>3. IsFlags(x.flags) /\ (i # Nil => x.flags.icc)
      <4>1. i # Nil => icc > 0
        BY <1>1, PresentOk
      <4>2. PICK a1, a2, a3, a4, a5 :
                /\ a1 = FALSE /\ a3 = (icc > 0) /\ a4 = (exif > 0) /\ a5 = (xmp > 0)
                /\ a2 = (d.alph > 0 \/ (d.codec = "VP8L" /\ d.alpha))
        OBVIOUS
      <4>3. x.flags = [anim |-> a1, alpha |-> a2, icc |-> a3, exif |-> a4, xmp |-> a5]
        BY <2>1, <2>6, <4>2 DEF EncodedFlags
      <4>4. IsFlags(x.flags) /\ x.flags.icc = a3
        BY <4>3 DEF IsFlags
      <4>5. QED
        BY <4>1, <4>2, <4>4
    <3>4. /\ ImageOk(d) /\ NoPlane(d) /\ Parsed(x) /\ IsFlags(x.flags) /\ ~x.flags.anim
          /\ x.flags.alpha = HasAlphaOf(d) /\ (i # Nil => x.flags.icc)
          /\ f = Written(ExtFile(x, i, SubPieces(d), e, y)) /\ bytes = Bytes(f)
      BY <2>2, <2>8, <3>1, <3>2, <3>3 DEF HasAlphaOf
    <3>5. Parse(f, bytes) = PTaken(x, i, d)
      BY <3>4, StillParsed
    <3>6. QED
      BY <2>6, <2>9, <3>4, <3>5, AgreeStill
  <2>12. QED
    BY <1>3, <2>10, <2>11 DEF ReadRight
<1>5. CASE ~IsExtended(d, icc, exif, xmp)
  <2>1. d.alph = Nil /\ i = Nil /\ e = Nil /\ y = Nil /\ f = Written(SimpleFile(d))
    BY <1>1, <1>5, EncodedSimple
  <2>2. r = SimpleState(d)
    BY <1>3, <2>1, DemuxSimpleFile
  <2>3. ~g.anim /\ g.anim \in BOOLEAN
    BY <1>2
  <2>4. SaysOf(r, g)
    BY <1>2, <2>1, <2>2, <2>3, SaysSimple
  <2>5. Parse(f, bytes) = SimpleState(d)
    BY <2>1, SimpleParsed
  <2>6. QED
    BY <1>3, <2>2, <2>4, <2>5, AgreeSimple DEF ReadRight
<1>6. QED
  BY <1>4, <1>5

(***************************************************************************)
(* Reading a file that is cut off                                           *)
(***************************************************************************)

\* Later chunks of a chain lie behind earlier ones.
LEMMA ChainGrows ==
    ASSUME NEW f, Headed(f), NEW m, NEW hs, NEW pos, Chain(f, m, hs, pos),
           NEW k \in 1 .. m, NEW l \in 1 .. m, k < l
    PROVE  pos[k] + 8 + f[hs[k]].v.size <= pos[l]
<1>1. m \in Nat /\ \A i \in 1 .. m + 1 : pos[i] \in Nat
  BY DEF Chain
<1>2. ASSUME NEW i \in 1 .. m
      PROVE  /\ pos[i] \in Nat /\ pos[i + 1] \in Nat /\ f[hs[i]].v.size \in Nat
             /\ pos[i] + 8 + f[hs[i]].v.size <= pos[i + 1]
  <2>1. i \in 1 .. m + 1 /\ i + 1 \in 1 .. m + 1
    BY <1>1
  <2>2. f[hs[i]].v.size \in Nat /\ pos[i + 1] = pos[i] + chunkTotalSize(f[hs[i]].v.size)
    BY DEF Chain, Headed
  <2>3. PICK size \in Nat : size = f[hs[i]].v.size
    BY <2>2
  <2>4. PICK a \in Nat, b \in Nat : a = pos[i] /\ b = pos[i + 1]
    BY <1>1, <2>1
  <2>5. a + chunkTotalSize(size) = a + 8 + size + (size % 2) /\ size % 2 \in 0 .. 1
    BY Ends DEF ChunkHeaderSize, chunkTotalSize
  <2>6. b = a + 8 + size + (size % 2)
    BY <2>2, <2>3, <2>4, <2>5
  <2>7. a + 8 + size <= b
    <3>1. PICK q \in 0 .. 1 : q = size % 2
      BY <2>5
    <3>2. b = a + 8 + size + q
      BY <2>6, <3>1
    <3>3. QED
      BY <3>2
  <2>8. QED
    BY <2>2, <2>3, <2>4, <2>7
<1> DEFINE T == {n \in Nat : k + 1 + n <= m => pos[k + 1] <= pos[k + 1 + n]}
<1>3. 0 \in T
  <2>1. k + 1 + 0 = k + 1 /\ (k + 1 <= m => pos[k + 1] \in Nat)
    BY <1>2
  <2>2. QED
    BY <2>1
<1>4. ASSUME NEW n \in T PROVE n + 1 \in T
  <2> SUFFICES ASSUME k + 1 + (n + 1) <= m PROVE pos[k + 1] <= pos[k + 1 + (n + 1)]
    OBVIOUS
  <2>1. k + 1 + n \in 1 .. m /\ k + 1 + n <= m /\ (k + 1 + n) + 1 = k + 1 + (n + 1)
    BY <1>1
  <2>2. pos[k + 1] <= pos[k + 1 + n]
    BY <2>1
  <2>3. PICK i \in 1 .. m : i = k + 1 + n /\ i + 1 = k + 1 + (n + 1)
    BY <2>1
  <2>4. pos[i] \in Nat /\ pos[i + 1] \in Nat /\ pos[i] <= pos[i + 1]
    BY <1>2
  <2>5. pos[k + 1] \in Nat
    BY <1>2
  <2>6. QED
    BY <2>2, <2>3, <2>4, <2>5
<1>5. PICK n \in Nat : l = k + 1 + n
  <2>1. l - (k + 1) \in Nat /\ l = k + 1 + (l - (k + 1))
    BY <1>1
  <2>2. QED
    BY <2>1
<1>6. n \in T
  <2>1. T \in SUBSET Nat
    OBVIOUS
  <2> HIDE DEF T
  <2>2. QED
    BY <1>3, <1>4, <2>1, CountUp
<1>7. pos[k + 1] <= pos[l]
  <2>1. k + 1 + n <= m
    BY <1>1, <1>5
  <2>2. QED
    BY <1>5, <1>6, <2>1
<1>8. pos[l] \in Nat
  BY <1>2
<1>9. QED
  BY <1>2, <1>7, <1>8

\* Of a chain the walk stops somewhere.
LEMMA SomeStop ==
    ASSUME NEW f, NEW m, NEW hs, NEW pos, Chain(f, m, hs, pos), NEW end \in Nat, NEW needPad,
           pos[m + 1] >= end
    PROVE  \E j : Stops(f, m, hs, pos, j, end, needPad)
<1>1. m \in Nat /\ pos[m + 1] \in Nat
  <2>1. m \in Nat
    BY DEF Chain
  <2>2. m + 1 \in 1 .. m + 1
    BY <2>1
  <2>3. QED
    BY <2>1, <2>2 DEF Chain
<1> DEFINE B == {k \in 1 .. m : ~FitsAt(f, hs, pos, k, end, needPad)}
<1>2. CASE B = {}
  <2>1. \A k \in 1 .. m : FitsAt(f, hs, pos, k, end, needPad)
    BY <1>2
  <2>2. pos[m + 1] + 8 > end /\ m \in 0 .. m /\ ~(m < m)
    BY <1>1
  <2>3. Stops(f, m, hs, pos, m, end, needPad)
    BY <2>1, <2>2 DEF Stops
  <2>4. QED
    BY <2>3
<1>3. CASE B # {}
  <2>1. PICK b : b = Min(B) /\ b \in B /\ \A k \in B : b <= k
    <3>1. B \in SUBSET Nat
      BY <1>1
    <3> HIDE DEF B
    <3>2. QED
      BY <1>3, <3>1, NatMin
  <2>2. PICK j \in 0 .. m : j = b - 1 /\ j + 1 = b /\ j < m /\ b \in 1 .. m
    <3>1. b \in 1 .. m
      BY <2>1
    <3>2. b - 1 \in 0 .. m /\ (b - 1) + 1 = b /\ b - 1 < m
      BY <1>1, <3>1
    <3>3. QED
      BY <3>1, <3>2
  <2>3. ~FitsAt(f, hs, pos, j + 1, end, needPad)
    BY <2>1, <2>2
  <2>4. \A k \in 1 .. j : FitsAt(f, hs, pos, k, end, needPad)
    <3> TAKE k \in 1 .. j
    <3>1. k \in 1 .. m /\ ~(b <= k)
      BY <1>1, <2>2
    <3>2. QED
      BY <2>1, <3>1
  <2>5. j # m
    BY <1>1, <2>2
  <2> HIDE DEF B
  <2>6. QED
    BY <2>2, <2>3, <2>4, <2>5 DEF Stops
<1>4. QED
  BY <1>2, <1>3

\* Of a file cut off anywhere a reader finds chunks that have arrived, the first ones.
LEMMA CutRead ==
    ASSUME NEW body, NEW cs, Chunked(body, cs), NEW size, size = 4 + Size(body), NEW needPad,
           NEW p, p = FilePieces(size, body), NEW bytes \in Nat, ~(bytes < RIFFHeaderSize),
           NEW ids, ids = Walk(Written(p), RIFFHeaderSize, PayloadEnd(Written(p), bytes), needPad)
    PROVE  \E j : CutReads(p, ids, cs, j, bytes)
<1>1. size \in Nat /\ Size(body) \in Nat
  <2>1. Pieces(body)
    BY DEF Chunked
  <2>2. Size(body) \in Nat
    BY <2>1, AtType
  <2>3. QED
    BY <2>2
<1>2. /\ Pieces(p) /\ Size(p) = 12 + Size(body) /\ Written(p)[1].v = size
      /\ \E hs, pos : Laid(p, cs, hs, pos, 12, Size(p))
  BY <1>1, FileLaid
<1> DEFINE f == Written(p)
           m == Len(cs)
<1>3. PICK hs, pos : Laid(p, cs, hs, pos, 12, Size(p))
  BY <1>2
<1>4. PICK end \in Nat : end = PayloadEnd(f, bytes) /\ end <= bytes /\ end <= Size(p) /\ end >= 12
  <2>1. f[1].v + ChunkHeaderSize = Size(p) /\ Size(p) \in Nat /\ Size(p) >= 12
    BY <1>1, <1>2 DEF ChunkHeaderSize
  <2>2. PayloadEnd(f, bytes) = IF Size(p) > bytes THEN bytes ELSE Size(p)
    BY <2>1 DEF PayloadEnd
  <2>3. bytes >= 12
    BY DEF RIFFHeaderSize
  <2>4. QED
    BY <2>1, <2>2, <2>3
<1>5. Headed(f) /\ Chain(f, m, hs, pos) /\ pos[1] = 12 /\ pos[m + 1] = Size(p) /\ IsList(cs) /\ m \in Nat
  BY <1>2, <1>3, WrittenHeaded DEF Laid, Chain
<1>6. Size(p) \in Nat
  BY <1>1, <1>2
<1> HIDE DEF f, m
<1>7. PICK j : Stops(f, m, hs, pos, j, end, needPad)
  <2>1. pos[m + 1] >= end
    BY <1>4, <1>5, <1>6
  <2>2. QED
    BY <1>5, <2>1, SomeStop
<1>8. j \in 0 .. m /\ \A k \in 1 .. j : FitsAt(f, hs, pos, k, end, needPad)
  BY <1>7 DEF Stops
<1>9. ids = Walk(f, pos[1], end, needPad)
  BY <1>4, <1>5 DEF f, RIFFHeaderSize
<1>10. /\ IsList(ids) /\ Len(ids) = j + Rest(pos, j, end)
       /\ \A k \in 1 .. j : ids[k] = hs[k]
       /\ pos[j + 1] + 8 <= end => ids[j + 1] = 0
  <2>1. pos[1] <= end + 1
    BY <1>4, <1>5
  <2>2. LET w == Walk(f, pos[1], end, needPad)
        IN  /\ IsList(w) /\ Len(w) = j + Rest(pos, j, end)
            /\ \A k \in 1 .. j : w[k] = hs[k]
            /\ pos[j + 1] + 8 <= end => w[j + 1] = 0
    BY <1>5, <1>7, <2>1, WalkFinds
  <2>3. QED
    BY <1>9, <2>2
<1>11. /\ Len(ids) \in Nat /\ j <= Len(ids) /\ Len(ids) <= j + 1
       /\ \A k \in 1 .. Len(ids) : k > j => ids[k] = 0
  <2>1. j + 1 \in 1 .. m + 1 /\ j \in Nat
    BY <1>5, <1>8
  <2>2. pos[j + 1] \in Nat
    BY <1>5, <2>1 DEF Chain
  <2>3. CASE pos[j + 1] + 8 > end
    <3>1. Len(ids) = j
      BY <1>10, <2>1, <2>3 DEF Rest
    <3>2. QED
      BY <2>1, <3>1
  <2>4. CASE ~(pos[j + 1] + 8 > end)
    <3>1. Len(ids) = j + 1 /\ ids[j + 1] = 0
      BY <1>4, <1>10, <2>1, <2>2, <2>4 DEF Rest
    <3>2. \A k \in 1 .. Len(ids) : k > j => k = j + 1
      BY <2>1, <3>1
    <3>3. QED
      BY <2>1, <3>1, <3>2
  <2>5. QED
    BY <2>3, <2>4
<1>12. ASSUME NEW k \in 1 .. j
       PROVE  /\ k \in 1 .. m /\ ids[k] = hs[k]
              /\ ids[k] \in 1 .. Len(p) /\ ids[k] # 0 /\ IsChunk(cs[k]) /\ Within(cs[k], p, ids[k] - 1)
              /\ Id(f, ids[k]) = cs[k][1].v.id
              /\ Payload(f, ids[k]) = cs[k][2].v
              /\ At(p, ids[k]) = pos[k] /\ f[hs[k]].v.size = cs[k][1].v.size
              /\ At(p, ids[k]) + 8 + cs[k][1].v.size <= bytes
  <2>1. k \in 1 .. Len(cs) /\ k \in 1 .. m
    BY <1>5, <1>8 DEF m
  <2>2. /\ hs[k] # 0 /\ hs[k] \in 1 .. Len(p) /\ IsChunk(cs[k]) /\ Within(cs[k], p, hs[k] - 1)
        /\ Id(f, hs[k]) = cs[k][1].v.id
        /\ f[hs[k]].v = cs[k][1].v
        /\ Payload(f, hs[k]) = cs[k][2].v /\ f[hs[k]].at = pos[k] /\ pos[k] \in Nat
        /\ f[hs[k]].kind = "header" /\ hs[k] \in DOMAIN f
    BY <1>3, <2>1, LaidRead DEF f
  <2>3. ids[k] = hs[k]
    BY <1>10
  <2>4. At(p, hs[k]) = pos[k]
    BY <1>2, <2>2, WrittenRules DEF f
  <2>5. PICK s \in Nat : s = f[hs[k]].v.size /\ s = cs[k][1].v.size
    BY <1>5, <2>2 DEF Headed
  <2>6. Fits(pos[k], s, end, needPad)
    BY <1>8, <2>5 DEF FitsAt
  <2>7. pos[k] + 8 + s <= end
    BY <2>2, <2>6, FitsRoom
  <2>8. pos[k] + 8 + s <= bytes
    BY <1>4, <2>2, <2>7
  <2>9. QED
    BY <2>1, <2>2, <2>3, <2>4, <2>5, <2>8
<1>13. ASSUME NEW k \in 1 .. j, NEW l \in 1 .. j, k < l
       PROVE  At(p, ids[k]) + 8 + cs[k][1].v.size <= At(p, ids[l])
  <2>1. pos[k] + 8 + f[hs[k]].v.size <= pos[l]
    BY <1>5, <1>12, <1>13, ChainGrows
  <2>2. QED
    BY <1>12, <2>1
<1>14. \A k \in 1 .. j :
           /\ ids[k] \in 1 .. Len(p) /\ ids[k] # 0 /\ IsChunk(cs[k]) /\ Within(cs[k], p, ids[k] - 1)
           /\ Id(Written(p), ids[k]) = cs[k][1].v.id
           /\ Payload(Written(p), ids[k]) = cs[k][2].v
           /\ At(p, ids[k]) + 8 + cs[k][1].v.size <= bytes
  BY <1>12 DEF f
<1>15. \A k, l \in 1 .. j : k < l => At(p, ids[k]) + 8 + cs[k][1].v.size <= At(p, ids[l])
  BY <1>13
<1>16. j \in 0 .. Len(cs) /\ Pieces(p) /\ IsList(ids) /\ IsList(cs)
  BY <1>2, <1>5, <1>8, <1>10 DEF m
<1>17. CutReads(p, ids, cs, j, bytes)
  BY <1>11, <1>14, <1>15, <1>16 DEF CutReads
<1>18. QED
  BY <1>17

\* A chunk of a file is among the chunks that have arrived when its data have.
LEMMA HeaderArrived ==
    ASSUME NEW p, Pieces(p), NEW c, IsChunk(c), NEW z, Within(c, p, z), NEW h, h = z + 1,
           c[2].n = c[1].v.size, NEW bytes \in Nat, At(p, h) + 8 + c[1].v.size <= bytes,
           NEW names, c[1].v.id \in names
    PROVE  h \in ArrivedIn(Written(p), bytes, names) /\ h \in 1 .. Len(p) /\ At(p, h) \in Nat
<1> DEFINE f == Written(p)
<1>1. Pieces(c) /\ Len(c) \in Nat /\ Len(c) >= 2 /\ c[1].kind = "header"
  BY AtType DEF IsChunk
<1>2. z \in Nat /\ z + Len(c) <= Len(p) /\ Len(p) \in Nat /\ \A j \in 1 .. Len(c) : p[z + j] = c[j]
  BY AtType DEF Within
<1>3. 1 \in 1 .. Len(c) /\ 2 \in 1 .. Len(c) /\ h \in 1 .. Len(p) /\ h + 1 \in 1 .. Len(p) /\ h + 1 = z + 2
  BY <1>1, <1>2
<1>4. p[h] = c[1] /\ p[h + 1] = c[2]
  BY <1>2, <1>3
<1>5. p[h].n = 8 /\ c[1].v.size \in Nat
  BY <1>1, <1>3, <1>4 DEF Pieces, IsPiece, ChunkHeaderSize
<1>6. At(p, h + 1) = At(p, h) + p[h].n
  BY <1>3, AtRules
<1>7. /\ f[h].kind = p[h].kind /\ f[h].v = p[h].v
      /\ f[h + 1].n = p[h + 1].n /\ f[h + 1].at = At(p, h + 1) /\ DOMAIN f = 1 .. Len(p)
  BY <1>3, WrittenRules
<1> HIDE DEF f
<1>8. At(p, h) \in Nat
  <2>1. h \in 1 .. Len(p) + 1
    BY <1>2, <1>3
  <2>2. QED
    BY <2>1, AtType
<1>9. f[h + 1].at + f[h + 1].n <= bytes
  <2>1. f[h + 1].at + f[h + 1].n = At(p, h) + 8 + c[1].v.size
    BY <1>4, <1>5, <1>6, <1>7, <1>8
  <2>2. QED
    BY <2>1
<1>10. h # 0 /\ Id(f, h) = c[1].v.id
  BY <1>3, <1>4, <1>7 DEF Id
<1>11. QED
  BY <1>1, <1>3, <1>4, <1>7, <1>8, <1>9, <1>10 DEF ArrivedIn, f

\* A chunk that a reader has found has arrived, if it is header, data and padding.
LEMMA ChunkArrived ==
    ASSUME NEW p, NEW ids, NEW cs, NEW j, NEW bytes \in Nat, CutReads(p, ids, cs, j, bytes),
           NEW k \in 1 .. j, cs[k][2].n = cs[k][1].v.size, NEW names, cs[k][1].v.id \in names
    PROVE  ids[k] \in ArrivedIn(Written(p), bytes, names)
<1>1. /\ Pieces(p) /\ ids[k] \in 1 .. Len(p) /\ IsChunk(cs[k]) /\ Within(cs[k], p, ids[k] - 1)
      /\ At(p, ids[k]) + 8 + cs[k][1].v.size <= bytes
  BY DEF CutReads
<1>2. PICK c, z, h : c = cs[k] /\ z = ids[k] - 1 /\ h = ids[k]
  OBVIOUS
<1>3. h = z + 1
  BY <1>1, <1>2
<1>4. h \in ArrivedIn(Written(p), bytes, names)
  BY <1>1, <1>2, <1>3, HeaderArrived
<1>5. QED
  BY <1>2, <1>4

\* With a frame its image has arrived.
LEMMA FrameArrived ==
    ASSUME NEW p, NEW ids, NEW cs, NEW j, NEW bytes \in Nat, CutReads(p, ids, cs, j, bytes),
           NEW k \in 1 .. j, NEW r, ImageOk(r.data), cs[k] = writeANMFChunk(r)
    PROVE  \E i \in ArrivedIn(Written(p), bytes, {"VP8", "VP8L"}) :
               /\ At(p, i) \in Nat /\ At(p, ids[k]) \in Nat
               /\ At(p, ids[k]) <= At(p, i) /\ At(p, i) < At(p, ids[k]) + 8 + cs[k][1].v.size
<1>1. /\ Pieces(p) /\ ids[k] \in 1 .. Len(p) /\ IsChunk(cs[k]) /\ Within(cs[k], p, ids[k] - 1)
      /\ At(p, ids[k]) + 8 + cs[k][1].v.size <= bytes
  BY DEF CutReads
<1>2. PICK d : d = r.data /\ ImageOk(d)
  OBVIOUS
<1>3. PICK a, b, q : a = metadataChunk("ALPH", d.alph) /\ b = writeDataChunk(d.codec, d.n, Raw(d)) /\ q = a \o b
  OBVIOUS
<1>4. q = SubPieces(d)
  BY <1>3 DEF SubPieces
<1>5. Pieces(a) /\ Size(a) \in Nat /\ Len(a) \in Nat
  <2>1. d.alph \in Nat \cup {Nil}
    BY <1>2, ImageParts
  <2>2. Chunked(metadataChunk("ALPH", d.alph), OptionalChunks("ALPH", d.alph))
    BY <2>1, OptionalChunk
  <2>3. Pieces(a)
    BY <1>3, <2>2 DEF Chunked
  <2>4. QED
    BY <2>3, AtType
<1>6. PICK n \in Nat : n = d.n
  BY <1>2, ImageParts
<1>7. /\ IsChunk(b) /\ Len(b) = 2 + (n % 2) /\ n % 2 \in 0 .. 1 /\ Size(b) = chunkTotalSize(n)
      /\ b[1].v.id = d.codec /\ b[1].v.size = n /\ b[2].n = n
  BY <1>3, <1>6, DataChunk
<1>8. Pieces(b) /\ Len(b) \in Nat /\ Size(b) \in Nat
  BY <1>7, AtType DEF IsChunk
<1>9. Pieces(q) /\ Size(q) = Size(a) + Size(b) /\ Size(q) \in Nat /\ Len(q) \in Nat
  <2>1. Pieces(q) /\ Size(q) = Size(a) + Size(b)
    BY <1>3, <1>5, <1>8, PiecesJoined, SizeJoined
  <2>2. QED
    BY <2>1, AtType
<1>10. Within(b, q, Len(a))
  <2>1. IsList(a) /\ IsList(b)
    BY <1>5, <1>8 DEF Pieces
  <2>2. QED
    BY <1>3, <2>1, PartJoined
<1>11. PICK c : c = Nested("ANMF", ANMFChunkSize, Info(r), q) /\ c = cs[k]
  BY <1>2, <1>4, FrameNested
<1>12. /\ IsChunk(c) /\ c[1].v.size = 16 + Size(q) /\ Within(q, c, 2) /\ At(c, 3) = 24
  <2>1. ANMFChunkSize \in Nat /\ ANMFChunkSize = 16
    BY DEF ANMFChunkSize
  <2>2. /\ IsChunk(c) /\ c[1].v.size = ANMFChunkSize + Size(q) /\ Within(q, c, 2) /\ At(c, 3) = 8 + ANMFChunkSize
    BY <1>9, <1>11, <2>1, NestedChunk
  <2>3. QED
    BY <2>1, <2>2
<1>13. Pieces(c) /\ Len(c) \in Nat /\ Len(p) \in Nat
  BY <1>1, <1>12, AtType DEF IsChunk
<1>14. PICK z \in Nat, l \in Nat : z = ids[k] - 1 /\ z + 1 = ids[k] /\ l = Len(a)
  BY <1>1, <1>5, <1>13
<1>15. Within(c, p, z) /\ Within(b, c, 2 + l) /\ Within(b, p, z + (2 + l))
  <2>1. Within(c, p, z) /\ Within(b, q, l)
    BY <1>1, <1>10, <1>11, <1>14
  <2>2. Within(b, c, 2 + l)
    BY <1>8, <1>9, <1>12, <1>13, <2>1, WithinTwice
  <2>3. QED
    BY <1>8, <1>13, <2>1, <2>2, WithinTwice
<1>16. At(c, (2 + l) + 1) = 24 + Size(a)
  <2>1. l + 1 \in 1 .. Len(q) + 1
    <3>1. Len(a) + Len(b) <= Len(q)
      BY <1>10 DEF Within
    <3>2. PICK u \in Nat, v \in Nat : u = Len(b) /\ v = Len(q)
      BY <1>8, <1>9
    <3>3. l + u <= v
      BY <1>14, <3>1, <3>2
    <3>4. l + 1 \in 1 .. v + 1
      BY <3>3
    <3>5. QED
      BY <3>2, <3>4
  <2>2. At(c, 2 + (l + 1)) = At(c, 2 + 1) + At(q, l + 1)
    <3>1. \A y \in 1 .. Len(q) + 1 : At(c, 2 + y) = At(c, 2 + 1) + At(q, y)
      BY <1>9, <1>12, <1>13, Run
    <3>2. QED
      BY <2>1, <3>1
  <2>3. At(q, l + 1) = Size(a)
    <3>1. Within(a, q, 0)
      <4>1. IsList(a) /\ IsList(b)
        BY <1>5, <1>8 DEF Pieces
      <4>2. QED
        BY <1>3, <4>1, PartJoined
    <3>2. Len(a) + 1 \in 1 .. Len(a) + 1
      BY <1>5
    <3>3. At(q, 0 + (Len(a) + 1)) = At(q, 0 + 1) + At(a, Len(a) + 1)
      BY <1>5, <1>9, <3>1, <3>2, Run
    <3>4. At(q, 1) = 0 /\ 0 + 1 = 1 /\ 0 + (Len(a) + 1) = l + 1
      BY <1>5, <1>9, <1>14, AtRules
    <3>5. QED
      BY <1>5, <3>3, <3>4 DEF Size
  <2>4. QED
    BY <1>12, <2>2, <2>3
<1>17. PICK h \in Nat : h = z + (2 + l) + 1
  OBVIOUS
<1>18. At(p, ids[k]) \in Nat
  <2>1. ids[k] \in 1 .. Len(p) + 1
    BY <1>1, <1>13
  <2>2. QED
    BY <1>1, <2>1, AtType
<1>19. At(p, h) = At(p, ids[k]) + 24 + Size(a)
  <2>1. (2 + l) + 1 \in 1 .. Len(c) + 1
    <3>1. (2 + l) + Len(b) <= Len(c)
      BY <1>15 DEF Within
    <3>2. PICK u \in Nat, v \in Nat : u = Len(b) /\ v = Len(c)
      BY <1>8, <1>13
    <3>3. (2 + l) + u <= v
      BY <3>1, <3>2
    <3>4. (2 + l) + 1 \in 1 .. v + 1
      BY <3>3
    <3>5. QED
      BY <3>2, <3>4
  <2>2. At(p, z + ((2 + l) + 1)) = At(p, z + 1) + At(c, (2 + l) + 1)
    <3>1. \A y \in 1 .. Len(c) + 1 : At(p, z + y) = At(p, z + 1) + At(c, y)
      BY <1>1, <1>13, <1>15, Run
    <3>2. QED
      BY <2>1, <3>1
  <2>3. z + ((2 + l) + 1) = h
    BY <1>17
  <2>4. PICK u \in Nat, v \in Nat : u = At(p, ids[k]) /\ v = Size(a)
    BY <1>5, <1>18
  <2>5. At(p, z + 1) = u /\ At(c, (2 + l) + 1) = 24 + v
    BY <1>14, <1>16, <2>4
  <2>6. At(p, h) = u + (24 + v)
    BY <2>2, <2>3, <2>5
  <2>7. QED
    BY <2>4, <2>6
<1>20. Size(b) >= 8 + n
  <2>1. PICK y \in 0 .. 1 : y = n % 2
    BY <1>7
  <2>2. Size(b) = 8 + n + y
    BY <1>7, <2>1 DEF chunkTotalSize, ChunkHeaderSize
  <2>3. QED
    BY <2>2
<1>21. cs[k][1].v.size = 16 + Size(a) + Size(b)
  BY <1>5, <1>8, <1>9, <1>11, <1>12
<1>22. At(p, h) + 8 + n <= bytes
  <2>1. PICK u \in Nat, v \in Nat, w \in Nat : u = At(p, ids[k]) /\ v = Size(a) /\ w = Size(b)
    BY <1>5, <1>8, <1>18
  <2>2. u + 8 + (16 + v + w) <= bytes /\ w >= 8 + n /\ At(p, h) = u + 24 + v
    BY <1>1, <1>19, <1>20, <1>21, <2>1
  <2>3. (u + 24 + v) + 8 + n <= bytes
    BY <2>2
  <2>4. QED
    BY <2>2, <2>3
<1>23. h \in ArrivedIn(Written(p), bytes, {"VP8", "VP8L"}) /\ At(p, h) \in Nat
  <2>1. b[1].v.id \in {"VP8", "VP8L"}
    BY <1>2, <1>7, ImageParts
  <2>2. h = z + (2 + l) + 1 /\ b[2].n = b[1].v.size /\ At(p, h) + 8 + b[1].v.size <= bytes
    BY <1>7, <1>17, <1>22
  <2>3. QED
    BY <1>1, <1>7, <1>15, <2>1, <2>2, HeaderArrived
<1>24. At(p, ids[k]) <= At(p, h) /\ At(p, h) < At(p, ids[k]) + 8 + cs[k][1].v.size
  BY <1>5, <1>8, <1>18, <1>19, <1>20, <1>21
<1>25. QED
  BY <1>18, <1>23, <1>24

\* The beginning of two lists, one behind the other, ends in the first or in the second.
LEMMA BeginsJoined ==
    ASSUME NEW a, NEW b, IsList(a), IsList(b), NEW c, Begins(c, a \o b)
    PROVE  Begins(c, a) \/ \E d : Begins(d, b) /\ c = a \o d
<1>1. /\ IsList(a \o b) /\ Len(a) \in Nat /\ Len(b) \in Nat /\ Len(a \o b) = Len(a) + Len(b)
      /\ \A i \in 1 .. Len(a) : (a \o b)[i] = a[i]
      /\ \A i \in 1 .. Len(b) : (a \o b)[Len(a) + i] = b[i]
  BY Joined
<1>2. PICK l \in Nat, m \in Nat, n \in Nat : l = Len(a) /\ m = Len(b) /\ n = Len(c)
  BY <1>1, ListParts DEF Begins
<1>3. n <= l + m /\ IsList(c) /\ \A k \in 1 .. n : c[k] = (a \o b)[k]
  BY <1>1, <1>2 DEF Begins
<1>4. CASE n <= l
  <2>1. \A k \in 1 .. n : c[k] = a[k]
    BY <1>1, <1>2, <1>3, <1>4
  <2>2. Begins(c, a)
    BY <1>2, <1>3, <1>4, <2>1 DEF Begins
  <2>3. QED
    BY <2>2
<1>5. CASE ~(n <= l)
  <2>1. PICK r \in Nat : r = n - l /\ l + r = n /\ r <= m
    BY <1>3, <1>5
  <2>2. PICK d : d = [k \in 1 .. r |-> c[l + k]]
    OBVIOUS
  <2>3. IsList(d) /\ Len(d) = r /\ \A k \in 1 .. r : d[k] = c[l + k]
    BY <2>2, FunctionList
  <2>4. \A k \in 1 .. r : d[k] = b[k]
    <3> TAKE k \in 1 .. r
    <3>1. l + k \in 1 .. n /\ k \in 1 .. m
      BY <2>1
    <3>2. QED
      BY <1>1, <1>2, <1>3, <2>3, <3>1
  <2>5. Begins(d, b)
    BY <1>2, <2>1, <2>3, <2>4 DEF Begins
  <2>0. /\ IsList(a \o d) /\ Len(a \o d) = Len(a) + Len(d)
        /\ \A i \in 1 .. Len(a) : (a \o d)[i] = a[i]
        /\ \A i \in 1 .. Len(d) : (a \o d)[Len(a) + i] = d[i]
    <3>1. IsList(d)
      BY <2>3
    <3>2. QED
      BY <3>1, Joined
  <2>6. /\ IsList(a \o d) /\ Len(a \o d) = l + r
        /\ \A i \in 1 .. l : (a \o d)[i] = a[i]
        /\ \A i \in 1 .. r : (a \o d)[l + i] = d[i]
    BY <1>2, <2>0, <2>3
  <2>7. \A k \in 1 .. n : c[k] = (a \o d)[k]
    <3> TAKE k \in 1 .. n
    <3>1. CASE k <= l
      <4>1. k \in 1 .. l
        BY <3>1
      <4>2. QED
        BY <1>1, <1>2, <1>3, <2>6, <4>1
    <3>2. CASE ~(k <= l)
      <4>1. PICK q \in 1 .. r : k = l + q
        <5>1. k - l \in 1 .. r /\ k = l + (k - l)
          BY <2>1, <3>2
        <5>2. QED
          BY <5>1
      <4>2. QED
        BY <2>3, <2>6, <4>1
    <3>3. QED
      BY <3>1, <3>2
  <2>8. c = a \o d
    BY <1>2, <1>3, <2>1, <2>6, <2>7, SameList
  <2>9. QED
    BY <2>5, <2>8
<1>6. QED
  BY <1>4, <1>5

\* The beginning of one element.
LEMMA BeginsOne ==
    ASSUME NEW a, NEW c, Begins(c, <<a>>)
    PROVE  c = <<>> \/ c = <<a>>
<1>1. PICK v : v = <<a>> /\ IsList(v) /\ Len(v) = 1
  BY ShortLists
<1>2. PICK none : none = <<>> /\ IsList(none) /\ Len(none) = 0
  BY EmptyList
<1>3. IsList(c) /\ Len(c) \in Nat /\ Len(c) <= 1 /\ \A k \in 1 .. Len(c) : c[k] = v[k]
  BY <1>1, ListParts DEF Begins
<1>4. CASE Len(c) = 0
  <2>1. c = none
    BY <1>2, <1>3, <1>4, SameList
  <2>2. QED
    BY <1>2, <2>1
<1>5. CASE Len(c) = 1
  <2>1. c = v
    BY <1>1, <1>3, <1>5, SameList
  <2>2. QED
    BY <1>1, <2>1
<1>6. Len(c) = 0 \/ Len(c) = 1
  <2>1. PICK n \in Nat : n = Len(c) /\ n <= 1
    BY <1>3
  <2>2. n = 0 \/ n = 1
    BY <2>1
  <2>3. QED
    BY <2>1, <2>2
<1>7. QED
  BY <1>4, <1>5, <1>6

\* A list begins with itself and with nothing.
LEMMA BeginsItself == ASSUME NEW s, IsList(s) PROVE Begins(s, s) /\ Begins(<<>>, s)
<1>1. Len(s) \in Nat /\ Len(s) <= Len(s)
  BY ListParts
<1>2. PICK none : none = <<>> /\ IsList(none) /\ Len(none) = 0
  BY EmptyList
<1>3. Begins(none, s)
  BY <1>1, <1>2 DEF Begins
<1>4. QED
  BY <1>1, <1>2, <1>3 DEF Begins

\* The beginning of a row of five lists ends in one of them.
LEMMA BeginsRow ==
    ASSUME NEW v, NEW i, NEW m, NEW e, NEW x, IsList(v), IsList(i), IsList(m), IsList(e), IsList(x),
           Len(v) = 1, NEW c, Begins(c, Row(v, i, m, e, x)), c # <<>>
    PROVE  CutRow(c, v, i, m, e, x)
<1>1. PICK none : none = <<>> /\ IsList(none) /\ Len(none) = 0
  BY EmptyList
<1>2. PICK p : p = v \o i /\ IsList(p)
  BY Joined
<1>3. PICK q : q = p \o m /\ IsList(q)
  BY <1>2, Joined
<1>4. PICK r : r = q \o e /\ IsList(r)
  BY <1>3, Joined
<1>5. Begins(c, r \o x)
  BY <1>2, <1>3, <1>4 DEF Row
<1>6. /\ Begins(i, i) /\ Begins(m, m) /\ Begins(e, e)
      /\ Begins(none, i) /\ Begins(none, m) /\ Begins(none, e) /\ Begins(none, x)
  BY <1>1, BeginsItself
<1>7. ASSUME NEW d, Begins(d, x), c = r \o d PROVE CutRow(c, v, i, m, e, x)
  <2>1. c = Row(v, i, m, e, d)
    BY <1>2, <1>3, <1>4, <1>7 DEF Row
  <2>2. QED
    BY <1>6, <1>7, <2>1 DEF CutRow
<1>8. ASSUME NEW d, Begins(d, e), c = q \o d PROVE CutRow(c, v, i, m, e, x)
  <2>1. IsList(d) /\ IsList(q \o d)
    BY <1>3, <1>8, Joined DEF Begins
  <2>2. (q \o d) \o none = q \o d
    BY <1>1, <2>1, NothingJoined
  <2>3. c = Row(v, i, m, d, none)
    BY <1>2, <1>3, <1>8, <2>2 DEF Row
  <2>4. QED
    BY <1>6, <1>8, <2>3 DEF CutRow
<1>9. ASSUME NEW d, Begins(d, m), c = p \o d PROVE CutRow(c, v, i, m, e, x)
  <2>1. IsList(d) /\ IsList(p \o d)
    BY <1>2, <1>9, Joined DEF Begins
  <2>2. (p \o d) \o none = p \o d
    BY <1>1, <2>1, NothingJoined
  <2>3. c = Row(v, i, d, none, none)
    BY <1>2, <1>9, <2>2 DEF Row
  <2>4. QED
    BY <1>1, <1>6, <1>9, <2>3 DEF CutRow
<1>10. ASSUME NEW d, Begins(d, i), c = v \o d PROVE CutRow(c, v, i, m, e, x)
  <2>1. IsList(d) /\ IsList(v \o d)
    BY <1>10, Joined DEF Begins
  <2>2. (v \o d) \o none = v \o d
    BY <1>1, <2>1, NothingJoined
  <2>3. c = Row(v, d, none, none, none)
    BY <1>10, <2>2 DEF Row
  <2>4. QED
    BY <1>1, <1>6, <1>10, <2>3 DEF CutRow
<1>11. ASSUME Begins(c, v) PROVE CutRow(c, v, i, m, e, x)
  <2>1. IsList(c) /\ Len(c) \in Nat /\ Len(c) <= 1 /\ \A k \in 1 .. Len(c) : c[k] = v[k]
    BY <1>11, ListParts DEF Begins
  <2>2. Len(c) # 0
    <3> SUFFICES ASSUME Len(c) = 0 PROVE FALSE
      OBVIOUS
    <3>1. c = none
      BY <1>1, <2>1, SameList
    <3>2. QED
      BY <1>1, <3>1
  <2>3. c = v
    <3>1. Len(c) = Len(v) /\ IsList(c)
      BY <2>1, <2>2
    <3>2. QED
      BY <2>1, <3>1, SameList
  <2>4. v \o none = v
    BY <1>1, NothingJoined
  <2>5. c = v \o none
    BY <2>3, <2>4
  <2>6. QED
    BY <1>6, <1>10, <2>5
<1>12. Begins(c, r) \/ \E d : Begins(d, x) /\ c = r \o d
  <2>1. IsList(r)
    BY <1>4
  <2>2. QED
    BY <1>5, <2>1, BeginsJoined
<1>13. ASSUME Begins(c, r) PROVE Begins(c, q) \/ \E d : Begins(d, e) /\ c = q \o d
  <2>1. Begins(c, q \o e)
    BY <1>4, <1>13
  <2>2. IsList(q)
    BY <1>3
  <2>3. QED
    BY <2>1, <2>2, BeginsJoined
<1>14. ASSUME Begins(c, q) PROVE Begins(c, p) \/ \E d : Begins(d, m) /\ c = p \o d
  <2>1. Begins(c, p \o m)
    BY <1>3, <1>14
  <2>2. IsList(p)
    BY <1>2
  <2>3. QED
    BY <2>1, <2>2, BeginsJoined
<1>15. ASSUME Begins(c, p) PROVE Begins(c, v) \/ \E d : Begins(d, i) /\ c = v \o d
  <2>1. Begins(c, v \o i)
    BY <1>2, <1>15
  <2>2. QED
    BY <2>1, BeginsJoined
<1>16. QED
  BY <1>7, <1>8, <1>9, <1>10, <1>11, <1>12, <1>13, <1>14, <1>15

\* The beginning of at most one chunk is that chunk or none.
LEMMA BeginsOptional ==
    ASSUME NEW id, NEW n, NEW c, Begins(c, OptionalChunks(id, n))
    PROVE  \E k \in {Nil, n} : c = OptionalChunks(id, k) /\ (c = <<>> => k = Nil)
<1>1. OptionalChunks(id, Nil) = <<>>
  BY DEF OptionalChunks
<1>2. CASE c = <<>>
  BY <1>1, <1>2
<1>3. CASE c # <<>> /\ n = Nil
  <2>1. Begins(c, <<>>)
    BY <1>1, <1>3
  <2>2. PICK none : none = <<>> /\ IsList(none) /\ Len(none) = 0
    BY EmptyList
  <2>3. IsList(c) /\ Len(c) = 0
    BY <2>1, <2>2, ListParts DEF Begins
  <2>4. c = none
    BY <2>2, <2>3, SameList
  <2>5. QED
    BY <1>3, <2>2, <2>4
<1>4. CASE c # <<>> /\ n # Nil
  <2>1. OptionalChunks(id, n) = <<writeDataChunk(id, n, n)>>
    BY <1>4 DEF OptionalChunks
  <2>2. c = OptionalChunks(id, n)
    BY <1>4, <2>1, BeginsOne
  <2>3. QED
    BY <1>4, <2>2
<1>5. QED
  BY <1>2, <1>3, <1>4

\* An extended file that is cut off after some chunk is an extended file with
\* fewer chunks; of those after the images it has none if images are missing.
LEMMA CutExt ==
    ASSUME NEW x, NEW icc \in Nat \cup {Nil}, NEW exif \in Nat \cup {Nil}, NEW xmp \in Nat \cup {Nil},
           NEW ms, IsList(ms), NEW c, c # <<>>, Begins(c, ExtList(x, icc, ms, exif, xmp))
    PROVE  \E i \in {Nil, icc}, e \in {Nil, exif}, y \in {Nil, xmp} : \E m :
               /\ Begins(m, ms) /\ (m = ms \/ (e = Nil /\ y = Nil))
               /\ c = ExtList(x, i, m, e, y)
<1>1. PICK v : v = <<HeaderChunk(x)>> /\ IsList(v) /\ Len(v) = 1
  BY ShortLists
<1>2. PICK i, e, y : i = OptionalChunks("ICCP", icc) /\ e = OptionalChunks("EXIF", exif) /\ y = OptionalChunks("XMP", xmp)
  OBVIOUS
<1>3. IsList(i) /\ IsList(e) /\ IsList(y)
  BY <1>2, OptionalChunk DEF Chunked
<1>4. Begins(c, Row(v, i, ms, e, y))
  BY <1>1, <1>2 DEF ExtList
<1>5. CutRow(c, v, i, ms, e, y)
  BY <1>1, <1>3, <1>4, BeginsRow
<1>6. PICK a, m, s, t :
          /\ Begins(a, i) /\ Begins(m, ms) /\ Begins(s, e) /\ Begins(t, y)
          /\ m = ms \/ (s = <<>> /\ t = <<>>)
          /\ c = Row(v, a, m, s, t)
  BY <1>5 DEF CutRow
<1>7. PICK i1 \in {Nil, icc} : a = OptionalChunks("ICCP", i1)
  BY <1>2, <1>6, BeginsOptional
<1>8. PICK e1 \in {Nil, exif} : s = OptionalChunks("EXIF", e1) /\ (s = <<>> => e1 = Nil)
  BY <1>2, <1>6, BeginsOptional
<1>9. PICK y1 \in {Nil, xmp} : t = OptionalChunks("XMP", y1) /\ (t = <<>> => y1 = Nil)
  BY <1>2, <1>6, BeginsOptional
<1>10. c = ExtList(x, i1, m, e1, y1)
  BY <1>1, <1>6, <1>7, <1>8, <1>9 DEF ExtList
<1>11. m = ms \/ (e1 = Nil /\ y1 = Nil)
  BY <1>6, <1>8, <1>9
<1>12. QED
  BY <1>6, <1>10, <1>11

\* So the chunks of an image that is cut off,
LEMMA CutImage ==
    ASSUME NEW d, ImageOk(d), NEW m, Begins(m, SubList(d))
    PROVE  m = <<>> \/ m = OptionalChunks("ALPH", d.alph) \/ m = SubList(d)
<1>1. PICK a, w, b : a = OptionalChunks("ALPH", d.alph) /\ w = writeDataChunk(d.codec, d.n, Raw(d)) /\ b = <<w>>
  OBVIOUS
<1>2. d.alph \in Nat \cup {Nil}
  BY ImageParts
<1>3. IsList(a) /\ IsList(b)
  BY <1>1, <1>2, OptionalChunk, ShortLists DEF Chunked
<1>4. SubList(d) = a \o b
  BY <1>1 DEF SubList
<1>5. Begins(m, a) \/ \E r : Begins(r, b) /\ m = a \o r
  <2>1. Begins(m, a \o b)
    BY <1>4
  <2>2. QED
    BY <1>3, <2>1, BeginsJoined
<1>6. CASE Begins(m, a)
  <2>1. PICK k \in {Nil, d.alph} : m = OptionalChunks("ALPH", k)
    BY <1>1, <1>6, BeginsOptional
  <2>2. OptionalChunks("ALPH", Nil) = <<>>
    BY DEF OptionalChunks
  <2>3. QED
    BY <2>1, <2>2
<1>7. ASSUME NEW r, Begins(r, b), m = a \o r PROVE m = a \/ m = a \o b
  <2>1. r = <<>> \/ r = b
    BY <1>1, <1>7, BeginsOne
  <2>2. a \o <<>> = a
    BY <1>3, NothingJoined
  <2>3. QED
    BY <1>7, <2>1, <2>2
<1>8. QED
  BY <1>1, <1>4, <1>5, <1>6, <1>7

\* and of an animation.
LEMMA CutAnim ==
    ASSUME NEW bg, NEW loop, NEW fr, NEW n \in Nat, NEW m, Begins(m, AnimList(bg, loop, fr, n))
    PROVE  m = <<>> \/ \E t \in 0 .. n : m = AnimList(bg, loop, fr, t)
<1>1. PICK a : a = <<AnimChunk(bg, loop)>> /\ IsList(a)
  BY ShortLists
<1>2. \A k \in Nat : IsList(FrameChunks(fr, k)) /\ Len(FrameChunks(fr, k)) = k
  <2> TAKE k \in Nat
  <2>1. PICK g : g = FrameChunks(fr, k)
    OBVIOUS
  <2>2. g = [i \in 1 .. k |-> g[i]]
    BY <2>1 DEF FrameChunks
  <2>3. QED
    BY <2>1, <2>2, FunctionList
<1>3. Begins(m, a \o FrameChunks(fr, n))
  BY <1>1 DEF AnimList
<1>4. Begins(m, a) \/ \E d : Begins(d, FrameChunks(fr, n)) /\ m = a \o d
  <2>1. IsList(a) /\ IsList(FrameChunks(fr, n))
    BY <1>1, <1>2
  <2>2. QED
    BY <1>3, <2>1, BeginsJoined
<1>5. ASSUME NEW d, Begins(d, FrameChunks(fr, n)), m = a \o d
      PROVE  \E t \in 0 .. n : m = AnimList(bg, loop, fr, t)
  <2>1. IsList(d) /\ Len(d) \in Nat /\ Len(d) <= n /\ \A k \in 1 .. Len(d) : d[k] = FrameChunks(fr, n)[k]
    BY <1>2, <1>5, ListParts DEF Begins
  <2>2. PICK t \in 0 .. n : t = Len(d) /\ t \in Nat
    BY <2>1
  <2>3. PICK g : g = FrameChunks(fr, t) /\ IsList(g) /\ Len(g) = t
    BY <1>2, <2>2
  <2>4. \A k \in 1 .. t : d[k] = g[k]
    <3> TAKE k \in 1 .. t
    <3>1. k \in 1 .. n
      BY <2>2
    <3>2. g[k] = writeANMFChunk(fr[k]) /\ FrameChunks(fr, n)[k] = writeANMFChunk(fr[k])
      BY <2>3, <3>1 DEF FrameChunks
    <3>3. QED
      BY <2>1, <2>2, <3>2
  <2>5. d = g
    BY <2>1, <2>2, <2>3, <2>4, SameList
  <2>6. m = AnimList(bg, loop, fr, t)
    BY <1>1, <1>5, <2>3, <2>5 DEF AnimList
  <2>7. QED
    BY <2>6
<1>6. CASE Begins(m, a)
  <2>1. m = <<>> \/ m = a
    BY <1>1, <1>6, BeginsOne
  <2>2. PICK g : g = FrameChunks(fr, 0) /\ IsList(g) /\ Len(g) = 0
    BY <1>2
  <2>3. PICK none : none = <<>> /\ IsList(none) /\ Len(none) = 0
    BY EmptyList
  <2>4. g = none
    BY <2>2, <2>3, SameList
  <2>5. a \o none = a
    BY <1>1, <2>3, NothingJoined
  <2>6. AnimList(bg, loop, fr, 0) = a
    BY <1>1, <2>2, <2>4, <2>5 DEF AnimList
  <2>7. 0 \in 0 .. n
    OBVIOUS
  <2>8. QED
    BY <2>1, <2>6, <2>7
<1>7. QED
  BY <1>4, <1>5, <1>6

\* Every state of the demuxer, failed ones among them.
LEMMA DemuxAll ==
    ASSUME NEW f, NEW ids, Len(ids) \in Nat
    PROVE  \A k \in 1 .. Len(ids) : DAfter(f, ids)[k] = DStep(f, ids, DAfter(f, ids), k)
<1> DEFINE a == DAfter(f, ids)
<1>1. a = [k \in 1 .. Len(ids) |-> DStep(f, ids, a, k)]
  BY SomeDemux DEF DAfter
<1> HIDE DEF a
<1>2. \A k \in 1 .. Len(ids) : a[k] = DStep(f, ids, a, k)
  BY <1>1
<1>3. QED
  BY <1>2 DEF a

\* What the demuxer returns is its last state, or an error.
LEMMA DemuxResult ==
    ASSUME NEW f, NEW ids, NEW all, all = DAfter(f, ids)[Len(ids)]
    PROVE  DemuxExtended(f, ids) = IF all.ok /\ all.frames # <<>> THEN all ELSE Failed
<1> DEFINE x == Payload(f, ids[1])
           start == [ok |-> TRUE, flags |-> x.flags, w |-> x.w + 1, h |-> x.h + 1,
                  icc |-> Nil, exif |-> Nil, xmp |-> Nil,
                  bgColor |-> 0, loopCount |-> 0, frames |-> <<>>]
           step(after, k) ==
            IF k = 1 THEN start
            ELSE IF after[k - 1].ok THEN DemuxChunk(after[k - 1], f, ids, k) ELSE after[k - 1]
           a == CHOOSE after : after = [k \in 1 .. Len(ids) |-> step(after, k)]
<1>1. DemuxExtended(f, ids) = IF a[Len(ids)].ok /\ a[Len(ids)].frames # <<>> THEN a[Len(ids)] ELSE Failed
  BY DEF DemuxExtended
<1>2. a = DAfter(f, ids)
  BY DEF DAfter, DStep, DStart, DState
<1> HIDE DEF a
<1>3. QED
  BY <1>1, <1>2

\* and every state of the parser.
LEMMA ParseAll ==
    ASSUME NEW f, NEW ids, Len(ids) \in Nat
    PROVE  \A k \in 1 .. Len(ids) : PAfter(f, ids)[k] = PStep(f, ids, PAfter(f, ids), k)
<1> DEFINE a == PAfter(f, ids)
<1>1. a = [k \in 1 .. Len(ids) |-> PStep(f, ids, a, k)]
  BY SomeParse DEF PAfter
<1> HIDE DEF a
<1>2. \A k \in 1 .. Len(ids) : a[k] = PStep(f, ids, a, k)
  BY <1>1
<1>3. QED
  BY <1>2 DEF a

\* What the parser returns is its last state, or an error.
LEMMA ParseResult ==
    ASSUME NEW f, NEW ids
    PROVE  ParseVP8X(f, ids) = Failed \/ ParseVP8X(f, ids) = PAfter(f, ids)[Len(ids)]
<1> DEFINE x == Payload(f, ids[1])
           start == [ok |-> TRUE, done |-> FALSE, anim |-> FALSE, flags |-> x.flags,
                  w |-> x.w + 1, h |-> x.h + 1, icc |-> Nil, exif |-> Nil, xmp |-> Nil,
                  bgColor |-> -1, loopCount |-> 1, frames |-> <<>>]
           step(after, k) ==
            IF k = 1 THEN start
            ELSE IF after[k - 1].ok /\ ~after[k - 1].done
                 THEN ParseChunk(after[k - 1], f, ids, k) ELSE after[k - 1]
           a == CHOOSE after : after = [k \in 1 .. Len(ids) |-> step(after, k)]
<1>1. ParseVP8X(f, ids) = IF start.w * start.h >= MaxImageArea THEN Failed ELSE a[Len(ids)]
  BY DEF ParseVP8X
<1>2. a = PAfter(f, ids)
  BY DEF PAfter, PStep, PStart, PState
<1> HIDE DEF a
<1>3. QED
  BY <1>1, <1>2

\* A walk that could not read a chunk reports place 0.
LEMMA Unreadable == ASSUME NEW f PROVE Id(f, 0) = "unreadable"
    BY DEF Id

\* A chunk that cannot be read is no image.
LEMMA SameImages ==
    ASSUME NEW f, NEW ids, NEW is, AndNoMore(ids, is), NEW k \in 1 .. Len(is), NEW d
    PROVE  parseSingleExtendedFrame(d, f, ids, k) = parseSingleExtendedFrame(d, f, is, k)
<1> DEFINE I == {j \in k .. Len(ids) : Id(f, ids[j]) \in {"VP8", "VP8L"}}
           J == {j \in k .. Len(is) : Id(f, is[j]) \in {"VP8", "VP8L"}}
<1>1. /\ Len(ids) \in Nat /\ Len(is) \in Nat /\ Len(is) <= Len(ids)
      /\ \A q \in 1 .. Len(is) : ids[q] = is[q]
      /\ \A q \in 1 .. Len(ids) : q > Len(is) => Id(f, ids[q]) = "unreadable"
  BY Unreadable DEF AndNoMore
<1>2. I = J
  <2>1. ASSUME NEW q \in I PROVE q \in J
    <3>1. q \in k .. Len(ids) /\ q \in 1 .. Len(ids) /\ Id(f, ids[q]) \in {"VP8", "VP8L"}
      BY <1>1
    <3>2. ~(q > Len(is))
      BY <1>1, <3>1
    <3>3. q \in k .. Len(is) /\ q \in 1 .. Len(is)
      BY <1>1, <3>1, <3>2
    <3>4. QED
      BY <1>1, <3>1, <3>3
  <2>2. ASSUME NEW q \in J PROVE q \in I
    <3>1. q \in k .. Len(is) /\ q \in 1 .. Len(is) /\ q \in k .. Len(ids)
      BY <1>1
    <3>2. QED
      BY <1>1, <3>1
  <2> HIDE DEF I, J
  <2>3. QED
    BY <2>1, <2>2
<1>3. CASE J = {}
  <2>1. parseSingleExtendedFrame(d, f, ids, k) = Failed /\ parseSingleExtendedFrame(d, f, is, k) = Failed
    BY <1>2, <1>3 DEF parseSingleExtendedFrame
  <2>2. QED
    BY <2>1
<1>4. CASE J # {}
  <2>1. PICK i : i = Min(J) /\ i \in J
    <3>1. J \in SUBSET Nat
      BY <1>1
    <3> HIDE DEF J
    <3>2. QED
      BY <1>4, <3>1, NatMin
  <2>2. i \in k .. Len(is) /\ i \in 1 .. Len(is)
    BY <1>1, <2>1
  <2>3. PICK A : A = {j \in k .. i : Id(f, is[j]) = "ALPH"}
    OBVIOUS
  <2>4. A = {j \in k .. i : Id(f, ids[j]) = "ALPH"}
    <3>1. \A j \in k .. i : j \in 1 .. Len(is)
      BY <1>1, <2>2
    <3>2. \A j \in k .. i : ids[j] = is[j]
      BY <1>1, <3>1
    <3>3. QED
      BY <2>3, <3>2
  <2>5. A # {} => Max(A) \in 1 .. Len(is)
    <3> SUFFICES ASSUME A # {} PROVE Max(A) \in 1 .. Len(is)
      OBVIOUS
    <3>1. i \in Nat /\ A \in SUBSET (0 .. i)
      BY <1>1, <2>2, <2>3
    <3>2. Max(A) \in A
      BY <3>1, NatMax
    <3>3. QED
      BY <1>1, <2>2, <2>3, <3>2
  <2>6. PICK v : v = IF A = {} THEN Nil ELSE Payload(f, is[Max(A)])
    OBVIOUS
  <2>7. v = IF A = {} THEN Nil ELSE Payload(f, ids[Max(A)])
    BY <1>1, <2>5, <2>6
  <2>8. PICK image : image = Payload(f, is[i]) /\ image = Payload(f, ids[i])
    BY <1>1, <2>2
  <2>9. Min(I) = i
    BY <1>2, <2>1
  <2>10. parseSingleExtendedFrame(d, f, is, k) =
            [d EXCEPT !.frames = <<StillFrame(d.w, d.h, image, v, v > 0 \/ frameDataHasAlpha(image))>>]
    <3>1. parseSingleExtendedFrame(d, f, is, k) =
            LET alphas == {j \in k .. Min(J) : Id(f, is[j]) = "ALPH"}
                alph == IF alphas = {} THEN Nil ELSE Payload(f, is[Max(alphas)])
                im == Payload(f, is[Min(J)])
            IN  IF J = {} THEN Failed
                ELSE [d EXCEPT !.frames = <<StillFrame(d.w, d.h, im, alph, alph > 0 \/ frameDataHasAlpha(im))>>]
      BY DEF parseSingleExtendedFrame
    <3> HIDE DEF J
    <3>2. QED
      BY <1>4, <2>1, <2>3, <2>6, <2>8, <3>1
  <2>11. parseSingleExtendedFrame(d, f, ids, k) =
            [d EXCEPT !.frames = <<StillFrame(d.w, d.h, image, v, v > 0 \/ frameDataHasAlpha(image))>>]
    <3>1. parseSingleExtendedFrame(d, f, ids, k) =
            LET alphas == {j \in k .. Min(I) : Id(f, ids[j]) = "ALPH"}
                alph == IF alphas = {} THEN Nil ELSE Payload(f, ids[Max(alphas)])
                im == Payload(f, ids[Min(I)])
            IN  IF I = {} THEN Failed
                ELSE [d EXCEPT !.frames = <<StillFrame(d.w, d.h, im, alph, alph > 0 \/ frameDataHasAlpha(im))>>]
      BY DEF parseSingleExtendedFrame
    <3> HIDE DEF I, J
    <3>2. QED
      BY <1>2, <1>4, <2>9, <2>4, <2>7, <2>8, <3>1
  <2>12. QED
    BY <2>10, <2>11
<1>5. QED
  BY <1>3, <1>4

\* The demuxer passes over a chunk that cannot be read.
LEMMA SameDemux ==
    ASSUME NEW f, NEW ids, NEW is, AndNoMore(ids, is)
    PROVE  DemuxExtended(f, ids) = DemuxExtended(f, is)
<1>1. /\ Len(ids) \in Nat /\ Len(is) \in Nat /\ Len(is) >= 1 /\ Len(is) <= Len(ids) /\ Len(ids) <= Len(is) + 1
      /\ \A q \in 1 .. Len(is) : ids[q] = is[q]
      /\ \A q \in 1 .. Len(ids) : q > Len(is) => ids[q] = 0
  BY DEF AndNoMore
<1>2. PICK a, b : a = DAfter(f, ids) /\ b = DAfter(f, is)
  OBVIOUS
<1>3. /\ \A k \in 1 .. Len(ids) : a[k] = DStep(f, ids, a, k)
      /\ \A k \in 1 .. Len(is) : b[k] = DStep(f, is, b, k)
  BY <1>1, <1>2, DemuxAll
<1>4. ASSUME NEW k \in 1 .. Len(is), NEW d PROVE DemuxChunk(d, f, ids, k) = DemuxChunk(d, f, is, k)
  <2>1. ids[k] = is[k]
    BY <1>1
  <2>2. parseSingleExtendedFrame(d, f, ids, k) = parseSingleExtendedFrame(d, f, is, k)
    BY SameImages
  <2>3. QED
    BY <2>1, <2>2 DEF DemuxChunk
<1> DEFINE T == {k \in Nat : k + 1 <= Len(is) => a[k + 1] = b[k + 1]}
<1>5. 0 \in T
  <2>1. 0 + 1 = 1 /\ 1 \in 1 .. Len(is) /\ 1 \in 1 .. Len(ids)
    BY <1>1
  <2>2. a[1] = DStart(f, ids) /\ b[1] = DStart(f, is) /\ ids[1] = is[1]
    BY <1>1, <1>3, <2>1 DEF DStep
  <2>3. a[1] = b[1]
    BY <2>2 DEF DStart
  <2>4. QED
    BY <2>1, <2>3
<1>6. ASSUME NEW k \in T PROVE k + 1 \in T
  <2> SUFFICES ASSUME (k + 1) + 1 <= Len(is) PROVE a[(k + 1) + 1] = b[(k + 1) + 1]
    OBVIOUS
  <2>1. PICK l \in 1 .. Len(is) : l = (k + 1) + 1 /\ l - 1 = k + 1 /\ l # 1 /\ l \in 1 .. Len(ids)
    BY <1>1
  <2>2. k + 1 <= Len(is)
    BY <1>1
  <2>3. a[l - 1] = b[l - 1]
    BY <2>1, <2>2
  <2>4. a[l] = IF a[l - 1].ok THEN DemuxChunk(a[l - 1], f, ids, l) ELSE a[l - 1]
    BY <1>3, <2>1 DEF DStep
  <2>5. b[l] = IF b[l - 1].ok THEN DemuxChunk(b[l - 1], f, is, l) ELSE b[l - 1]
    BY <1>3, <2>1 DEF DStep
  <2>6. DemuxChunk(a[l - 1], f, ids, l) = DemuxChunk(a[l - 1], f, is, l)
    BY <1>4
  <2>7. QED
    BY <2>1, <2>3, <2>4, <2>5, <2>6
<1>7. PICK n \in Nat : n + 1 = Len(is)
  <2>1. Len(is) - 1 \in Nat /\ (Len(is) - 1) + 1 = Len(is)
    BY <1>1
  <2>2. QED
    BY <2>1
<1>8. n \in T
  <2>1. T \in SUBSET Nat
    OBVIOUS
  <2> HIDE DEF T
  <2>2. QED
    BY <1>5, <1>6, <2>1, CountUp
<1>9. a[Len(is)] = b[Len(is)]
  BY <1>1, <1>7, <1>8
<1>10. a[Len(ids)] = b[Len(is)]
  <2>1. CASE Len(ids) = Len(is)
    BY <1>9, <2>1
  <2>2. CASE Len(ids) = Len(is) + 1
    <3>1. PICK l \in 1 .. Len(ids) : l = Len(ids) /\ l - 1 = Len(is) /\ l # 1 /\ l > Len(is)
      BY <1>1, <2>2
    <3>2. a[l] = IF a[l - 1].ok THEN DemuxChunk(a[l - 1], f, ids, l) ELSE a[l - 1]
      BY <1>3, <3>1 DEF DStep
    <3>3. Id(f, ids[l]) = "unreadable"
      BY <1>1, <3>1, Unreadable
    <3>4. DemuxChunk(a[l - 1], f, ids, l) = a[l - 1]
      BY <3>3 DEF DemuxChunk
    <3>5. QED
      BY <1>9, <3>1, <3>2, <3>4
  <2>3. Len(ids) = Len(is) \/ Len(ids) = Len(is) + 1
    BY <1>1
  <2>4. QED
    BY <2>1, <2>2, <2>3
<1>11. PICK all : all = DAfter(f, ids)[Len(ids)] /\ all = DAfter(f, is)[Len(is)]
  BY <1>2, <1>10
<1>12. QED
  BY <1>11, DemuxResult

\* The least element of a set of numbers is its minimum.
LEMMA MinIs ==
    ASSUME NEW T \in SUBSET Nat, NEW i \in T, \A t \in T : i <= t
    PROVE  Min(T) = i
<1>1. Min(T) \in T /\ Min(T) <= i
  BY NatMin
<1>2. i <= Min(T)
  BY <1>1
<1>3. Min(T) \in Nat /\ i \in Nat
  BY <1>1
<1>4. PICK m \in Nat : m = Min(T)
  BY <1>3
<1>5. QED
  BY <1>1, <1>2, <1>3, <1>4

\* The image the parser looks for is behind the last of the ALPH chunks.
LEMMA ImageFromFirst ==
    ASSUME NEW p, NEW f, NEW ids, NEW k
    PROVE  parseExtSingleImage(p, f, ids, k) = ImageFrom(p, f, ids, k, FirstNot(f, ids, k, Len(ids)))
BY DEF parseExtSingleImage, ImageFrom, FirstNot

\* A chunk that cannot be read is no image to the parser either.
LEMMA SameImage ==
    ASSUME NEW f, NEW ids, NEW is, AndNoMore(ids, is), NEW k \in 1 .. Len(is), NEW p
    PROVE  parseExtSingleImage(p, f, ids, k) = parseExtSingleImage(p, f, is, k)
<1> DEFINE A == {q \in k .. Len(is) : Id(f, is[q]) # "ALPH"}
           I == {q \in k .. Len(ids) : Id(f, ids[q]) # "ALPH"} \union {Len(ids) + 1}
           J == {q \in k .. Len(is) : Id(f, is[q]) # "ALPH"} \union {Len(is) + 1}
<1>1. /\ Len(ids) \in Nat /\ Len(is) \in Nat /\ Len(is) <= Len(ids) /\ Len(ids) <= Len(is) + 1
      /\ \A q \in 1 .. Len(is) : ids[q] = is[q]
      /\ \A q \in 1 .. Len(ids) : q > Len(is) => Id(f, ids[q]) = "unreadable"
  BY Unreadable DEF AndNoMore
<1>2. Min(I) = FirstNot(f, ids, k, Len(ids)) /\ Min(J) = FirstNot(f, is, k, Len(is))
  BY DEF FirstNot
<1>3. I \in SUBSET Nat /\ J \in SUBSET Nat
  BY <1>1
<1>4. CASE A = {}
  <2>1. \A q \in k .. Len(is) : Id(f, is[q]) = "ALPH"
    BY <1>4
  <2>2. PICK n \in Nat : n = Len(is) + 1 /\ n > Len(is)
    BY <1>1
  <2>3. J = {n}
    BY <1>4, <2>2
  <2>4. Min(J) = n
    BY <2>2, <2>3, OnlyOne
  <2>5. ImageFrom(p, f, is, k, n) = Failed
    BY <2>2 DEF ImageFrom
  <2>6. n \in I /\ \A q \in I : n <= q
    <3>1. CASE Len(ids) = Len(is)
      <4>1. n \in I
        BY <2>2, <3>1
      <4>2. ASSUME NEW q \in I PROVE n <= q
        <5>1. CASE q = Len(ids) + 1
          BY <2>2, <3>1, <5>1
        <5>2. CASE q # Len(ids) + 1
          <6>1. q \in k .. Len(is) /\ Id(f, ids[q]) # "ALPH" /\ q \in 1 .. Len(is)
            BY <1>1, <3>1, <5>2
          <6>2. QED
            BY <1>1, <2>1, <6>1
        <5>3. QED
          BY <5>1, <5>2
      <4>3. QED
        BY <4>1, <4>2
    <3>2. CASE Len(ids) = Len(is) + 1
      <4>1. n \in k .. Len(ids) /\ n \in 1 .. Len(ids)
        BY <1>1, <2>2, <3>2
      <4>2. Id(f, ids[n]) = "unreadable"
        BY <1>1, <2>2, <4>1
      <4>3. n \in I
        BY <4>1, <4>2
      <4>4. ASSUME NEW q \in I PROVE n <= q
        <5>0. q \in Nat
          BY <1>3
        <5>1. CASE q = Len(ids) + 1
          BY <1>1, <2>2, <3>2, <5>1
        <5>2. CASE q # Len(ids) + 1 /\ ~(n <= q)
          <6>1. q \in k .. Len(ids) /\ Id(f, ids[q]) # "ALPH"
            BY <5>2
          <6>2. q \in k .. Len(is) /\ q \in 1 .. Len(is)
            BY <1>1, <2>2, <5>0, <5>2, <6>1
          <6>3. QED
            BY <1>1, <2>1, <6>1, <6>2
        <5>3. QED
          BY <5>1, <5>2
      <4>5. QED
        BY <4>3, <4>4
    <3>3. Len(ids) = Len(is) \/ Len(ids) = Len(is) + 1
      BY <1>1
    <3>4. QED
      BY <3>1, <3>2, <3>3
  <2>7. Min(I) = n
    <3> HIDE DEF I
    <3>1. QED
      BY <1>3, <2>6, MinIs
  <2>8. ImageFrom(p, f, ids, k, n) = Failed
    <3>1. CASE n > Len(ids)
      BY <3>1 DEF ImageFrom
    <3>2. CASE ~(n > Len(ids))
      <4>1. n \in 1 .. Len(ids)
        BY <1>1, <2>2, <3>2
      <4>2. Id(f, ids[n]) = "unreadable"
        BY <1>1, <2>2, <4>1
      <4>3. QED
        BY <3>2, <4>2 DEF ImageFrom
    <3>3. QED
      BY <3>1, <3>2
  <2> HIDE DEF I, J
  <2>9. QED
    BY <1>2, <2>4, <2>5, <2>7, <2>8, ImageFromFirst
<1>5. CASE A # {}
  <2>1. PICK i : i = Min(A) /\ i \in A /\ \A q \in A : i <= q
    <3>1. A \in SUBSET Nat
      BY <1>1
    <3> HIDE DEF A
    <3>2. QED
      BY <1>5, <3>1, NatMin
  <2>2. i \in k .. Len(is) /\ i \in 1 .. Len(is) /\ Id(f, is[i]) # "ALPH" /\ ids[i] = is[i] /\ i \in k .. Len(ids)
    BY <1>1, <2>1
  <2>3. i \in J /\ \A q \in J : i <= q
    <3>1. i \in J
      BY <2>2
    <3>2. \A q \in J : q \in A \/ q = Len(is) + 1
      OBVIOUS
    <3>3. i <= Len(is) + 1
      BY <1>1, <2>2
    <3>4. QED
      BY <2>1, <3>1, <3>2, <3>3
  <2>4. i \in I /\ \A q \in I : i <= q
    <3>1. i \in I
      BY <2>2
    <3>2. ASSUME NEW q \in I PROVE i <= q
      <4>0. q \in Nat
        BY <1>3
      <4>1. CASE q <= Len(is)
        <5>1. q \in k .. Len(ids) /\ Id(f, ids[q]) # "ALPH"
          BY <1>1, <4>1
        <5>2. q \in k .. Len(is) /\ q \in 1 .. Len(is)
          BY <1>1, <4>1, <5>1
        <5>3. q \in A
          BY <1>1, <5>1, <5>2
        <5>4. QED
          BY <2>1, <5>3
      <4>2. CASE ~(q <= Len(is))
        BY <1>1, <2>2, <4>0, <4>2
      <4>3. QED
        BY <4>1, <4>2
    <3>3. QED
      BY <3>1, <3>2
  <2>5. Min(I) = i /\ Min(J) = i
    <3> HIDE DEF I, J
    <3>1. QED
      BY <1>3, <2>3, <2>4, MinIs
  <2>6. ~(i > Len(ids)) /\ ~(i > Len(is)) /\ (i # k => i - 1 \in 1 .. Len(is))
    BY <1>1, <2>2
  <2>7. i # k => ids[i - 1] = is[i - 1]
    BY <1>1, <2>6
  <2>8. PICK alph : alph = (IF i = k THEN Nil ELSE Payload(f, ids[i - 1])) /\ alph = (IF i = k THEN Nil ELSE Payload(f, is[i - 1]))
    BY <2>7
  <2>9. ImageFrom(p, f, ids, k, i) = ImageFrom(p, f, is, k, i)
    BY <2>2, <2>6, <2>8 DEF ImageFrom
  <2> HIDE DEF I, J
  <2>10. QED
    BY <1>2, <2>5, <2>9, ImageFromFirst
<1>6. QED
  BY <1>4, <1>5

\* At a chunk that cannot be read the parser fails, unless it is done.
LEMMA SameParse ==
    ASSUME NEW f, NEW ids, NEW is, AndNoMore(ids, is)
    PROVE  PAfter(f, ids)[Len(ids)] = Failed \/ PAfter(f, ids)[Len(ids)] = PAfter(f, is)[Len(is)]
<1>1. /\ Len(ids) \in Nat /\ Len(is) \in Nat /\ Len(is) >= 1 /\ Len(is) <= Len(ids) /\ Len(ids) <= Len(is) + 1
      /\ \A q \in 1 .. Len(is) : ids[q] = is[q]
      /\ \A q \in 1 .. Len(ids) : q > Len(is) => ids[q] = 0
  BY DEF AndNoMore
<1>2. PICK a, b : a = PAfter(f, ids) /\ b = PAfter(f, is)
  OBVIOUS
<1>3. /\ \A k \in 1 .. Len(ids) : a[k] = PStep(f, ids, a, k)
      /\ \A k \in 1 .. Len(is) : b[k] = PStep(f, is, b, k)
  BY <1>1, <1>2, ParseAll
<1>4. ASSUME NEW k \in 1 .. Len(is), NEW d PROVE ParseChunk(d, f, ids, k) = ParseChunk(d, f, is, k)
  <2>1. ids[k] = is[k]
    BY <1>1
  <2>2. parseExtSingleImage(d, f, ids, k) = parseExtSingleImage(d, f, is, k)
    BY SameImage
  <2>3. QED
    BY <2>1, <2>2 DEF ParseChunk
<1> DEFINE T == {k \in Nat : k + 1 <= Len(is) => a[k + 1] = b[k + 1]}
<1>5. 0 \in T
  <2>1. 0 + 1 = 1 /\ 1 \in 1 .. Len(is) /\ 1 \in 1 .. Len(ids)
    BY <1>1
  <2>2. a[1] = PStart(f, ids) /\ b[1] = PStart(f, is) /\ ids[1] = is[1]
    BY <1>1, <1>3, <2>1 DEF PStep
  <2>3. a[1] = b[1]
    BY <2>2 DEF PStart
  <2>4. QED
    BY <2>1, <2>3
<1>6. ASSUME NEW k \in T PROVE k + 1 \in T
  <2> SUFFICES ASSUME (k + 1) + 1 <= Len(is) PROVE a[(k + 1) + 1] = b[(k + 1) + 1]
    OBVIOUS
  <2>1. PICK l \in 1 .. Len(is) : l = (k + 1) + 1 /\ l - 1 = k + 1 /\ l # 1 /\ l \in 1 .. Len(ids)
    BY <1>1
  <2>2. k + 1 <= Len(is)
    BY <1>1
  <2>3. a[l - 1] = b[l - 1]
    BY <2>1, <2>2
  <2>4. a[l] = IF a[l - 1].ok /\ ~a[l - 1].done THEN ParseChunk(a[l - 1], f, ids, l) ELSE a[l - 1]
    BY <1>3, <2>1 DEF PStep
  <2>5. b[l] = IF b[l - 1].ok /\ ~b[l - 1].done THEN ParseChunk(b[l - 1], f, is, l) ELSE b[l - 1]
    BY <1>3, <2>1 DEF PStep
  <2>6. ParseChunk(a[l - 1], f, ids, l) = ParseChunk(a[l - 1], f, is, l)
    BY <1>4
  <2>7. QED
    BY <2>1, <2>3, <2>4, <2>5, <2>6
<1>7. PICK n \in Nat : n + 1 = Len(is)
  <2>1. Len(is) - 1 \in Nat /\ (Len(is) - 1) + 1 = Len(is)
    BY <1>1
  <2>2. QED
    BY <2>1
<1>8. n \in T
  <2>1. T \in SUBSET Nat
    OBVIOUS
  <2> HIDE DEF T
  <2>2. QED
    BY <1>5, <1>6, <2>1, CountUp
<1>9. a[Len(is)] = b[Len(is)]
  BY <1>1, <1>7, <1>8
<1>10. a[Len(ids)] = b[Len(is)] \/ a[Len(ids)] = Failed
  <2>1. CASE Len(ids) = Len(is)
    BY <1>9, <2>1
  <2>2. CASE Len(ids) = Len(is) + 1
    <3>1. PICK l \in 1 .. Len(ids) : l = Len(ids) /\ l - 1 = Len(is) /\ l # 1 /\ l > Len(is)
      BY <1>1, <2>2
    <3>2. a[l] = IF a[l - 1].ok /\ ~a[l - 1].done THEN ParseChunk(a[l - 1], f, ids, l) ELSE a[l - 1]
      BY <1>3, <3>1 DEF PStep
    <3>3. Id(f, ids[l]) = "unreadable"
      BY <1>1, <3>1, Unreadable
    <3>4. ParseChunk(a[l - 1], f, ids, l) = Failed
      BY <3>3 DEF ParseChunk
    <3>5. QED
      BY <1>9, <3>1, <3>2, <3>4
  <2>3. Len(ids) = Len(is) \/ Len(ids) = Len(is) + 1
    BY <1>1
  <2>4. QED
    BY <2>1, <2>2, <2>3
<1>11. QED
  BY <1>2, <1>10

\* Metadata whose chunk is there is kept.
LEMMA OptionalKept ==
    ASSUME NEW p, NEW c, NEW bytes \in Nat, Here(p, c, bytes), NEW id, NEW was \in Nat \cup {Nil},
           NEW n \in {Nil, was}, NEW s, Within(OptionalChunks(id, n), c, s)
    PROVE  Kept(Written(p), bytes, n, was, id)
<1> SUFFICES ASSUME n # Nil PROVE Kept(Written(p), bytes, n, was, id)
  BY DEF Kept
<1>1. n = was /\ n \in Nat
  OBVIOUS
<1>2. PICK w : w = writeDataChunk(id, n, n) /\ w[1].v.id = id /\ w[1].v.size = n /\ w[2].n = n
  BY <1>1, DataChunk
<1>3. PICK v : v = <<w>> /\ Len(v) = 1 /\ v[1] = w
  BY ShortLists
<1>4. OptionalChunks(id, n) = v
  BY <1>2, <1>3 DEF OptionalChunks
<1>5. PICK ids, cs, j : CutReads(p, ids, cs, j, bytes) /\ Begins(c, cs) /\ Len(c) = j
  BY DEF Here
<1>6. j \in Nat
  BY <1>5, ListParts DEF Begins
<1>7. s \in Nat /\ s + 1 <= j /\ c[s + 1] = w
  BY <1>3, <1>4, <1>5 DEF Within
<1>8. PICK k \in 1 .. j : k = s + 1 /\ c[k] = w
  BY <1>6, <1>7
<1>9. cs[k] = w
  BY <1>5, <1>8 DEF Begins
<1>10. cs[k][2].n = cs[k][1].v.size /\ cs[k][1].v.id \in {id}
  BY <1>2, <1>9
<1>11. ids[k] \in ArrivedIn(Written(p), bytes, {id})
  BY <1>5, <1>10, ChunkArrived
<1>12. QED
  BY <1>1, <1>11 DEF Kept

\* What has arrived can be counted.
LEMMA ArrivedFinite ==
    ASSUME NEW p, Pieces(p), NEW bytes, NEW names
    PROVE  IsFiniteSet(ArrivedIn(Written(p), bytes, names)) /\ Cardinality(ArrivedIn(Written(p), bytes, names)) \in Nat
<1>1. PICK A : A = ArrivedIn(Written(p), bytes, names)
  OBVIOUS
<1>2. DOMAIN Written(p) = 1 .. Len(p) /\ Len(p) \in Nat
  BY WrittenRules, AtType
<1>3. A \subseteq 1 .. Len(p)
  BY <1>1, <1>2 DEF ArrivedIn
<1>4. IsFiniteSet(1 .. Len(p))
  BY <1>2, FS_Interval
<1>5. IsFiniteSet(A)
  BY <1>3, <1>4, FS_Subset
<1>6. Cardinality(A) \in Nat
  BY <1>5, FS_CardinalityType
<1>7. QED
  BY <1>1, <1>5, <1>6

\* With each frame that has arrived an image has arrived.
LEMMA FramesArrived ==
    ASSUME NEW p, NEW c, NEW bytes \in Nat, Here(p, c, bytes), NEW fr, NEW t \in Nat,
           \A l \in 1 .. t : ImageOk(fr[l].data), NEW s, Within(FrameChunks(fr, t), c, s)
    PROVE  t <= Cardinality(ArrivedIn(Written(p), bytes, {"VP8", "VP8L"}))
<1>1. PICK ids, cs, j : CutReads(p, ids, cs, j, bytes) /\ Begins(c, cs) /\ Len(c) = j
  BY DEF Here
<1>2. j \in Nat /\ Pieces(p)
  BY <1>1, ListParts DEF Begins, CutReads
<1>3. PICK g : g = FrameChunks(fr, t) /\ Len(g) = t /\ \A l \in 1 .. t : g[l] = writeANMFChunk(fr[l])
  <2>1. PICK g : g = FrameChunks(fr, t)
    OBVIOUS
  <2>2. g = [l \in 1 .. t |-> g[l]] /\ \A l \in 1 .. t : g[l] = writeANMFChunk(fr[l])
    BY <2>1 DEF FrameChunks
  <2>3. Len(g) = t
    BY <2>2, FunctionList
  <2>4. QED
    BY <2>1, <2>2, <2>3
<1>4. s \in Nat /\ s + t <= j /\ \A l \in 1 .. t : c[s + l] = writeANMFChunk(fr[l])
  BY <1>1, <1>3 DEF Within
<1>5. PICK A : A = ArrivedIn(Written(p), bytes, {"VP8", "VP8L"})
  OBVIOUS
<1> DEFINE lo(l) == At(p, ids[s + l])
           hi(l) == At(p, ids[s + l]) + 8 + cs[s + l][1].v.size
           In(l, i) == At(p, i) \in Nat /\ lo(l) \in Nat /\ lo(l) <= At(p, i) /\ At(p, i) < hi(l)
<1>6. ASSUME NEW l \in 1 .. t PROVE (\E i \in A : In(l, i)) /\ s + l \in 1 .. j
  <2>1. PICK k \in 1 .. j : k = s + l
    BY <1>2, <1>4
  <2>2. cs[k] = writeANMFChunk(fr[l])
    BY <1>1, <1>4, <2>1 DEF Begins
  <2>3. PICK r : r = fr[l] /\ ImageOk(r.data)
    OBVIOUS
  <2>4. \E i \in ArrivedIn(Written(p), bytes, {"VP8", "VP8L"}) :
             /\ At(p, i) \in Nat /\ At(p, ids[k]) \in Nat
             /\ At(p, ids[k]) <= At(p, i) /\ At(p, i) < At(p, ids[k]) + 8 + cs[k][1].v.size
    BY <1>1, <2>2, <2>3, FrameArrived
  <2>5. QED
    BY <1>5, <2>1, <2>4
<1>7. ASSUME NEW l \in 1 .. t, NEW m \in 1 .. t, l < m PROVE hi(l) <= lo(m)
  <2>1. PICK k \in 1 .. j, q \in 1 .. j : k = s + l /\ q = s + m
    BY <1>6
  <2>2. k < q
    BY <1>4, <1>7, <2>1
  <2>3. At(p, ids[k]) + 8 + cs[k][1].v.size <= At(p, ids[q])
    BY <1>1, <2>2 DEF CutReads
  <2>4. QED
    BY <2>1, <2>3
<1>8. ASSUME NEW l \in 1 .. t, NEW m \in 1 .. t, l < m, NEW i, In(l, i), In(m, i) PROVE FALSE
  <2>1. hi(l) <= lo(m)
    BY <1>7, <1>8
  <2>2. PICK k \in 1 .. j : k = s + l
    BY <1>6
  <2>3. IsChunk(cs[k])
    BY <1>1 DEF CutReads
  <2>4. Pieces(cs[k]) /\ Len(cs[k]) >= 2 /\ Len(cs[k]) \in Nat /\ cs[k][1].kind = "header"
    BY <2>3, AtType DEF IsChunk
  <2>5. 1 \in 1 .. Len(cs[k])
    BY <2>4
  <2>6. cs[k][1].v.size \in Nat
    BY <2>4, <2>5 DEF Pieces, IsPiece
  <2>7. PICK a \in Nat, b \in Nat, y \in Nat, z \in Nat : a = lo(l) /\ b = lo(m) /\ y = At(p, i) /\ z = cs[k][1].v.size
    BY <1>8, <2>6
  <2>8. hi(l) = a + 8 + z
    BY <2>2, <2>7
  <2>9. y < a + 8 + z /\ a + 8 + z <= b /\ b <= y
    BY <1>8, <2>1, <2>7, <2>8
  <2>10. QED
    BY <2>9
<1> HIDE DEF In
<1> DEFINE w == [l \in 1 .. t |-> CHOOSE i \in A : In(l, i)]
<1>9. \A l \in 1 .. t : w[l] \in A /\ In(l, w[l])
  BY <1>6
<1>10. w \in [1 .. t -> A]
  BY <1>9
<1> HIDE DEF w
<1>11. \A l, m \in 1 .. t : l # m => w[l] # w[m]
  <2> TAKE l, m \in 1 .. t
  <2> SUFFICES ASSUME l # m, w[l] = w[m] PROVE FALSE
    OBVIOUS
  <2>1. In(l, w[l]) /\ In(m, w[l])
    BY <1>9
  <2>2. CASE l < m
    BY <1>8, <2>1, <2>2
  <2>3. CASE m < l
    BY <1>8, <2>1, <2>3
  <2>4. l < m \/ m < l
    OBVIOUS
  <2>5. QED
    BY <2>2, <2>3, <2>4
<1>12. IsFiniteSet(A) /\ Cardinality(A) \in Nat
  BY <1>2, <1>5, ArrivedFinite
<1>13. IsFiniteSet(1 .. t) /\ Cardinality(1 .. t) = t
  BY FS_Interval
<1>14. ~(Cardinality(A) < t)
  <2> SUFFICES ASSUME Cardinality(A) < t PROVE FALSE
    OBVIOUS
  <2>1. Cardinality(A) < Cardinality(1 .. t)
    BY <1>13
  <2>2. \E l, m \in 1 .. t : l # m /\ w[l] = w[m]
    BY <1>10, <1>12, <1>13, <2>1, FS_PigeonHole
  <2>3. QED
    BY <1>11, <2>2
<1>15. t <= Cardinality(A)
  BY <1>12, <1>14
<1>16. QED
  BY <1>5, <1>15

\* With a still image its data have arrived.
LEMMA ImageArrived ==
    ASSUME NEW p, NEW c, NEW bytes \in Nat, Here(p, c, bytes), NEW d, ImageOk(d),
           NEW s, Within(SubList(d), c, s)
    PROVE  1 <= Cardinality(ArrivedIn(Written(p), bytes, {"VP8", "VP8L"}))
<1>1. PICK ids, cs, j : CutReads(p, ids, cs, j, bytes) /\ Begins(c, cs) /\ Len(c) = j
  BY DEF Here
<1>2. j \in Nat /\ Pieces(p)
  BY <1>1, ListParts DEF Begins, CutReads
<1>3. PICK n \in Nat : n = d.n
  BY ImageParts
<1>4. PICK w : w = writeDataChunk(d.codec, d.n, Raw(d)) /\ w[1].v.id = d.codec /\ w[1].v.size = n /\ w[2].n = n
  BY <1>3, DataChunk
<1>5. PICK a : a = OptionalChunks("ALPH", d.alph) /\ IsList(a)
  BY ImageParts, OptionalChunk DEF Chunked
<1>6. PICK v : v = <<w>> /\ IsList(v) /\ Len(v) = 1 /\ v[1] = w
  BY ShortLists
<1>7. PICK l \in Nat : l = Len(a) /\ Len(a \o v) = l + 1 /\ (a \o v)[l + 1] = w
  <2>1. Len(a) \in Nat /\ Len(a \o v) = Len(a) + Len(v) /\ \A i \in 1 .. Len(v) : (a \o v)[Len(a) + i] = v[i]
    BY <1>5, <1>6, Joined
  <2>2. QED
    BY <1>6, <2>1
<1>8. SubList(d) = a \o v
  BY <1>4, <1>5, <1>6 DEF SubList
<1>9. s \in Nat /\ s + (l + 1) <= j /\ c[s + (l + 1)] = w
  BY <1>1, <1>7, <1>8 DEF Within
<1>10. PICK k \in 1 .. j : k = s + (l + 1)
  BY <1>2, <1>9
<1>11. cs[k] = w
  BY <1>1, <1>9, <1>10 DEF Begins
<1>12. cs[k][2].n = cs[k][1].v.size /\ cs[k][1].v.id \in {"VP8", "VP8L"}
  BY <1>4, <1>11, ImageParts
<1>13. PICK A : A = ArrivedIn(Written(p), bytes, {"VP8", "VP8L"})
  OBVIOUS
<1>14. ids[k] \in A
  BY <1>1, <1>12, <1>13, ChunkArrived
<1>15. IsFiniteSet(A) /\ Cardinality(A) \in Nat
  BY <1>2, <1>13, ArrivedFinite
<1>16. Cardinality(A) # 0
  BY <1>14, <1>15, FS_EmptySet
<1>17. QED
  BY <1>13, <1>15, <1>16

\* What a reader has found of a file that is cut off it has read like a whole file's.
LEMMA Truncated ==
    ASSUME NEW p, NEW ids, NEW cs, NEW j, NEW bytes, CutReads(p, ids, cs, j, bytes), j >= 1
    PROVE  \E is, c : Begins(c, cs) /\ c # <<>> /\ AndNoMore(ids, is) /\ Reads(p, is, c) /\ Here(p, c, bytes)
<1>1. /\ Pieces(p) /\ IsList(ids) /\ IsList(cs) /\ j \in 0 .. Len(cs)
      /\ Len(ids) \in Nat /\ j <= Len(ids) /\ Len(ids) <= j + 1
      /\ \A k \in 1 .. Len(ids) : k > j => ids[k] = 0
      /\ \A k \in 1 .. j :
             /\ ids[k] \in 1 .. Len(p) /\ ids[k] # 0 /\ Within(cs[k], p, ids[k] - 1)
             /\ Id(Written(p), ids[k]) = cs[k][1].v.id
             /\ Payload(Written(p), ids[k]) = cs[k][2].v
  BY DEF CutReads
<1>2. Len(cs) \in Nat
  BY <1>1, ListParts
<1>3. j \in Nat /\ j <= Len(cs)
  BY <1>1, <1>2
<1>4. PICK is : is = [k \in 1 .. j |-> ids[k]]
  OBVIOUS
<1>5. PICK c : c = [k \in 1 .. j |-> cs[k]]
  OBVIOUS
<1>6. IsList(is) /\ Len(is) = j /\ \A k \in 1 .. j : is[k] = ids[k]
  <2>1. is = [k \in 1 .. j |-> is[k]]
    BY <1>4
  <2>2. IsList(is) /\ Len(is) = j
    BY <1>3, <2>1, FunctionList
  <2>3. QED
    BY <1>4, <2>2
<1>7. IsList(c) /\ Len(c) = j /\ \A k \in 1 .. j : c[k] = cs[k]
  <2>1. c = [k \in 1 .. j |-> c[k]]
    BY <1>5
  <2>2. IsList(c) /\ Len(c) = j
    BY <1>3, <2>1, FunctionList
  <2>3. QED
    BY <1>5, <2>2
<1>8. Begins(c, cs)
  BY <1>1, <1>3, <1>7 DEF Begins
<1>9. c # <<>>
  BY <1>7, EmptyList
<1>10. AndNoMore(ids, is)
  BY <1>1, <1>3, <1>6 DEF AndNoMore
<1>11. Reads(p, is, c)
  <2>1. ASSUME NEW k \in 1 .. Len(c)
        PROVE  /\ is[k] \in 1 .. Len(p) /\ is[k] # 0 /\ Within(c[k], p, is[k] - 1)
               /\ Id(Written(p), is[k]) = c[k][1].v.id
               /\ Payload(Written(p), is[k]) = c[k][2].v
    <3>1. k \in 1 .. j
      BY <1>7
    <3>2. is[k] = ids[k] /\ c[k] = cs[k]
      BY <1>6, <1>7, <3>1
    <3>3. QED
      BY <1>1, <3>1, <3>2
  <2>2. QED
    BY <1>1, <1>6, <1>7, <2>1 DEF Reads
<1>12. Here(p, c, bytes)
  BY <1>7, <1>8 DEF Here
<1>13. QED
  BY <1>8, <1>9, <1>10, <1>11, <1>12

\* A reader finds an error, or the first chunks.
LEMMA CutExtFile ==
    ASSUME NEW x, NEW icc \in Nat \cup {Nil}, NEW exif \in Nat \cup {Nil}, NEW xmp \in Nat \cup {Nil},
           NEW b, NEW ms, Chunked(b, ms),
           NEW f, f = Written(ExtFile(x, icc, b, exif, xmp)), NEW bytes \in Nat, NEW pad,
           NEW ids, ids = Walk(f, RIFFHeaderSize, PayloadEnd(f, bytes), pad)
    PROVE  \/ bytes < RIFFHeaderSize \/ ids = <<>> \/ ids[1] = 0
           \/ \E p, is, i, m, e, y :
                  /\ CutFile(f, bytes, x, icc, ms, exif, xmp, p, is, i, m, e, y)
                  /\ AndNoMore(ids, is) /\ Id(f, ids[1]) = "VP8X"
<1> SUFFICES ASSUME ~(bytes < RIFFHeaderSize), ids # <<>>, ids[1] # 0
             PROVE  \E p, is, i, m, e, y :
                        /\ CutFile(f, bytes, x, icc, ms, exif, xmp, p, is, i, m, e, y)
                        /\ AndNoMore(ids, is) /\ Id(f, ids[1]) = "VP8X"
  OBVIOUS
<1>1. PICK body, cs : body = ExtBody(x, icc, b, exif, xmp) /\ cs = ExtList(x, icc, ms, exif, xmp)
  OBVIOUS
<1>2. Chunked(body, cs)
  BY <1>1, ExtChunked
<1>3. PICK p, size : size = 4 + Size(body) /\ p = FilePieces(size, body)
  OBVIOUS
<1>4. f = Written(p)
  BY <1>1, <1>3 DEF ExtFile
<1>5. PICK j : CutReads(p, ids, cs, j, bytes)
  <2>1. ids = Walk(Written(p), RIFFHeaderSize, PayloadEnd(Written(p), bytes), pad)
    BY <1>4
  <2>2. QED
    BY <1>2, <1>3, <2>1, CutRead
<1>6. j >= 1
  <2>1. j \in 0 .. Len(cs) /\ IsList(cs) /\ IsList(ids) /\ Len(ids) \in Nat /\ \A k \in 1 .. Len(ids) : k > j => ids[k] = 0
    BY <1>5 DEF CutReads
  <2>2. Len(cs) \in Nat /\ Len(ids) # 0
    BY <2>1, ListParts, EmptyList, SameList
  <2>3. 1 \in 1 .. Len(ids)
    BY <2>1, <2>2
  <2>4. ~(1 > j)
    BY <2>1, <2>3
  <2>5. QED
    BY <2>1, <2>2, <2>4
<1>7. PICK is, c : Begins(c, cs) /\ c # <<>> /\ AndNoMore(ids, is) /\ Reads(p, is, c) /\ Here(p, c, bytes)
  BY <1>5, <1>6, Truncated
<1>8. IsList(ms)
  BY DEF Chunked
<1>9. PICK i \in {Nil, icc}, e \in {Nil, exif}, y \in {Nil, xmp} : \E m :
               /\ Begins(m, ms) /\ (m = ms \/ (e = Nil /\ y = Nil))
               /\ c = ExtList(x, i, m, e, y)
  BY <1>1, <1>7, <1>8, CutExt
<1>10. PICK m : Begins(m, ms) /\ (m = ms \/ (e = Nil /\ y = Nil)) /\ c = ExtList(x, i, m, e, y)
  BY <1>9
<1>11. CutFile(f, bytes, x, icc, ms, exif, xmp, p, is, i, m, e, y)
  BY <1>4, <1>7, <1>10 DEF CutFile
<1>12. Id(f, ids[1]) = "VP8X"
  <2>1. IsList(m)
    BY <1>10 DEF Begins
  <2>2. \E l, n, o : DemuxAt(Written(p), is, c, x, i, m, e, y, l, n, o)
    BY <1>7, <1>10, <2>1, DemuxOpened
  <2>3. Id(Written(p), is[1]) = "VP8X"
    BY <2>2 DEF DemuxAt
  <2>4. ids[1] = is[1]
    BY <1>7 DEF AndNoMore
  <2>5. QED
    BY <1>4, <2>3, <2>4
<1>13. QED
  BY <1>7, <1>11, <1>12

\* The demuxer then is a run over these,
LEMMA DemuxCut ==
    ASSUME NEW x, NEW icc \in Nat \cup {Nil}, NEW exif \in Nat \cup {Nil}, NEW xmp \in Nat \cup {Nil},
           NEW b, NEW ms, Chunked(b, ms),
           NEW f, f = Written(ExtFile(x, icc, b, exif, xmp)), NEW bytes \in Nat
    PROVE  \/ Demux(f, bytes) = Failed
           \/ \E p, is, i, m, e, y :
                  /\ CutFile(f, bytes, x, icc, ms, exif, xmp, p, is, i, m, e, y)
                  /\ Demux(f, bytes) = DemuxExtended(f, is)
<1>1. PICK ids, pad : pad = FALSE /\ ids = Walk(f, RIFFHeaderSize, PayloadEnd(f, bytes), pad)
  OBVIOUS
<1>2. \/ bytes < RIFFHeaderSize \/ ids = <<>> \/ ids[1] = 0
      \/ \E p, is, i, m, e, y :
             /\ CutFile(f, bytes, x, icc, ms, exif, xmp, p, is, i, m, e, y)
             /\ AndNoMore(ids, is) /\ Id(f, ids[1]) = "VP8X"
  <2>1. ids = Walk(f, RIFFHeaderSize, PayloadEnd(f, bytes), pad)
    BY <1>1
  <2>2. QED
    BY <2>1, CutExtFile
<1>3. CASE bytes < RIFFHeaderSize \/ ids = <<>> \/ ids[1] = 0
  BY <1>1, <1>3 DEF Demux
<1>4. CASE ~(bytes < RIFFHeaderSize \/ ids = <<>> \/ ids[1] = 0)
  <2>1. PICK p, is, i, m, e, y :
           /\ CutFile(f, bytes, x, icc, ms, exif, xmp, p, is, i, m, e, y)
           /\ AndNoMore(ids, is) /\ Id(f, ids[1]) = "VP8X"
    BY <1>2, <1>4
  <2>2. Demux(f, bytes) = DemuxExtended(f, ids)
    BY <1>1, <1>4, <2>1 DEF Demux
  <2>3. DemuxExtended(f, ids) = DemuxExtended(f, is)
    BY <2>1, SameDemux
  <2>4. QED
    BY <2>1, <2>2, <2>3
<1>5. QED
  BY <1>3, <1>4

\* and so is the parser.
LEMMA ParseCut ==
    ASSUME NEW x, NEW icc \in Nat \cup {Nil}, NEW exif \in Nat \cup {Nil}, NEW xmp \in Nat \cup {Nil},
           NEW b, NEW ms, Chunked(b, ms),
           NEW f, f = Written(ExtFile(x, icc, b, exif, xmp)), NEW bytes \in Nat
    PROVE  \/ Parse(f, bytes) = Failed
           \/ \E p, is, i, m, e, y :
                  /\ CutFile(f, bytes, x, icc, ms, exif, xmp, p, is, i, m, e, y)
                  /\ Parse(f, bytes) = PAfter(f, is)[Len(is)]
<1>1. PICK ids, pad : pad = TRUE /\ ids = Walk(f, RIFFHeaderSize, PayloadEnd(f, bytes), pad)
  OBVIOUS
<1>2. \/ bytes < RIFFHeaderSize \/ ids = <<>> \/ ids[1] = 0
      \/ \E p, is, i, m, e, y :
             /\ CutFile(f, bytes, x, icc, ms, exif, xmp, p, is, i, m, e, y)
             /\ AndNoMore(ids, is) /\ Id(f, ids[1]) = "VP8X"
  <2>1. ids = Walk(f, RIFFHeaderSize, PayloadEnd(f, bytes), pad)
    BY <1>1
  <2>2. QED
    BY <2>1, CutExtFile
<1>3. CASE bytes < RIFFHeaderSize \/ ids = <<>> \/ ids[1] = 0
  BY <1>1, <1>3 DEF Parse
<1>4. CASE ~(bytes < RIFFHeaderSize \/ ids = <<>> \/ ids[1] = 0)
  <2>1. PICK p, is, i, m, e, y :
           /\ CutFile(f, bytes, x, icc, ms, exif, xmp, p, is, i, m, e, y)
           /\ AndNoMore(ids, is) /\ Id(f, ids[1]) = "VP8X"
    BY <1>2, <1>4
  <2>2. Parse(f, bytes) = ParseVP8X(f, ids)
    BY <1>1, <1>4, <2>1 DEF Parse
  <2>3. ParseVP8X(f, ids) = Failed \/ ParseVP8X(f, ids) = PAfter(f, ids)[Len(ids)]
    BY ParseResult
  <2>4. PAfter(f, ids)[Len(ids)] = Failed \/ PAfter(f, ids)[Len(ids)] = PAfter(f, is)[Len(is)]
    BY <2>1, SameParse
  <2>5. QED
    BY <2>1, <2>2, <2>3, <2>4
<1>5. QED
  BY <1>3, <1>4

\* The metadata in the beginning of an extended file have arrived.
LEMMA CutKept ==
    ASSUME NEW f, NEW bytes \in Nat, NEW x, NEW ms,
           NEW icc \in Nat \cup {Nil}, NEW exif \in Nat \cup {Nil}, NEW xmp \in Nat \cup {Nil},
           NEW p, NEW is, NEW i, NEW m, NEW e, NEW y, CutFile(f, bytes, x, icc, ms, exif, xmp, p, is, i, m, e, y)
    PROVE  /\ Kept(f, bytes, i, icc, "ICCP") /\ Kept(f, bytes, e, exif, "EXIF") /\ Kept(f, bytes, y, xmp, "XMP")
           /\ i \in Nat \cup {Nil} /\ e \in Nat \cup {Nil} /\ y \in Nat \cup {Nil} /\ IsList(m)
           /\ \E s : Within(m, ExtList(x, i, m, e, y), s)
<1>1. /\ i \in {Nil, icc} /\ e \in {Nil, exif} /\ y \in {Nil, xmp} /\ Begins(m, ms)
      /\ f = Written(p) /\ Here(p, ExtList(x, i, m, e, y), bytes)
  BY DEF CutFile
<1>2. i \in Nat \cup {Nil} /\ e \in Nat \cup {Nil} /\ y \in Nat \cup {Nil} /\ IsList(m)
  BY <1>1 DEF Begins
<1>3. PICK c : c = ExtList(x, i, m, e, y)
  OBVIOUS
<1>4. /\ \E s : Within(OptionalChunks("ICCP", i), c, s)
      /\ \E s : Within(m, c, s)
      /\ \E s : Within(OptionalChunks("EXIF", e), c, s)
      /\ \E s : Within(OptionalChunks("XMP", y), c, s)
  <2>1. LET cs == ExtList(x, i, m, e, y)
            k == 1 + Len(OptionalChunks("ICCP", i))
            l == k + Len(m)
            n == l + Len(OptionalChunks("EXIF", e))
        IN  /\ Within(OptionalChunks("ICCP", i), cs, 1)
            /\ Within(m, cs, k)
            /\ Within(OptionalChunks("EXIF", e), cs, l)
            /\ Within(OptionalChunks("XMP", y), cs, n)
    BY <1>2, ExtParts
  <2>2. QED
    BY <1>3, <2>1
<1>5. Here(p, c, bytes)
  BY <1>1, <1>3
<1>6. Kept(Written(p), bytes, i, icc, "ICCP")
  BY <1>1, <1>4, <1>5, OptionalKept
<1>7. Kept(Written(p), bytes, e, exif, "EXIF")
  BY <1>1, <1>4, <1>5, OptionalKept
<1>8. Kept(Written(p), bytes, y, xmp, "XMP")
  BY <1>1, <1>4, <1>5, OptionalKept
<1>9. QED
  BY <1>1, <1>2, <1>3, <1>4, <1>6, <1>7, <1>8

\* What has failed claims nothing.
LEMMA FailedHonest == ASSUME NEW f, NEW bytes, NEW g, NEW least PROVE HonestOf(f, bytes, g, Failed, least)
BY DEF HonestOf, Failed

\* Metadata that were not read were not read wrong.
LEMMA KeptNil == ASSUME NEW f, NEW bytes, NEW was, NEW id PROVE Kept(f, bytes, Nil, was, id)
BY DEF Kept

\* The first frames are the beginning of all frames.
LEMMA FirstFrames ==
    ASSUME NEW fr, NEW n \in Nat, NEW t \in 0 .. n
    PROVE  /\ IsPrefix(FramesGiven(fr, t), FramesGiven(fr, n)) /\ Len(FramesGiven(fr, t)) = t
           /\ t \in Nat /\ (FramesGiven(fr, t) # <<>> => t >= 1) /\ (t = 0 => FramesGiven(fr, t) = <<>>)
<1>0. t \in Nat /\ t <= n
  OBVIOUS
<1>1. PICK a : a = FramesGiven(fr, t) /\ Len(a) = t /\ IsList(a)
  BY <1>0, OneMore
<1>2. PICK b : b = FramesGiven(fr, n) /\ Len(b) = n /\ IsList(b)
  BY OneMore
<1>3. \A k \in 1 .. t : a[k] = b[k]
  BY <1>0, <1>1, <1>2 DEF FramesGiven
<1>4. SubSeq(a, 1, t) = SubSeq(b, 1, t)
  <2>1. PICK S : a \in Seq(S)
    BY <1>1 DEF IsList
  <2>2. PICK T : b \in Seq(T)
    BY <1>2 DEF IsList
  <2>3. SubSeq(a, 1, t) = [k \in 1 .. t |-> a[k]]
    BY <1>0, <1>1, <2>1
  <2>4. SubSeq(b, 1, t) = [k \in 1 .. t |-> b[k]]
    BY <1>0, <1>2, <2>2
  <2>5. QED
    BY <1>3, <2>3, <2>4
<1>5. IsPrefix(a, b)
  BY <1>0, <1>1, <1>2, <1>4 DEF IsPrefix
<1>6. (a # <<>> => t >= 1) /\ (t = 0 => a = <<>>)
  <2>1. t = 0 => a = <<>>
    BY <1>1, EmptyList, SameList
  <2>2. QED
    BY <1>0, <2>1
<1>7. QED
  BY <1>0, <1>1, <1>2, <1>5, <1>6

\* Nothing, and one frame, are the beginning of one frame.
LEMMA OneFrame ==
    ASSUME NEW a
    PROVE  IsPrefix(<<a>>, <<a>>) /\ IsPrefix(<<>>, <<a>>) /\ Len(<<a>>) = 1 /\ Len(<<>>) = 0
<1>1. PICK b : b = <<a>> /\ Len(b) = 1 /\ IsList(b)
  BY ShortLists
<1>2. PICK none : none = <<>> /\ Len(none) = 0
  BY EmptyList
<1>3. IsPrefix(b, b)
  BY <1>1 DEF IsPrefix
<1>4. IsPrefix(none, b)
  <2>1. PICK S : b \in Seq(S)
    BY <1>1 DEF IsList
  <2>2. SubSeq(none, 1, 0) = <<>> /\ SubSeq(b, 1, 0) = <<>>
    BY <1>2, <2>1
  <2>3. QED
    BY <1>1, <1>2, <2>2 DEF IsPrefix
<1>5. QED
  BY <1>1, <1>2, <1>3, <1>4

\* The demuxer over what it found of an extended file.
LEMMA DemuxRunCut ==
    ASSUME NEW x, NEW icc \in Nat \cup {Nil}, NEW exif \in Nat \cup {Nil}, NEW xmp \in Nat \cup {Nil},
           NEW ms, IsList(ms), NEW p, NEW ids, Reads(p, ids, ExtList(x, icc, ms, exif, xmp)),
           NEW bg, NEW loop, NEW fs,
           Passes(Written(p), ids, ExtList(x, icc, ms, exif, xmp), x, icc, ms, bg, loop, fs),
           NEW r, r = DemuxExtended(Written(p), ids)
    PROVE  \/ r = Failed
           \/ r.frames = fs /\ fs # <<>> /\ r.icc = icc /\ r.exif = exif /\ r.xmp = xmp
<1>1. PICK all : all = DState(x, icc, exif, xmp, bg, loop, fs)
  OBVIOUS
<1>2. PICK cs : cs = ExtList(x, icc, ms, exif, xmp)
  OBVIOUS
<1>3. DAfter(Written(p), ids)[Len(ids)] = all
  BY <1>1, <1>2, DemuxRun
<1>4. r = IF all.ok /\ all.frames # <<>> THEN all ELSE Failed
  BY <1>3, DemuxResult
<1>5. all.ok /\ all.frames = fs /\ all.icc = icc /\ all.exif = exif /\ all.xmp = xmp
  BY <1>1, DStateParts
<1>6. QED
  BY <1>4, <1>5

\* No chunks in the middle change nothing.
LEMMA PassesNothing ==
    ASSUME NEW f, NEW ids, NEW cs, NEW x, NEW icc
    PROVE  Passes(f, ids, cs, x, icc, <<>>, 0, 0, <<>>)
<1>1. \A s \in Nat : s + Len(<<>>) = s
  BY EmptyList
<1>2. QED
  BY <1>1 DEF Passes

\* What a reader takes of the metadata of a file that is cut off it takes so.
LEMMA MetadataHonest ==
    ASSUME NEW f, NEW bytes \in Nat, NEW x, NEW ms,
           NEW icc \in Nat \cup {Nil}, NEW exif \in Nat \cup {Nil}, NEW xmp \in Nat \cup {Nil},
           NEW p, NEW is, NEW i, NEW m, NEW e, NEW y, CutFile(f, bytes, x, icc, ms, exif, xmp, p, is, i, m, e, y),
           NEW g, g.icc = icc, g.exif = exif, g.xmp = xmp,
           NEW r, r.icc = i, r.exif \in {Nil, e}, r.xmp \in {Nil, y}
    PROVE  MetadataTaken(f, bytes, m, g, r)
<1>1. /\ Kept(f, bytes, i, icc, "ICCP") /\ Kept(f, bytes, e, exif, "EXIF") /\ Kept(f, bytes, y, xmp, "XMP")
      /\ \E s : Within(m, ExtList(x, i, m, e, y), s)
  BY CutKept
<1>2. Kept(f, bytes, r.icc, g.icc, "ICCP") /\ Kept(f, bytes, r.exif, g.exif, "EXIF") /\ Kept(f, bytes, r.xmp, g.xmp, "XMP")
  <2>1. Kept(f, bytes, Nil, exif, "EXIF") /\ Kept(f, bytes, Nil, xmp, "XMP")
    BY KeptNil
  <2>2. QED
    BY <1>1, <2>1
<1>3. PICK c, s : c = ExtList(x, i, m, e, y) /\ Within(m, c, s)
  BY <1>1
<1>4. f = Written(p) /\ Here(p, c, bytes) /\ IsList(c) /\ Pieces(p)
  BY <1>3 DEF CutFile, Reads
<1>5. QED
  BY <1>2, <1>3, <1>4 DEF MetadataTaken

\* What the frames of an animation that are read say of the file.
LEMMA HonestFrames ==
    ASSUME NEW f, NEW bytes \in Nat, NEW g, NEW fr, NEW n \in Nat, \A l \in 1 .. n : ImageOk(fr[l].data),
           g.frames = FramesGiven(fr, n), NEW bg, NEW loop,
           NEW m, NEW r, MetadataTaken(f, bytes, m, g, r),
           NEW t \in 0 .. n, FramesIn(m, bg, loop, fr, t), r.frames = FramesGiven(fr, t),
           NEW least, least <= t
    PROVE  HonestOf(f, bytes, g, r, least)
<1>1. Kept(f, bytes, r.icc, g.icc, "ICCP") /\ Kept(f, bytes, r.exif, g.exif, "EXIF") /\ Kept(f, bytes, r.xmp, g.xmp, "XMP")
  BY DEF MetadataTaken
<1>2. IsPrefix(FramesGiven(fr, t), FramesGiven(fr, n)) /\ Len(FramesGiven(fr, t)) = t /\ t \in Nat
  BY FirstFrames
<1>3. PICK p, c, s : f = Written(p) /\ Here(p, c, bytes) /\ IsList(c) /\ Pieces(p) /\ Within(m, c, s)
  BY DEF MetadataTaken
<1>4. t <= Cardinality(ArrivedIn(f, bytes, {"VP8", "VP8L"}))
  <2>0. CASE t = 0
    <3>1. Cardinality(ArrivedIn(Written(p), bytes, {"VP8", "VP8L"})) \in Nat
      BY <1>3, ArrivedFinite
    <3>2. QED
      BY <1>3, <2>0, <3>1
  <2> SUFFICES ASSUME m = AnimList(bg, loop, fr, t)
               PROVE  t <= Cardinality(ArrivedIn(f, bytes, {"VP8", "VP8L"}))
    BY <2>0 DEF FramesIn
  <2>1. \A l \in 1 .. t : ImageOk(fr[l].data)
    OBVIOUS
  <2>2. PICK a, b : a = <<AnimChunk(bg, loop)>> /\ b = FrameChunks(fr, t) /\ IsList(a) /\ IsList(b)
    <3>1. IsList(<<AnimChunk(bg, loop)>>)
      BY ShortLists
    <3>2. IsList(FrameChunks(fr, t))
      BY <1>2, <2>1, AnimChunked
    <3>3. QED
      BY <3>1, <3>2
  <2>3. m = a \o b
    BY <2>2 DEF AnimList
  <2>4. IsList(m) /\ Within(b, m, Len(a))
    BY <2>2, <2>3, PartJoined
  <2>5. Len(c) \in Nat /\ Len(m) \in Nat /\ Len(b) \in Nat
    BY <1>3, <2>2, <2>4, ListParts
  <2>6. Within(b, c, s + Len(a))
    BY <1>3, <2>4, <2>5, WithinTwice
  <2>7. t <= Cardinality(ArrivedIn(Written(p), bytes, {"VP8", "VP8L"}))
    BY <1>2, <1>3, <2>1, <2>2, <2>6, FramesArrived
  <2>8. QED
    BY <1>3, <2>7
<1>5. QED
  BY <1>1, <1>2, <1>4 DEF HonestOf

\* The demuxer on an animation that is cut off,
LEMMA DemuxCutAnim ==
    ASSUME NEW fr, NEW n \in Nat, n <= MaxFrames, \A l \in 1 .. n : FrameOk(fr[l]),
           NEW icc \in Nat \cup {Nil}, NEW exif \in Nat \cup {Nil}, NEW xmp \in Nat \cup {Nil},
           NEW x, NEW bg, NEW loop,
           NEW f, f = Written(ExtFile(x, icc, AnimPieces(bg, loop, fr, n), exif, xmp)), NEW bytes \in Nat,
           NEW g, g.frames = FramesGiven(fr, n), g.icc = icc, g.exif = exif, g.xmp = xmp
    PROVE  HonestOf(f, bytes, g, Demux(f, bytes), 1)
<1>1. \A l \in 1 .. n : ImageOk(fr[l].data)
  BY DEF FrameOk
<1>2. PICK b, ms : b = AnimPieces(bg, loop, fr, n) /\ ms = AnimList(bg, loop, fr, n) /\ Chunked(b, ms)
  BY <1>1, AnimChunked
<1>3. PICK r : r = Demux(f, bytes)
  OBVIOUS
<1>4. CASE r = Failed
  BY <1>3, <1>4, FailedHonest
<1>5. CASE r # Failed
  <2>1. PICK p, is, i, m, e, y :
            CutFile(f, bytes, x, icc, ms, exif, xmp, p, is, i, m, e, y) /\ r = DemuxExtended(f, is)
    <3>1. f = Written(ExtFile(x, icc, b, exif, xmp))
      BY <1>2
    <3>2. \/ Demux(f, bytes) = Failed
          \/ \E p, is, i, m, e, y :
                 /\ CutFile(f, bytes, x, icc, ms, exif, xmp, p, is, i, m, e, y)
                 /\ Demux(f, bytes) = DemuxExtended(f, is)
      BY <1>2, <3>1, DemuxCut
    <3>3. QED
      BY <1>3, <1>5, <3>2
  <2>2. PICK cs : cs = ExtList(x, i, m, e, y)
    OBVIOUS
  <2>3. f = Written(p) /\ Reads(p, is, cs) /\ Begins(m, ms)
    BY <2>1, <2>2 DEF CutFile
  <2>4. i \in Nat \cup {Nil} /\ e \in Nat \cup {Nil} /\ y \in Nat \cup {Nil} /\ IsList(m)
    BY <2>1, CutKept
  <2>5. r = DemuxExtended(Written(p), is)
    BY <2>1, <2>3
  <2>6. ASSUME NEW o, NEW q, NEW fs, Passes(Written(p), is, cs, x, i, m, o, q, fs)
        PROVE  r.frames = fs /\ fs # <<>> /\ r.icc = i /\ r.exif = e /\ r.xmp = y
    <3>1. Reads(p, is, ExtList(x, i, m, e, y)) /\ Passes(Written(p), is, ExtList(x, i, m, e, y), x, i, m, o, q, fs)
      BY <2>2, <2>3, <2>6
    <3>2. r = Failed \/ (r.frames = fs /\ fs # <<>> /\ r.icc = i /\ r.exif = e /\ r.xmp = y)
      BY <2>4, <2>5, <3>1, DemuxRunCut
    <3>3. QED
      BY <1>5, <3>2
  <2>7. m # <<>>
    <3> SUFFICES ASSUME m = <<>> PROVE FALSE
      OBVIOUS
    <3>1. Passes(Written(p), is, cs, x, i, <<>>, 0, 0, <<>>)
      BY PassesNothing
    <3>2. Passes(Written(p), is, cs, x, i, m, 0, 0, <<>>)
      BY <3>1
    <3>3. QED
      BY <2>6, <3>2
  <2>8. PICK t \in 0 .. n : m = AnimList(bg, loop, fr, t)
    BY <1>2, <2>3, <2>7, CutAnim
  <2>9. t \in Nat /\ t <= MaxFrames /\ \A l \in 1 .. t : FrameOk(fr[l])
    <3>1. t \in Nat /\ t <= n /\ MaxFrames \in Nat
      BY MaxFramesAssumption
    <3>2. QED
      BY <3>1
  <2>10. Passes(Written(p), is, cs, x, i, m, bg, loop, FramesGiven(fr, t))
    BY <2>3, <2>8, <2>9, PassesAnim
  <2>11. r.frames = FramesGiven(fr, t) /\ FramesGiven(fr, t) # <<>> /\ r.icc = i /\ r.exif = e /\ r.xmp = y
    BY <2>6, <2>10
  <2>12. 1 <= t
    BY <2>11, FirstFrames
  <2>13. HonestOf(f, bytes, g, r, 1)
    <3>1. FramesIn(m, bg, loop, fr, t)
      BY <2>8 DEF FramesIn
    <3>2. MetadataTaken(f, bytes, m, g, r)
      <4>1. CutFile(f, bytes, x, icc, ms, exif, xmp, p, is, i, m, e, y)
        BY <2>1
      <4>2. r.icc = i /\ r.exif \in {Nil, e} /\ r.xmp \in {Nil, y}
        BY <2>11
      <4>3. QED
        BY <4>1, <4>2, MetadataHonest
    <3>3. r.frames = FramesGiven(fr, t)
      BY <2>11
    <3>4. QED
      BY <1>1, <2>12, <3>1, <3>2, <3>3, HonestFrames
  <2>14. QED
    BY <1>3, <2>13
<1>6. QED
  BY <1>4, <1>5

\* What the one frame of a still image says of the file when it is read.
LEMMA HonestImage ==
    ASSUME NEW f, NEW bytes \in Nat, NEW g, NEW d, ImageOk(d), \E a : g.frames = <<a>>,
           NEW m, NEW r, MetadataTaken(f, bytes, m, g, r),
           NEW least \in 0 .. 1, ImageIn(m, d, r.frames, g.frames, least)
    PROVE  HonestOf(f, bytes, g, r, least)
<1>1. PICK a : g.frames = <<a>>
  OBVIOUS
<1>2. Kept(f, bytes, r.icc, g.icc, "ICCP") /\ Kept(f, bytes, r.exif, g.exif, "EXIF") /\ Kept(f, bytes, r.xmp, g.xmp, "XMP")
  BY DEF MetadataTaken
<1>3. PICK p, c, s : f = Written(p) /\ Here(p, c, bytes) /\ IsList(c) /\ Pieces(p) /\ Within(m, c, s)
  BY DEF MetadataTaken
<1>4. IsPrefix(<<a>>, <<a>>) /\ IsPrefix(<<>>, <<a>>) /\ Len(<<a>>) = 1 /\ Len(<<>>) = 0
  BY OneFrame
<1>5. PICK arrived \in Nat : arrived = Cardinality(ArrivedIn(f, bytes, {"VP8", "VP8L"}))
  <2>1. Cardinality(ArrivedIn(Written(p), bytes, {"VP8", "VP8L"})) \in Nat
    BY <1>3, ArrivedFinite
  <2>2. QED
    BY <1>3, <2>1
<1>6. m = SubList(d) => 1 <= arrived
  <2> SUFFICES ASSUME m = SubList(d) PROVE 1 <= arrived
    OBVIOUS
  <2>1. Within(SubList(d), c, s)
    BY <1>3
  <2>2. 1 <= Cardinality(ArrivedIn(Written(p), bytes, {"VP8", "VP8L"}))
    BY <1>3, <2>1, ImageArrived
  <2>3. QED
    BY <1>3, <1>5, <2>2
<1>7. IsPrefix(r.frames, g.frames) /\ least <= Len(r.frames) /\ Len(r.frames) <= arrived
  <2>1. CASE m = SubList(d) /\ r.frames = g.frames
    <3>1. Len(r.frames) = 1 /\ IsPrefix(r.frames, g.frames)
      BY <1>1, <1>4, <2>1
    <3>2. QED
      BY <1>6, <2>1, <3>1
  <2>2. CASE least = 0 /\ r.frames = <<>>
    <3>1. Len(r.frames) = 0 /\ IsPrefix(r.frames, g.frames)
      BY <1>1, <1>4, <2>2
    <3>2. QED
      BY <2>2, <3>1
  <2>3. QED
    BY <2>1, <2>2 DEF ImageIn
<1>8. QED
  BY <1>2, <1>5, <1>7 DEF HonestOf

\* The demuxer takes no image of which only the alpha plane is there.
LEMMA DemuxOnlyPlane ==
    ASSUME NEW x, ~x.flags.anim, NEW icc \in Nat \cup {Nil}, NEW n \in Nat, NEW m, m = OptionalChunks("ALPH", n),
           NEW p, NEW ids, Reads(p, ids, ExtList(x, icc, m, Nil, Nil))
    PROVE  DemuxExtended(Written(p), ids) = Failed
<1>1. PICK cs : cs = ExtList(x, icc, m, Nil, Nil)
  OBVIOUS
<1>2. PICK none \in Nat \cup {Nil} : none = Nil
  OBVIOUS
<1>3. Len(m) = 1 /\ IsList(m) /\ m[1][1].v.id = "ALPH" /\ n # Nil
  <2>1. PICK v : v = OptionalChunks("ALPH", n)
    OBVIOUS
  <2>2. n # Nil /\ n \in Nat \cup {Nil}
    BY DEF Nil
  <2>3. Len(v) = 1 /\ IsList(v) /\ v[1][1].v.id = "ALPH"
    BY <2>1, <2>2, OptionalChunk DEF Chunked
  <2>4. QED
    BY <2>1, <2>2, <2>3
<1>4. PICK i, l, e : DemuxAt(Written(p), ids, cs, x, icc, m, none, none, i, l, e)
  <2>1. cs = ExtList(x, icc, m, none, none) /\ Reads(p, ids, cs) /\ IsList(m)
    BY <1>1, <1>2, <1>3
  <2>2. QED
    BY <2>1, DemuxOpened
<1>5. OptionalChunks("EXIF", none) = <<>> /\ OptionalChunks("XMP", none) = <<>> /\ Len(<<>>) = 0
  BY <1>2, EmptyList DEF OptionalChunks
<1>6. /\ i \in Nat /\ i >= 1 /\ Len(ids) = i + 1 /\ Len(ids) \in Nat /\ Within(m, cs, i)
      /\ DAfter(Written(p), ids)[i] = DState(x, icc, Nil, Nil, 0, 0, <<>>)
  BY <1>3, <1>4, <1>5 DEF DemuxAt
<1>7. Id(Written(p), ids[i + 1]) = "ALPH"
  <2>1. PICK j \in 1 .. Len(m) : j = 1
    BY <1>3
  <2>2. Reads(p, ids, cs) /\ Len(m) \in Nat
    BY <1>1, <1>3
  <2>3. Id(Written(p), ids[i + j]) = m[j][1].v.id
    BY <1>6, <2>2, ReadPart
  <2>4. QED
    BY <1>3, <2>1, <2>3
<1>8. PICK d : d = DState(x, icc, Nil, Nil, 0, 0, <<>>) /\ d.ok /\ d.frames = <<>> /\ d.flags = x.flags
  BY DStateParts
<1>9. DAfter(Written(p), ids)[i + 1] = DemuxChunk(d, Written(p), ids, i + 1)
  <2>1. i \in 1 .. Len(ids) /\ i + 1 <= Len(ids)
    BY <1>6
  <2>2. QED
    BY <1>6, <1>8, <2>1, DemuxSteps
<1>10. DemuxChunk(d, Written(p), ids, i + 1) = parseSingleExtendedFrame(d, Written(p), ids, i + 1)
  <2>1. ~d.flags.anim /\ d.frames = <<>> /\ Id(Written(p), ids[i + 1]) = "ALPH"
    BY <1>7, <1>8
  <2>2. QED
    BY <2>1 DEF DemuxChunk
<1>11. {j \in i + 1 .. Len(ids) : Id(Written(p), ids[j]) \in {"VP8", "VP8L"}} = {}
  BY <1>6, <1>7
<1>12. parseSingleExtendedFrame(d, Written(p), ids, i + 1) = Failed
  BY <1>11 DEF parseSingleExtendedFrame
<1>13. DAfter(Written(p), ids)[Len(ids)] = Failed
  BY <1>6, <1>9, <1>10, <1>12
<1>14. QED
  <2>1. PICK all : all = DAfter(Written(p), ids)[Len(ids)] /\ all = Failed
    BY <1>13
  <2>2. DemuxExtended(Written(p), ids) = IF all.ok /\ all.frames # <<>> THEN all ELSE Failed
    BY <2>1, DemuxResult
  <2>3. QED
    BY <2>1, <2>2

\* and on a still image.
LEMMA DemuxCutStill ==
    ASSUME NEW d, ImageOk(d), NEW x, ~x.flags.anim, x.w + 1 = d.w, x.h + 1 = d.h,
           NEW icc \in Nat \cup {Nil}, NEW exif \in Nat \cup {Nil}, NEW xmp \in Nat \cup {Nil},
           NEW f, f = Written(ExtFile(x, icc, SubPieces(d), exif, xmp)), NEW bytes \in Nat,
           NEW g, g.frames = <<StillGiven(d)>>, g.icc = icc, g.exif = exif, g.xmp = xmp
    PROVE  HonestOf(f, bytes, g, Demux(f, bytes), 1)
<1>2. PICK b, ms : b = SubPieces(d) /\ ms = SubList(d) /\ Chunked(b, ms)
  BY ImageChunks
<1>3. PICK r : r = Demux(f, bytes)
  OBVIOUS
<1>4. CASE r = Failed
  BY <1>3, <1>4, FailedHonest
<1>5. CASE r # Failed
  <2>1. PICK p, is, i, m, e, y :
            CutFile(f, bytes, x, icc, ms, exif, xmp, p, is, i, m, e, y) /\ r = DemuxExtended(f, is)
    <3>1. f = Written(ExtFile(x, icc, b, exif, xmp))
      BY <1>2
    <3>2. \/ Demux(f, bytes) = Failed
          \/ \E p, is, i, m, e, y :
                 /\ CutFile(f, bytes, x, icc, ms, exif, xmp, p, is, i, m, e, y)
                 /\ Demux(f, bytes) = DemuxExtended(f, is)
      BY <1>2, <3>1, DemuxCut
    <3>3. QED
      BY <1>3, <1>5, <3>2
  <2>2. PICK cs : cs = ExtList(x, i, m, e, y)
    OBVIOUS
  <2>3. f = Written(p) /\ Reads(p, is, cs) /\ Begins(m, ms) /\ (m = ms \/ (e = Nil /\ y = Nil))
    BY <2>1, <2>2 DEF CutFile
  <2>4. i \in Nat \cup {Nil} /\ e \in Nat \cup {Nil} /\ y \in Nat \cup {Nil} /\ IsList(m)
    BY <2>1, CutKept
  <2>5. r = DemuxExtended(Written(p), is)
    BY <2>1, <2>3
  <2>6. ASSUME NEW fs, Passes(Written(p), is, cs, x, i, m, 0, 0, fs)
        PROVE  r.frames = fs /\ fs # <<>> /\ r.icc = i /\ r.exif = e /\ r.xmp = y
    <3>1. Reads(p, is, ExtList(x, i, m, e, y)) /\ Passes(Written(p), is, ExtList(x, i, m, e, y), x, i, m, 0, 0, fs)
      BY <2>2, <2>3, <2>6
    <3>2. r = Failed \/ (r.frames = fs /\ fs # <<>> /\ r.icc = i /\ r.exif = e /\ r.xmp = y)
      BY <2>4, <2>5, <3>1, DemuxRunCut
    <3>3. QED
      BY <1>5, <3>2
  <2>7. m # <<>>
    <3> SUFFICES ASSUME m = <<>> PROVE FALSE
      OBVIOUS
    <3>1. Passes(Written(p), is, cs, x, i, <<>>, 0, 0, <<>>)
      BY PassesNothing
    <3>2. Passes(Written(p), is, cs, x, i, m, 0, 0, <<>>)
      BY <3>1
    <3>3. QED
      BY <2>6, <3>2
  <2>8. m = SubList(d)
    <3> SUFFICES ASSUME m # SubList(d) PROVE FALSE
      OBVIOUS
    <3>1. m = OptionalChunks("ALPH", d.alph)
      BY <1>2, <2>3, <2>7, CutImage
    <3>2. d.alph # Nil
      BY <2>7, <3>1 DEF OptionalChunks
    <3>3. PICK n \in Nat : n = d.alph
      BY <3>2, ImageParts
    <3>4. m = OptionalChunks("ALPH", n) /\ Reads(p, is, ExtList(x, i, m, Nil, Nil))
      BY <1>2, <2>2, <2>3, <3>1, <3>3
    <3>5. DemuxExtended(Written(p), is) = Failed
      BY <2>4, <3>4, DemuxOnlyPlane
    <3>6. QED
      BY <1>5, <2>5, <3>5
  <2>9. PICK a, fs : a = StillGiven(d) /\ fs = <<StillOf(d, x.w + 1, x.h + 1)>> /\ fs = <<a>>
    BY DEF StillGiven, StillOf
  <2>10. Passes(Written(p), is, cs, x, i, m, 0, 0, fs)
    <3>1. fs = <<StillOf(d, x.w + 1, x.h + 1)>>
      BY <2>9
    <3>2. QED
      BY <2>3, <2>8, <3>1, PassesImage
  <2>11. r.frames = <<a>> /\ r.icc = i /\ r.exif = e /\ r.xmp = y
    BY <2>6, <2>9, <2>10
  <2>12. HonestOf(f, bytes, g, r, 1)
    <3>1. PICK k : k = SubList(d) /\ CutFile(f, bytes, x, icc, ms, exif, xmp, p, is, i, k, e, y)
      BY <2>1, <2>8
    <3>2. MetadataTaken(f, bytes, k, g, r)
      <4>1. r.icc = i /\ r.exif \in {Nil, e} /\ r.xmp \in {Nil, y}
        BY <2>11
      <4>2. CutFile(f, bytes, x, icc, ms, exif, xmp, p, is, i, k, e, y)
        BY <3>1
      <4>3. QED
        BY <4>1, <4>2, MetadataHonest
    <3>3. (\E v : g.frames = <<v>>) /\ r.frames = g.frames
      BY <2>9, <2>11
    <3>4. ImageIn(k, d, r.frames, g.frames, 1)
      BY <3>1, <3>3 DEF ImageIn
    <3>5. PICK least \in 0 .. 1 : least = 1
      OBVIOUS
    <3>6. HonestOf(f, bytes, g, r, least)
      <4>1. ImageIn(k, d, r.frames, g.frames, least)
        BY <3>4, <3>5
      <4>2. QED
        BY <3>2, <3>3, <4>1, HonestImage
    <3>7. QED
      BY <3>5, <3>6
  <2>13. QED
    BY <1>3, <2>12
<1>6. QED
  BY <1>4, <1>5

\* The parser refuses a frame with an alpha plane to a lossless image,
LEMMA FrameRefused ==
    ASSUME NEW p, NEW ids, NEW cs, Reads(p, ids, cs), NEW s \in Nat, s >= 1,
           NEW fr, NEW n \in Nat, Within(FrameChunks(fr, n), cs, s),
           NEW j \in 1 .. n, FrameOk(fr[j]), ~NoPlane(fr[j].data),
           NEW i \in Nat, i >= 1, i + 1 = s + j,
           NEW x, NEW icc, NEW bg, NEW loop, NEW fs,
           PAfter(Written(p), ids)[i] = PAnimated(x, icc, bg, loop, fs)
    PROVE  PAfter(Written(p), ids)[s + j] = Failed /\ s + j \in 1 .. Len(ids) /\ Len(ids) \in Nat
<1>1. PICK d : d = PAnimated(x, icc, bg, loop, fs) /\ d.ok /\ ~d.done
  BY DEF PAnimated, PState
<1>2. PICK r, c : r = fr[j] /\ c = writeANMFChunk(r) /\ FrameOk(r) /\ ImageOk(r.data) /\ ~NoPlane(r.data)
  BY DEF FrameOk
<1>3. c[1].v.id = "ANMF" /\ c[2].v = Info(r)
  BY <1>2, FrameChunkRead
<1>4. PICK part : part = FrameChunks(fr, n) /\ part[j] = c /\ Len(part) = n
  <2>1. PICK part : part = FrameChunks(fr, n)
    OBVIOUS
  <2>2. part[j] = c /\ part = [l \in 1 .. n |-> part[l]]
    BY <1>2, <2>1 DEF FrameChunks
  <2>3. QED
    BY <2>1, <2>2, FunctionList
<1>5. Within(part, cs, s) /\ j \in 1 .. Len(part) /\ Len(part) \in Nat
  BY <1>4
<1>6. /\ Id(Written(p), ids[s + j]) = "ANMF" /\ Payload(Written(p), ids[s + j]) = Info(r)
      /\ ids[s + j] \in 1 .. Len(p) /\ Within(c, p, ids[s + j] - 1)
      /\ s + j \in 1 .. Len(ids) /\ Len(ids) \in Nat
  <2>1. /\ Id(Written(p), ids[s + j]) = part[j][1].v.id /\ Payload(Written(p), ids[s + j]) = part[j][2].v
        /\ ids[s + j] \in 1 .. Len(p) /\ Within(part[j], p, ids[s + j] - 1)
        /\ s + j \in 1 .. Len(ids) /\ Len(ids) \in Nat
    BY <1>5, ReadPart
  <2>2. QED
    BY <1>3, <1>4, <2>1
<1>7. PAfter(Written(p), ids)[s + j] = ParseChunk(d, Written(p), ids, s + j)
  <2>1. i \in 1 .. Len(ids) /\ i + 1 <= Len(ids)
    BY <1>6
  <2>2. PAfter(Written(p), ids)[i].ok /\ ~PAfter(Written(p), ids)[i].done
    BY <1>1
  <2>3. PAfter(Written(p), ids)[i + 1] = ParseChunk(PAfter(Written(p), ids)[i], Written(p), ids, i + 1)
    BY <1>6, <2>1, <2>2, ParseSteps
  <2>4. QED
    BY <1>1, <2>3
<1>8. ParseFrame(Written(p), ids[s + j]) = Failed
  <2>1. PICK h \in 1 .. Len(p) : h = ids[s + j]
    BY <1>6
  <2>2. Pieces(p) /\ Within(writeANMFChunk(r), p, h - 1) /\ Payload(Written(p), h) = Info(r)
    BY <1>2, <1>6, <2>1 DEF Reads
  <2>3. ParseFrame(Written(p), h) = FrameParsed(EmptyFrame(r), r.data)
    BY <1>2, <2>2, ParserFindsFrame
  <2>4. QED
    BY <1>2, <2>1, <2>3 DEF FrameParsed, NoPlane
<1>9. ParseChunk(d, Written(p), ids, s + j) = Failed
  <2>1. PICK r1 : r1 = ParseFrame(Written(p), ids[s + j]) /\ ~r1.ok
    BY <1>8 DEF Failed
  <2>2. Id(Written(p), ids[s + j]) = "ANMF"
    BY <1>6
  <2>3. QED
    BY <2>1, <2>2 DEF ParseChunk
<1>10. QED
  BY <1>6, <1>7, <1>9

\* Fewer frames lie where all lie.
LEMMA FewerFrames ==
    ASSUME NEW cs, IsList(cs), NEW s, NEW fr, NEW n \in Nat, Within(FrameChunks(fr, n), cs, s), NEW k \in 0 .. n
    PROVE  Within(FrameChunks(fr, k), cs, s)
<1>1. PICK a : a = FrameChunks(fr, n) /\ Len(a) = n
  <2>1. PICK a : a = FrameChunks(fr, n)
    OBVIOUS
  <2>2. a = [l \in 1 .. n |-> a[l]]
    BY <2>1 DEF FrameChunks
  <2>3. QED
    BY <2>1, <2>2, FunctionList
<1>2. PICK b : b = FrameChunks(fr, k) /\ Len(b) = k
  <2>1. PICK b : b = FrameChunks(fr, k)
    OBVIOUS
  <2>2. b = [l \in 1 .. k |-> b[l]]
    BY <2>1 DEF FrameChunks
  <2>3. k \in Nat
    OBVIOUS
  <2>4. QED
    BY <2>1, <2>2, <2>3, FunctionList
<1>3. \A l \in 1 .. k : a[l] = b[l]
  BY <1>1, <1>2 DEF FrameChunks
<1>4. s \in Nat /\ s + n <= Len(cs) /\ \A l \in 1 .. n : cs[s + l] = a[l]
  BY <1>1 DEF Within
<1>5. Len(cs) \in Nat
  BY ListParts
<1>6. s + k <= Len(cs) /\ \A l \in 1 .. k : cs[s + l] = b[l]
  BY <1>3, <1>4, <1>5
<1>7. QED
  BY <1>2, <1>4, <1>6 DEF Within

\* The first of the frames that it refuses.
LEMMA FirstRefused ==
    ASSUME NEW fr, NEW n \in Nat, ~(\A l \in 1 .. n : NoPlane(fr[l].data))
    PROVE  \E k \in 1 .. n : ~NoPlane(fr[k].data) /\ \A l \in 1 .. k - 1 : NoPlane(fr[l].data)
<1> DEFINE T == {k \in 1 .. n : ~NoPlane(fr[k].data)}
<1>1. T \in SUBSET Nat /\ T # {}
  OBVIOUS
<1>2. PICK k \in T : \A l \in T : k <= l
  <2> HIDE DEF T
  <2>1. QED
    BY <1>1, NatMin
<1>3. \A l \in 1 .. k - 1 : NoPlane(fr[l].data)
  BY <1>2
<1>4. QED
  BY <1>2, <1>3

\* and so it reads the frames as they were given or fails.
LEMMA ParseCutAnimated ==
    ASSUME NEW p, NEW ids, NEW cs, Reads(p, ids, cs), NEW s \in Nat, s >= 1,
           NEW x, NEW icc, NEW bg, NEW loop, PAfter(Written(p), ids)[s] = PBefore(x, icc),
           NEW fr, NEW n \in Nat, n <= MaxFrames, \A j \in 1 .. n : FrameOk(fr[j]),
           NEW ms, ms = AnimList(bg, loop, fr, n), Within(ms, cs, s), NEW e, e = s + Len(ms)
    PROVE  \/ PAfter(Written(p), ids)[e] = PAnimated(x, icc, bg, loop, FramesGiven(fr, n))
           \/ PAfter(Written(p), ids)[Len(ids)] = Failed
<1>1. CASE \A j \in 1 .. n : NoPlane(fr[j].data)
  <2>1. \A j \in 1 .. n : FrameOk(fr[j]) /\ NoPlane(fr[j].data)
    BY <1>1
  <2>2. QED
    BY <2>1, ParseAnimated
<1>2. CASE ~(\A j \in 1 .. n : NoPlane(fr[j].data))
  <2>1. PICK k \in 1 .. n : ~NoPlane(fr[k].data) /\ \A l \in 1 .. k - 1 : NoPlane(fr[l].data)
    BY <1>2, FirstRefused
  <2>2. PICK q \in Nat : q = k - 1 /\ q <= n /\ q <= MaxFrames /\ q \in 0 .. n
    BY MaxFramesAssumption
  <2>3. PICK a, b : a = <<AnimChunk(bg, loop)>> /\ b = FrameChunks(fr, n) /\ IsList(a) /\ Len(a) = 1 /\ IsList(b) /\ Len(b) = n
    <3>1. IsList(<<AnimChunk(bg, loop)>>) /\ Len(<<AnimChunk(bg, loop)>>) = 1
      BY ShortLists
    <3>2. \A j \in 1 .. n : ImageOk(fr[j].data)
      BY DEF FrameOk
    <3>3. IsList(FrameChunks(fr, n)) /\ Len(FrameChunks(fr, n)) = n
      BY <3>2, AnimChunked
    <3>4. QED
      BY <3>1, <3>3
  <2>4. ms = a \o b
    BY <2>3 DEF AnimList
  <2>5. IsList(ms) /\ Within(a, ms, 0) /\ Within(b, ms, 1)
    BY <2>3, <2>4, PartJoined
  <2>6. IsList(cs) /\ Len(cs) \in Nat /\ Len(ms) \in Nat /\ Len(a) \in Nat /\ Len(b) \in Nat
    BY <2>3, <2>5, ListParts DEF Reads
  <2>7. Within(a, cs, s + 0) /\ Within(b, cs, s + 1)
    BY <2>5, <2>6, WithinTwice
  <2>8. PICK t \in Nat : t = s + 1 /\ t >= 1
    OBVIOUS
  <2>9. PAfter(Written(p), ids)[t] = PAnimated(x, icc, bg, loop, <<>>)
    <3>1. s + 0 = s /\ Within(<<AnimChunk(bg, loop)>>, cs, s)
      BY <2>3, <2>7
    <3>2. PICK z, m, o, none : z = FALSE /\ m = -1 /\ o = 1 /\ none = <<>>
      OBVIOUS
    <3>3. PAfter(Written(p), ids)[s] = PState(x, z, icc, Nil, Nil, m, o, none)
      BY <3>2 DEF PBefore
    <3>4. PAfter(Written(p), ids)[s + 1] = PAnimated(x, icc, bg, loop, none)
      BY <3>1, <3>3, ParseAnim
    <3>5. QED
      BY <2>8, <3>2, <3>4
  <2>10. Within(FrameChunks(fr, n), cs, t)
    BY <2>3, <2>7, <2>8
  <2>11. PICK i \in Nat : i = t + q /\ i >= 1 /\ i + 1 = t + k
    BY <2>2, <2>8
  <2>12. PAfter(Written(p), ids)[i] = PAnimated(x, icc, bg, loop, FramesGiven(fr, q))
    <3>1. Within(FrameChunks(fr, q), cs, t)
      BY <2>2, <2>6, <2>10, FewerFrames
    <3>2. \A l \in 1 .. q : FrameOk(fr[l]) /\ NoPlane(fr[l].data)
      BY <2>1, <2>2
    <3>3. PAfter(Written(p), ids)[t + q] = PAnimated(x, icc, bg, loop, FramesGiven(fr, q))
      BY <2>2, <2>8, <2>9, <3>1, <3>2, ParseFrames
    <3>4. QED
      BY <2>11, <3>3
  <2>13. PAfter(Written(p), ids)[t + k] = Failed /\ t + k \in 1 .. Len(ids) /\ Len(ids) \in Nat
    <3>1. FrameOk(fr[k]) /\ ~NoPlane(fr[k].data)
      BY <2>1
    <3>2. QED
      BY <2>8, <2>10, <2>11, <2>12, <3>1, FrameRefused
  <2>14. PAfter(Written(p), ids)[Len(ids)] = Failed
    <3>1. PICK l \in 1 .. Len(ids) : l = t + k
      BY <2>13
    <3>2. PAfter(Written(p), ids)[l] = Failed /\ PAfter(Written(p), ids)[l].done
      BY <2>13, <3>1 DEF Failed
    <3>3. PAfter(Written(p), ids)[Len(ids)] = PAfter(Written(p), ids)[l]
      BY <2>13, <3>2, ParseStays
    <3>4. QED
      BY <3>2, <3>3
  <2>15. QED
    BY <2>14
<1>3. QED
  BY <1>1, <1>2

\* The parser takes the metadata after the frames.
LEMMA ParseEnds ==
    ASSUME NEW x, NEW icc, NEW exif, NEW xmp, Announced(x, exif, xmp), NEW ms, NEW p, NEW ids, NEW cs, Reads(p, ids, cs), NEW i, NEW j, NEW e,
           Opened(Written(p), ids, cs, x, icc, ms, exif, xmp, i, j, e),
           NEW anim, NEW bg, NEW loop, NEW fs,
           PAfter(Written(p), ids)[j] = PState(x, anim, icc, Nil, Nil, bg, loop, fs)
    PROVE  PAfter(Written(p), ids)[Len(ids)] = PState(x, anim, icc, exif, xmp, bg, loop, fs)
<1>1. /\ i \in Nat /\ i >= 1 /\ j \in Nat /\ j >= i
      /\ e = j + Len(OptionalChunks("EXIF", exif)) /\ e \in Nat /\ e >= j
      /\ Len(ids) = e + Len(OptionalChunks("XMP", xmp))
      /\ Within(OptionalChunks("EXIF", exif), cs, j) /\ Within(OptionalChunks("XMP", xmp), cs, e)
  BY DEF Opened
<1>2. j >= 1 /\ e >= 1
  BY <1>1
<1>0. /\ exif \in Nat \cup {Nil} /\ xmp \in Nat \cup {Nil}
      /\ (exif # Nil => x.flags.exif) /\ (xmp # Nil => x.flags.xmp)
  BY DEF Announced
<1>3. PAfter(Written(p), ids)[e] = PState(x, anim, icc, exif, Nil, bg, loop, fs)
  BY <1>0, <1>1, <1>2, ParseMetadata
<1>4. QED
  BY <1>0, <1>1, <1>2, <1>3, ParseMetadata

\* It takes no image of which only the alpha plane is there, and no lossless one with a plane.
LEMMA PlaneRefused ==
    ASSUME NEW f, NEW ids, Len(ids) \in Nat, NEW s \in Nat, s >= 1, NEW x, ~x.flags.anim, NEW icc,
           PAfter(f, ids)[s] = PBefore(x, icc), NEW k \in 1 .. Len(ids), k = s + 1,
           Id(f, ids[k]) = "ALPH", Payload(f, ids[k]) # Nil,
           Len(ids) = k \/ (k + 1 <= Len(ids) /\ Id(f, ids[k + 1]) = "VP8L")
    PROVE  PAfter(f, ids)[Len(ids)] = Failed
<1>1. PICK a : a = PBefore(x, icc) /\ a.ok /\ ~a.done /\ ~a.anim /\ a.flags = x.flags
  BY DEF PBefore, PState
<1>2. PAfter(f, ids)[k] = ParseChunk(a, f, ids, k)
  <2>1. s \in 1 .. Len(ids) /\ s + 1 <= Len(ids)
    OBVIOUS
  <2>2. PAfter(f, ids)[s] = a /\ a.ok /\ ~a.done
    BY <1>1
  <2>3. PAfter(f, ids)[s + 1] = ParseChunk(a, f, ids, s + 1)
    BY <2>1, <2>2, ParseSteps
  <2>4. QED
    BY <2>3
<1>3. ParseChunk(a, f, ids, k) = parseExtSingleImage(a, f, ids, k)
  <2>1. ~a.anim /\ ~a.flags.anim /\ Id(f, ids[k]) = "ALPH"
    BY <1>1
  <2>2. QED
    BY <2>1 DEF ParseChunk
<1>4. PICK first : first = FirstNot(f, ids, k, Len(ids))
  OBVIOUS
<1>5. parseExtSingleImage(a, f, ids, k) = ImageFrom(a, f, ids, k, first)
  BY <1>4, ImageFromFirst
<1>6. ImageFrom(a, f, ids, k, first) = Failed
  <2>1. CASE Len(ids) = k
    <3>1. PICK T : T = {l \in k .. Len(ids) : Id(f, ids[l]) # "ALPH"} \union {Len(ids) + 1}
      OBVIOUS
    <3>2. T \in SUBSET Nat /\ k + 1 \in T /\ \A t \in T : k + 1 <= t
      BY <2>1, <3>1
    <3>3. Min(T) = k + 1
      BY <3>2, MinIs
    <3>4. first = k + 1
      BY <1>4, <3>1, <3>3 DEF FirstNot
    <3>5. first > Len(ids)
      BY <2>1, <3>4
    <3>6. QED
      BY <3>5 DEF ImageFrom
  <2>2. CASE k + 1 <= Len(ids) /\ Id(f, ids[k + 1]) = "VP8L"
    <3>1. PICK i \in Nat, n \in Nat : i = k + 1 /\ n = Len(ids)
      OBVIOUS
    <3>2. /\ k \in Nat /\ k >= 1 /\ i <= n /\ k <= i /\ (i = k \/ i = k + 1)
          /\ (i = k + 1 => Id(f, ids[k]) = "ALPH") /\ Id(f, ids[i]) # "ALPH"
      BY <2>2, <3>1
    <3>3. FirstNot(f, ids, k, n) = i
      BY <3>2, FirstImage, SMTT(30)
    <3>4. first = i
      BY <1>4, <3>1, <3>3
    <3>5. ~(first > Len(ids)) /\ first # k /\ first - 1 = k /\ Id(f, ids[first]) = "VP8L"
      BY <2>2, <3>1, <3>4
    <3>6. PICK alph : alph = Payload(f, ids[first - 1]) /\ alph # Nil
      BY <3>5
    <3>7. QED
      BY <3>5, <3>6 DEF ImageFrom
  <2>3. QED
    BY <2>1, <2>2
<1>7. PAfter(f, ids)[k] = Failed /\ PAfter(f, ids)[k].done
  BY <1>2, <1>3, <1>5, <1>6 DEF Failed
<1>8. PAfter(f, ids)[Len(ids)] = PAfter(f, ids)[k]
  BY <1>7, ParseStays
<1>9. QED
  BY <1>7, <1>8

\* The parser on an animation that is cut off,
LEMMA ParseCutAnim ==
    ASSUME NEW fr, NEW n \in Nat, n <= MaxFrames, \A l \in 1 .. n : FrameOk(fr[l]),
           NEW icc \in Nat \cup {Nil}, NEW exif \in Nat \cup {Nil}, NEW xmp \in Nat \cup {Nil},
           NEW x, icc # Nil => x.flags.icc, exif # Nil => x.flags.exif, xmp # Nil => x.flags.xmp,
           NEW bg, NEW loop,
           NEW f, f = Written(ExtFile(x, icc, AnimPieces(bg, loop, fr, n), exif, xmp)), NEW bytes \in Nat,
           NEW g, g.frames = FramesGiven(fr, n), g.icc = icc, g.exif = exif, g.xmp = xmp
    PROVE  HonestOf(f, bytes, g, Parse(f, bytes), 0)
<1>1. \A l \in 1 .. n : ImageOk(fr[l].data)
  BY DEF FrameOk
<1>2. PICK b, ms : b = AnimPieces(bg, loop, fr, n) /\ ms = AnimList(bg, loop, fr, n) /\ Chunked(b, ms)
  BY <1>1, AnimChunked
<1>3. PICK r : r = Parse(f, bytes)
  OBVIOUS
<1>4. CASE r = Failed
  BY <1>3, <1>4, FailedHonest
<1>5. CASE r # Failed
  <2>1. PICK p, is, i, m, e, y :
            CutFile(f, bytes, x, icc, ms, exif, xmp, p, is, i, m, e, y) /\ r = PAfter(f, is)[Len(is)]
    <3>1. f = Written(ExtFile(x, icc, b, exif, xmp))
      BY <1>2
    <3>2. \/ Parse(f, bytes) = Failed
          \/ \E p, is, i, m, e, y :
                 /\ CutFile(f, bytes, x, icc, ms, exif, xmp, p, is, i, m, e, y)
                 /\ Parse(f, bytes) = PAfter(f, is)[Len(is)]
      BY <1>2, <3>1, ParseCut
    <3>3. QED
      BY <1>3, <1>5, <3>2
  <2>2. PICK cs : cs = ExtList(x, i, m, e, y)
    OBVIOUS
  <2>3. /\ f = Written(p) /\ Reads(p, is, cs) /\ Begins(m, ms)
        /\ i \in {Nil, icc} /\ e \in {Nil, exif} /\ y \in {Nil, xmp}
    BY <2>1, <2>2 DEF CutFile
  <2>4. i \in Nat \cup {Nil} /\ e \in Nat \cup {Nil} /\ y \in Nat \cup {Nil} /\ IsList(m)
    BY <2>1, CutKept
  <2>5. (i # Nil => x.flags.icc) /\ (e # Nil => x.flags.exif) /\ (y # Nil => x.flags.xmp)
    BY <2>3
  <2>6. PICK u, v, w : Opened(Written(p), is, cs, x, i, m, e, y, u, v, w)
    BY <2>2, <2>3, <2>4, <2>5, ParseOpened
  <2>7. u \in Nat /\ u >= 1 /\ v = u + Len(m) /\ Within(m, cs, u) /\ PAfter(Written(p), is)[u] = PBefore(x, i)
    BY <2>6 DEF Opened
  <2>8. ASSUME NEW anim, NEW o, NEW q, NEW fs, PAfter(Written(p), is)[v] = PState(x, anim, i, Nil, Nil, o, q, fs)
        PROVE  r.frames = fs /\ r.icc = i /\ r.exif = e /\ r.xmp = y
    <3>1. PAfter(Written(p), is)[Len(is)] = PState(x, anim, i, e, y, o, q, fs)
      <4>1. Reads(p, is, cs) /\ Announced(x, e, y)
        BY <2>3, <2>4, <2>5 DEF Announced
      <4>2. QED
        BY <2>6, <2>8, <4>1, ParseEnds
    <3>2. r = PState(x, anim, i, e, y, o, q, fs)
      BY <2>1, <2>3, <3>1
    <3>3. QED
      BY <3>2 DEF PState
  <2>9. ASSUME r.icc = i, r.exif = e, r.xmp = y
        PROVE  MetadataTaken(f, bytes, m, g, r)
    <3>1. CutFile(f, bytes, x, icc, ms, exif, xmp, p, is, i, m, e, y)
      BY <2>1
    <3>2. r.icc = i /\ r.exif \in {Nil, e} /\ r.xmp \in {Nil, y}
      BY <2>9
    <3>3. QED
      BY <3>1, <3>2, MetadataHonest
  <2>10. CASE m = <<>>
    <3>1. v = u
      BY <2>7, <2>10, EmptyList
    <3>2. PICK z, o, q, none : z = FALSE /\ o = -1 /\ q = 1 /\ none = <<>>
      OBVIOUS
    <3>3. PAfter(Written(p), is)[v] = PState(x, z, i, Nil, Nil, o, q, none)
      BY <2>7, <3>1, <3>2 DEF PBefore
    <3>4. r.frames = none /\ r.icc = i /\ r.exif = e /\ r.xmp = y
      BY <2>8, <3>3
    <3>5. PICK t \in 0 .. n : t = 0
      OBVIOUS
    <3>6. r.frames = FramesGiven(fr, t)
      BY <3>2, <3>4, <3>5, FirstFrames
    <3>7. HonestOf(f, bytes, g, r, t)
      <4>1. FramesIn(m, bg, loop, fr, t) /\ t <= t
        BY <3>5 DEF FramesIn
      <4>2. MetadataTaken(f, bytes, m, g, r)
        BY <2>9, <3>4
      <4>3. QED
        BY <1>1, <3>6, <4>1, <4>2, HonestFrames
    <3>8. QED
      BY <1>3, <3>5, <3>7
  <2>11. CASE m # <<>>
    <3>1. PICK t \in 0 .. n : m = AnimList(bg, loop, fr, t)
      BY <1>2, <2>3, <2>11, CutAnim
    <3>2. t \in Nat /\ t <= MaxFrames /\ \A l \in 1 .. t : FrameOk(fr[l])
      <4>1. t \in Nat /\ t <= n /\ MaxFrames \in Nat
        BY MaxFramesAssumption
      <4>2. QED
        BY <4>1
    <3>3. PAfter(Written(p), is)[v] = PAnimated(x, i, bg, loop, FramesGiven(fr, t))
      <4>1. \/ PAfter(Written(p), is)[v] = PAnimated(x, i, bg, loop, FramesGiven(fr, t))
            \/ PAfter(Written(p), is)[Len(is)] = Failed
        BY <2>3, <2>7, <3>1, <3>2, ParseCutAnimated
      <4>2. PAfter(Written(p), is)[Len(is)] # Failed
        BY <1>5, <2>1, <2>3
      <4>3. QED
        BY <4>1, <4>2
    <3>4. PICK z, fs : z = TRUE /\ fs = FramesGiven(fr, t)
      OBVIOUS
    <3>5. PAfter(Written(p), is)[v] = PState(x, z, i, Nil, Nil, bg, loop, fs)
      BY <3>3, <3>4 DEF PAnimated
    <3>6. r.frames = fs /\ r.icc = i /\ r.exif = e /\ r.xmp = y
      BY <2>8, <3>5
    <3>7. PICK least : least = 0 /\ least <= t
      OBVIOUS
    <3>8. r.frames = FramesGiven(fr, t)
      BY <3>4, <3>6
    <3>9. HonestOf(f, bytes, g, r, least)
      <4>1. FramesIn(m, bg, loop, fr, t)
        BY <3>1 DEF FramesIn
      <4>2. MetadataTaken(f, bytes, m, g, r)
        BY <2>9, <3>6
      <4>3. least <= t
        BY <3>7
      <4>4. QED
        BY <1>1, <3>8, <4>1, <4>2, <4>3, HonestFrames
    <3>10. QED
      BY <1>3, <3>7, <3>9
  <2>12. QED
    BY <2>10, <2>11
<1>6. QED
  BY <1>4, <1>5

\* An alpha plane alone is no image,
LEMMA ParseOnlyPlane ==
    ASSUME NEW p, NEW ids, NEW cs, Reads(p, ids, cs), NEW s \in Nat, s >= 1, NEW x, ~x.flags.anim, NEW icc,
           PAfter(Written(p), ids)[s] = PBefore(x, icc),
           NEW n \in Nat, NEW m, m = OptionalChunks("ALPH", n), Within(m, cs, s), Len(ids) = s + Len(m)
    PROVE  PAfter(Written(p), ids)[Len(ids)] = Failed
<1>1. Len(m) = 1 /\ m[1][1].v.id = "ALPH" /\ m[1][2].v = n /\ n # Nil
  <2>1. PICK v : v = OptionalChunks("ALPH", n)
    OBVIOUS
  <2>2. n # Nil /\ n \in Nat \cup {Nil}
    BY DEF Nil
  <2>3. Len(v) = 1 /\ v[1][1].v.id = "ALPH" /\ v[1][2].v = n
    BY <2>1, <2>2, OptionalChunk
  <2>4. QED
    BY <2>1, <2>2, <2>3
<1>2. PICK j \in 1 .. Len(m) : j = 1
  BY <1>1
<1>3. /\ s + j \in 1 .. Len(ids) /\ Len(ids) \in Nat
      /\ Id(Written(p), ids[s + j]) = m[j][1].v.id /\ Payload(Written(p), ids[s + j]) = m[j][2].v
  <2>1. PICK part : part = m
    OBVIOUS
  <2>2. Within(part, cs, s) /\ Len(part) \in Nat /\ j \in 1 .. Len(part)
    BY <1>1, <2>1
  <2>3. /\ s + j \in 1 .. Len(ids) /\ Len(ids) \in Nat
        /\ Id(Written(p), ids[s + j]) = part[j][1].v.id /\ Payload(Written(p), ids[s + j]) = part[j][2].v
    BY <2>2, ReadPart
  <2>4. QED
    BY <2>1, <2>3
<1>4. PICK k \in 1 .. Len(ids) : k = s + 1 /\ k = s + j
  BY <1>2, <1>3
<1>5. /\ Id(Written(p), ids[k]) = "ALPH" /\ Payload(Written(p), ids[k]) # Nil /\ Len(ids) = k
  BY <1>1, <1>2, <1>3, <1>4
<1>6. QED
  BY <1>3, <1>4, <1>5, PlaneRefused

\* and with a lossless image it is an error.
LEMMA ParsePlaneLossless ==
    ASSUME NEW p, NEW ids, NEW cs, Reads(p, ids, cs), NEW s \in Nat, s >= 1, NEW x, ~x.flags.anim, NEW icc,
           PAfter(Written(p), ids)[s] = PBefore(x, icc),
           NEW d, ImageOk(d), ~NoPlane(d), Within(SubList(d), cs, s)
    PROVE  PAfter(Written(p), ids)[Len(ids)] = Failed
<1>1. d.codec = "VP8L" /\ d.alph # Nil
  BY DEF NoPlane
<1>2. PICK m : m = SubList(d)
  OBVIOUS
<1>3. /\ Len(m) = 2 /\ m[2][1].v.id = "VP8L" /\ m[1][1].v.id = "ALPH" /\ m[1][2].v = d.alph
  <2>1. Planes(d) = 1
    BY <1>1 DEF Planes
  <2>2. /\ Len(SubList(d)) = Planes(d) + 1 /\ SubList(d)[Planes(d) + 1][1].v.id = d.codec
        /\ SubList(d)[1][1].v.id = "ALPH" /\ SubList(d)[1][2].v = d.alph
    BY <1>1, ImageChunks
  <2>3. QED
    BY <1>1, <1>2, <2>1, <2>2
<1>4. PICK j \in 1 .. Len(m), l \in 1 .. Len(m) : j = 1 /\ l = 2
  BY <1>3
<1>5. Within(m, cs, s) /\ Len(m) \in Nat
  BY <1>2, <1>3
<1>6. /\ s + j \in 1 .. Len(ids) /\ Len(ids) \in Nat
      /\ Id(Written(p), ids[s + j]) = m[j][1].v.id /\ Payload(Written(p), ids[s + j]) = m[j][2].v
  BY <1>5, ReadPart
<1>7. s + l \in 1 .. Len(ids) /\ Id(Written(p), ids[s + l]) = m[l][1].v.id
  BY <1>5, ReadPart
<1>8. PICK k \in 1 .. Len(ids) : k = s + 1 /\ k = s + j /\ k + 1 = s + l
  BY <1>4, <1>6
<1>9. /\ Id(Written(p), ids[k]) = "ALPH" /\ Payload(Written(p), ids[k]) # Nil
      /\ k + 1 <= Len(ids) /\ Id(Written(p), ids[k + 1]) = "VP8L"
  BY <1>1, <1>3, <1>4, <1>6, <1>7, <1>8
<1>10. QED
  BY <1>6, <1>8, <1>9, PlaneRefused

\* and on a still image.
LEMMA ParseCutStill ==
    ASSUME NEW d, ImageOk(d),
           NEW x, ~x.flags.anim, IsFlags(x.flags), x.flags.alpha = HasAlphaOf(d),
           NEW icc \in Nat \cup {Nil}, NEW exif \in Nat \cup {Nil}, NEW xmp \in Nat \cup {Nil},
           icc # Nil => x.flags.icc, exif # Nil => x.flags.exif, xmp # Nil => x.flags.xmp,
           NEW f, f = Written(ExtFile(x, icc, SubPieces(d), exif, xmp)), NEW bytes \in Nat,
           NEW g, g.frames = <<StillGiven(d)>>, g.icc = icc, g.exif = exif, g.xmp = xmp
    PROVE  HonestOf(f, bytes, g, Parse(f, bytes), 0)
<1>2. PICK b, ms : b = SubPieces(d) /\ ms = SubList(d) /\ Chunked(b, ms)
  BY ImageChunks
<1>3. PICK r : r = Parse(f, bytes)
  OBVIOUS
<1>4. CASE r = Failed
  BY <1>3, <1>4, FailedHonest
<1>5. CASE r # Failed
  <2>1. PICK p, is, i, m, e, y :
            CutFile(f, bytes, x, icc, ms, exif, xmp, p, is, i, m, e, y) /\ r = PAfter(f, is)[Len(is)]
    <3>1. f = Written(ExtFile(x, icc, b, exif, xmp))
      BY <1>2
    <3>2. \/ Parse(f, bytes) = Failed
          \/ \E p, is, i, m, e, y :
                 /\ CutFile(f, bytes, x, icc, ms, exif, xmp, p, is, i, m, e, y)
                 /\ Parse(f, bytes) = PAfter(f, is)[Len(is)]
      BY <1>2, <3>1, ParseCut
    <3>3. QED
      BY <1>3, <1>5, <3>2
  <2>2. PICK cs : cs = ExtList(x, i, m, e, y)
    OBVIOUS
  <2>3. /\ f = Written(p) /\ Reads(p, is, cs) /\ Begins(m, ms) /\ (m = ms \/ (e = Nil /\ y = Nil))
        /\ i \in {Nil, icc} /\ e \in {Nil, exif} /\ y \in {Nil, xmp}
    BY <2>1, <2>2 DEF CutFile
  <2>4. i \in Nat \cup {Nil} /\ e \in Nat \cup {Nil} /\ y \in Nat \cup {Nil} /\ IsList(m)
    BY <2>1, CutKept
  <2>5. (i # Nil => x.flags.icc) /\ Announced(x, e, y)
    BY <2>3, <2>4 DEF Announced
  <2>6. PICK u, v, w : Opened(Written(p), is, cs, x, i, m, e, y, u, v, w)
    BY <2>2, <2>3, <2>4, <2>5, ParseOpened
  <2>7. /\ u \in Nat /\ u >= 1 /\ v = u + Len(m) /\ v \in Nat /\ Within(m, cs, u)
        /\ PAfter(Written(p), is)[u] = PBefore(x, i)
        /\ w = v + Len(OptionalChunks("EXIF", e)) /\ Len(is) = w + Len(OptionalChunks("XMP", y))
    BY <2>6 DEF Opened
  <2>8. Reads(p, is, cs) /\ r = PAfter(Written(p), is)[Len(is)] /\ ~x.flags.anim
    BY <2>1, <2>3
  <2>9. ASSUME r.icc = i, r.exif \in {Nil, e}, r.xmp \in {Nil, y},
               ImageIn(m, d, r.frames, g.frames, 0)
        PROVE  HonestOf(f, bytes, g, r, 0)
    <3>1. MetadataTaken(f, bytes, m, g, r)
      <4>1. CutFile(f, bytes, x, icc, ms, exif, xmp, p, is, i, m, e, y)
        BY <2>1
      <4>2. QED
        BY <2>9, <4>1, MetadataHonest
    <3>2. PICK least \in 0 .. 1 : least = 0
      OBVIOUS
    <3>3. ImageIn(m, d, r.frames, g.frames, least)
      BY <2>9, <3>2
    <3>4. \E a : g.frames = <<a>>
      OBVIOUS
    <3>5. HonestOf(f, bytes, g, r, least)
      BY <3>1, <3>3, <3>4, HonestImage
    <3>6. QED
      BY <3>2, <3>5
  <2>10. CASE m = <<>>
    <3>1. v = u
      BY <2>7, <2>10, EmptyList
    <3>2. PICK z, o, q, none : z = FALSE /\ o = -1 /\ q = 1 /\ none = <<>>
      OBVIOUS
    <3>3. PAfter(Written(p), is)[v] = PState(x, z, i, Nil, Nil, o, q, none)
      BY <2>7, <3>1, <3>2 DEF PBefore
    <3>4. PAfter(Written(p), is)[Len(is)] = PState(x, z, i, e, y, o, q, none)
      BY <2>5, <2>6, <2>8, <3>3, ParseEnds
    <3>5. r.frames = <<>> /\ r.icc = i /\ r.exif = e /\ r.xmp = y
      BY <2>8, <3>2, <3>4 DEF PState
    <3>6. QED
      BY <1>3, <2>9, <3>5 DEF ImageIn
  <2>11. CASE m # <<>> /\ m # SubList(d)
    <3>1. m = OptionalChunks("ALPH", d.alph)
      BY <1>2, <2>3, <2>11, CutImage
    <3>2. d.alph # Nil
      BY <2>11, <3>1 DEF OptionalChunks
    <3>3. PICK n \in Nat : n = d.alph
      BY <3>2, ImageParts
    <3>4. e = Nil /\ y = Nil
      BY <1>2, <2>3, <2>11
    <3>5. Len(is) = u + Len(m)
      <4>1. OptionalChunks("EXIF", e) = <<>> /\ OptionalChunks("XMP", y) = <<>> /\ Len(<<>>) = 0
        BY <3>4, EmptyList DEF OptionalChunks
      <4>2. QED
        BY <2>7, <4>1
    <3>6. m = OptionalChunks("ALPH", n)
      BY <3>1, <3>3
    <3>7. PAfter(Written(p), is)[Len(is)] = Failed
      BY <2>7, <2>8, <3>5, <3>6, ParseOnlyPlane
    <3>8. QED
      BY <1>5, <2>8, <3>7
  <2>12. CASE m = SubList(d)
    <3>1. Within(SubList(d), cs, u)
      BY <2>7, <2>12
    <3>2. NoPlane(d)
      <4> SUFFICES ASSUME ~NoPlane(d) PROVE FALSE
        OBVIOUS
      <4>1. PAfter(Written(p), is)[Len(is)] = Failed
        BY <2>7, <2>8, <3>1, ParsePlaneLossless
      <4>2. QED
        BY <1>5, <2>8, <4>1
    <3>3. PAfter(Written(p), is)[Len(is)] = PTaken(x, i, d)
      BY <2>7, <2>8, <3>1, <3>2, ParseImage
    <3>4. r.frames = <<StillOf(d, d.w, d.h)>> /\ r.icc = i /\ r.exif = Nil /\ r.xmp = Nil
      BY <2>8, <3>3 DEF PTaken
    <3>5. StillOf(d, d.w, d.h) = StillGiven(d)
      BY DEF StillOf, StillGiven
    <3>6. QED
      BY <1>3, <2>9, <2>12, <3>4, <3>5 DEF ImageIn
  <2>13. QED
    BY <2>10, <2>11, <2>12
<1>6. QED
  BY <1>4, <1>5

\* Of a simple file that is cut off a reader has found the one chunk, or nothing.
LEMMA SimpleCut ==
    ASSUME NEW d, ImageOk(d), d.alph = Nil, NEW f, f = Written(SimpleFile(d)), NEW bytes \in Nat, NEW pad,
           NEW ids, ids = Walk(f, RIFFHeaderSize, PayloadEnd(f, bytes), pad),
           ~(bytes < RIFFHeaderSize), ids # <<>>, ids[1] # 0
    PROVE  /\ Id(f, ids[1]) = d.codec /\ Payload(f, ids[1]) = Raw(d)
           /\ Cardinality(ArrivedIn(f, bytes, {"VP8", "VP8L"})) \in Nat
           /\ 1 <= Cardinality(ArrivedIn(f, bytes, {"VP8", "VP8L"}))
<1>1. PICK c : c = writeDataChunk(d.codec, d.n, Raw(d)) /\ IsChunk(c) /\ Size(c) = chunkTotalSize(d.n)
               /\ c[1].v.id = d.codec /\ c[2].v = Raw(d)
  BY ImageParts, DataChunk
<1>2. PICK cs : cs = <<c>> /\ Len(cs) = 1 /\ cs[1] = c /\ IsList(cs)
  BY ShortLists
<1>3. Chunked(c, cs)
  BY <1>1, <1>2, ChunkedOne
<1>4. cs = SubList(d)
  <2>1. PICK a : a = OptionalChunks("ALPH", d.alph) /\ a = <<>>
    BY DEF OptionalChunks
  <2>2. SubList(d) = a \o cs
    BY <1>1, <1>2, <2>1 DEF SubList
  <2>3. QED
    BY <1>2, <2>1, <2>2, NothingJoined
<1>5. PICK p, size : size = 4 + Size(c) /\ p = FilePieces(size, c)
  OBVIOUS
<1>6. f = Written(p)
  BY <1>1, <1>5 DEF SimpleFile
<1>7. PICK j : CutReads(p, ids, cs, j, bytes)
  <2>1. ids = Walk(Written(p), RIFFHeaderSize, PayloadEnd(Written(p), bytes), pad)
    BY <1>6
  <2>2. QED
    BY <1>3, <1>5, <2>1, CutRead
<1>8. j \in 0 .. 1 /\ IsList(ids) /\ Len(ids) \in Nat /\ Len(ids) # 0 /\ \A k \in 1 .. Len(ids) : k > j => ids[k] = 0
  <2>1. j \in 0 .. Len(cs) /\ IsList(ids) /\ Len(ids) \in Nat /\ \A k \in 1 .. Len(ids) : k > j => ids[k] = 0
    BY <1>7 DEF CutReads
  <2>2. Len(ids) # 0
    BY <2>1, EmptyList, SameList
  <2>3. QED
    BY <1>2, <2>1, <2>2
<1>9. j = 1
  <2>1. 1 \in 1 .. Len(ids)
    BY <1>8
  <2>2. ~(1 > j)
    BY <1>8, <2>1
  <2>3. QED
    BY <1>8, <2>2
<1>10. PICK k \in 1 .. j : k = 1
  BY <1>9
<1>11. Id(Written(p), ids[k]) = cs[k][1].v.id /\ Payload(Written(p), ids[k]) = cs[k][2].v
  BY <1>7 DEF CutReads
<1>12. Id(f, ids[1]) = d.codec /\ Payload(f, ids[1]) = Raw(d)
  BY <1>1, <1>2, <1>6, <1>10, <1>11
<1>13. Pieces(p) /\ Here(p, SubList(d), bytes) /\ \E s : Within(SubList(d), SubList(d), s)
  <2>1. Pieces(p)
    BY <1>7 DEF CutReads
  <2>2. Begins(cs, cs) /\ Len(cs) = j
    BY <1>2, <1>9, BeginsItself
  <2>3. Here(p, cs, bytes)
    BY <1>7, <2>2 DEF Here
  <2>4. Within(cs, cs, 0)
    BY <1>2, ListParts DEF Within
  <2>5. QED
    BY <1>4, <2>1, <2>3, <2>4
<1>14. /\ Cardinality(ArrivedIn(Written(p), bytes, {"VP8", "VP8L"})) \in Nat
       /\ 1 <= Cardinality(ArrivedIn(Written(p), bytes, {"VP8", "VP8L"}))
  BY <1>13, ArrivedFinite, ImageArrived
<1>15. QED
  BY <1>6, <1>12, <1>14

\* What a reader says of a simple file then is right.
LEMMA HonestSimple ==
    ASSUME NEW d, NEW f, NEW bytes, NEW g, g.frames = <<StillGiven(d)>>,
           Cardinality(ArrivedIn(f, bytes, {"VP8", "VP8L"})) \in Nat,
           1 <= Cardinality(ArrivedIn(f, bytes, {"VP8", "VP8L"})),
           NEW r, r = SimpleState(d), NEW least \in 0 .. 1
    PROVE  HonestOf(f, bytes, g, r, least)
<1>1. PICK a : a = StillGiven(d) /\ g.frames = <<a>>
  OBVIOUS
<1>2. r.frames = <<a>> /\ r.icc = Nil /\ r.exif = Nil /\ r.xmp = Nil
  BY <1>1 DEF SimpleState
<1>3. IsPrefix(r.frames, g.frames) /\ Len(r.frames) = 1
  BY <1>1, <1>2, OneFrame
<1>4. Kept(f, bytes, r.icc, g.icc, "ICCP") /\ Kept(f, bytes, r.exif, g.exif, "EXIF") /\ Kept(f, bytes, r.xmp, g.xmp, "XMP")
  BY <1>2, KeptNil
<1>5. PICK arrived \in Nat : arrived = Cardinality(ArrivedIn(f, bytes, {"VP8", "VP8L"})) /\ 1 <= arrived
  OBVIOUS
<1>6. least <= 1
  OBVIOUS
<1>7. QED
  BY <1>3, <1>4, <1>5, <1>6 DEF HonestOf

\* The demuxer is honest about a simple file,
LEMMA DemuxCutSimple ==
    ASSUME NEW d, ImageOk(d), d.alph = Nil, NEW f, f = Written(SimpleFile(d)), NEW bytes \in Nat,
           NEW g, g.frames = <<StillGiven(d)>>
    PROVE  HonestOf(f, bytes, g, Demux(f, bytes), 1)
<1>1. PICK pad, ids : pad = FALSE /\ ids = Walk(f, RIFFHeaderSize, PayloadEnd(f, bytes), pad)
  OBVIOUS
<1>2. CASE bytes < RIFFHeaderSize \/ ids = <<>> \/ ids[1] = 0
  <2>1. Demux(f, bytes) = Failed
    BY <1>1, <1>2 DEF Demux
  <2>2. QED
    BY <2>1, FailedHonest
<1>3. CASE ~(bytes < RIFFHeaderSize) /\ ids # <<>> /\ ids[1] # 0
  <2>1. ids = Walk(f, RIFFHeaderSize, PayloadEnd(f, bytes), pad)
    BY <1>1
  <2>2. /\ Id(f, ids[1]) = d.codec /\ Payload(f, ids[1]) = Raw(d)
        /\ Cardinality(ArrivedIn(f, bytes, {"VP8", "VP8L"})) \in Nat
        /\ 1 <= Cardinality(ArrivedIn(f, bytes, {"VP8", "VP8L"}))
    BY <1>3, <2>1, SimpleCut
  <2>3. DemuxSimple(f, ids[1]) = SimpleState(d) /\ Id(f, ids[1]) # "VP8X"
    BY <2>2, DemuxOneImage
  <2>4. Demux(f, bytes) = DemuxSimple(f, ids[1])
    BY <1>1, <1>3, <2>3 DEF Demux
  <2>5. PICK least \in 0 .. 1 : least = 1
    OBVIOUS
  <2>6. HonestOf(f, bytes, g, SimpleState(d), least)
    BY <2>2, HonestSimple
  <2>7. QED
    BY <2>3, <2>4, <2>5, <2>6
<1>4. QED
  BY <1>2, <1>3

\* and so is the parser.
LEMMA ParseCutSimple ==
    ASSUME NEW d, ImageOk(d), d.alph = Nil, NEW f, f = Written(SimpleFile(d)), NEW bytes \in Nat,
           NEW g, g.frames = <<StillGiven(d)>>
    PROVE  HonestOf(f, bytes, g, Parse(f, bytes), 0)
<1>1. PICK pad, ids : pad = TRUE /\ ids = Walk(f, RIFFHeaderSize, PayloadEnd(f, bytes), pad)
  OBVIOUS
<1>2. CASE bytes < RIFFHeaderSize \/ ids = <<>> \/ ids[1] = 0
  <2>1. Parse(f, bytes) = Failed
    BY <1>1, <1>2 DEF Parse
  <2>2. QED
    BY <2>1, FailedHonest
<1>3. CASE ~(bytes < RIFFHeaderSize) /\ ids # <<>> /\ ids[1] # 0
  <2>1. ids = Walk(f, RIFFHeaderSize, PayloadEnd(f, bytes), pad)
    BY <1>1
  <2>2. /\ Id(f, ids[1]) = d.codec /\ Payload(f, ids[1]) = Raw(d)
        /\ Cardinality(ArrivedIn(f, bytes, {"VP8", "VP8L"})) \in Nat
        /\ 1 <= Cardinality(ArrivedIn(f, bytes, {"VP8", "VP8L"}))
    BY <1>3, <2>1, SimpleCut
  <2>3. ParseSingleImage(f, ids[1]) = SimpleState(d) /\ Id(f, ids[1]) # "VP8X"
    BY <2>2, ParseOneImage
  <2>4. Parse(f, bytes) = ParseSingleImage(f, ids[1])
    BY <1>1, <1>3, <2>3 DEF Parse
  <2>5. PICK least \in 0 .. 1 : least = 0
    OBVIOUS
  <2>6. HonestOf(f, bytes, g, SimpleState(d), least)
    BY <2>2, HonestSimple
  <2>7. QED
    BY <2>3, <2>4, <2>5, <2>6
<1>4. QED
  BY <1>2, <1>3

\* Where a file can be cut off is a number of bytes.
LEMMA CutsOfPieces ==
    ASSUME NEW body, NEW cs, Chunked(body, cs), NEW size, size = 4 + Size(body),
           NEW f, f = Written(FilePieces(size, body))
    PROVE  Cuts(f) \subseteq Nat
<1>1. PICK bytes, pad, p : bytes = Bytes(f) /\ pad = TRUE /\ p = FilePieces(size, body)
  OBVIOUS
<1>2. /\ Reads(FilePieces(size, body), Walk(f, RIFFHeaderSize, PayloadEnd(f, bytes), pad), cs)
      /\ bytes \in Nat
  BY <1>1, FileRead
<1>3. Pieces(p) /\ f = Written(p) /\ Bytes(f) \in Nat
  BY <1>1, <1>2 DEF Reads
<1>4. ASSUME NEW i \in DOMAIN f
      PROVE  f[i].at \in Nat
  <2>1. i \in 1 .. Len(p) /\ f[i].at = At(p, i) /\ Len(p) \in Nat
    BY <1>3, WrittenRules, AtType
  <2>2. i \in 1 .. Len(p) + 1
    BY <2>1
  <2>3. At(p, i) \in Nat
    BY <1>3, <2>2, AtType
  <2>4. QED
    BY <2>1, <2>3
<1>5. QED
  BY <1>3, <1>4 DEF Cuts

\* So it is of an extended file,
LEMMA CutsOfExt ==
    ASSUME NEW x, NEW icc \in Nat \cup {Nil}, NEW exif \in Nat \cup {Nil}, NEW xmp \in Nat \cup {Nil},
           NEW b, NEW ms, Chunked(b, ms), NEW f, f = Written(ExtFile(x, icc, b, exif, xmp))
    PROVE  Cuts(f) \subseteq Nat
<1>1. PICK body, cs : body = ExtBody(x, icc, b, exif, xmp) /\ cs = ExtList(x, icc, ms, exif, xmp)
  OBVIOUS
<1>2. Chunked(body, cs)
  BY <1>1, ExtChunked
<1>3. PICK size : size = 4 + Size(body)
  OBVIOUS
<1>4. f = Written(FilePieces(size, body))
  BY <1>1, <1>3 DEF ExtFile
<1>5. QED
  BY <1>2, <1>3, <1>4, CutsOfPieces

\* and of a simple one.
LEMMA CutsOfSimple ==
    ASSUME NEW d, ImageOk(d), NEW f, f = Written(SimpleFile(d))
    PROVE  Cuts(f) \subseteq Nat
<1>1. PICK c : c = writeDataChunk(d.codec, d.n, Raw(d)) /\ IsChunk(c) /\ Size(c) = chunkTotalSize(d.n)
  BY ImageParts, DataChunk
<1>2. PICK cs : cs = <<c>> /\ Chunked(c, cs)
  BY <1>1, ChunkedOne
<1>3. PICK size : size = 4 + Size(c)
  OBVIOUS
<1>4. f = Written(FilePieces(size, c))
  BY <1>1, <1>3 DEF SimpleFile
<1>5. QED
  BY <1>2, <1>3, <1>4, CutsOfPieces

\* A file of the Muxer does, whatever the Muxer holds when it assembles it.
LEMMA MuxerCuts ==
    ASSUME MuxerOk, validate, Carried,
           NEW f, f = Written(IF needsVP8X THEN assembleExtended ELSE assembleSimple),
           NEW g, g = MuxerGiven
    PROVE  CutRight(f, g)
<1> SUFFICES ASSUME NEW bytes \in Nat
             PROVE  /\ Cuts(f) \subseteq Nat
                    /\ HonestOf(f, bytes, g, Demux(f, bytes), 1) /\ HonestOf(f, bytes, g, Parse(f, bytes), 0)
  BY DEF CutRight
<1>1. PICK n \in Nat : n = Len(frames) /\ DOMAIN frames = 1 .. n /\ n >= 1 /\ n <= MaxFrames
  <2>1. Len(frames) \in Nat /\ DOMAIN frames = 1 .. Len(frames) /\ IsList(frames) /\ Len(frames) <= MaxFrames
    BY ListParts DEF MuxerOk
  <2>2. frames # <<>>
    BY DEF validate
  <2>3. Len(frames) # 0
    BY <2>1, <2>2, EmptyList, SameList
  <2>4. Len(frames) >= 1
    BY <2>1, <2>3
  <2>5. QED
    BY <2>1, <2>4
<1>2. PICK d : d = frames[1].data /\ ImageOk(d)
  BY <1>1 DEF MuxerOk, FrameOk
<1>3. PICK cw \in 1 .. MaxCanvasSize, ch \in 1 .. MaxCanvasSize :
          cw = canvasSize[1] /\ ch = canvasSize[2] /\ canvasSize = <<cw, ch>>
  BY CanvasOk DEF Pair
<1>4. PICK x : x = AssembledX /\ x.flags = AssembledFlags /\ x.w + 1 = cw /\ x.h + 1 = ch
  BY <1>3, ExtendedParts DEF AssembledX
<1>5. g = MuxerGiven /\ f = Written(IF needsVP8X THEN assembleExtended ELSE assembleSimple)
  OBVIOUS
<1>6. PICK icc \in Nat \cup {Nil}, exif \in Nat \cup {Nil}, xmp \in Nat \cup {Nil} :
          icc = iccData /\ exif = exifData /\ xmp = xmpData
  BY DEF MuxerOk, Metadatum
<1>7. /\ g.icc = icc /\ g.exif = exif /\ g.xmp = xmp
      /\ g.frames = IF isAnimated THEN [i \in DOMAIN frames |-> FrameGiven(frames[i])]
                        ELSE <<StillGiven(d)>>
  BY <1>2, <1>3, <1>5, <1>6 DEF MuxerGiven
<1>8. x.flags.anim = isAnimated /\ x.flags.alpha = hasAlpha
  BY <1>4 DEF AssembledFlags
<1>9. IsFlags(x.flags) /\ (icc # Nil => x.flags.icc) /\ (exif # Nil => x.flags.exif) /\ (xmp # Nil => x.flags.xmp)
  <2>1. PICK a1, a2, a3, a4, a5 :
            a1 = isAnimated /\ a2 = hasAlpha /\ a3 = (icc # Nil) /\ a4 = (exif # Nil) /\ a5 = (xmp # Nil)
    OBVIOUS
  <2>2. x.flags = [anim |-> a1, alpha |-> a2, icc |-> a3, exif |-> a4, xmp |-> a5]
    BY <1>4, <1>6, <2>1 DEF AssembledFlags
  <2>3. IsFlags(x.flags) /\ x.flags.icc = a3 /\ x.flags.exif = a4 /\ x.flags.xmp = a5
    BY <2>2 DEF IsFlags
  <2>4. QED
    BY <2>1, <2>3
<1>10. CASE isAnimated
  <2>1. needsVP8X
    BY <1>10 DEF needsVP8X
  <2>2. f = Written(ExtFile(x, icc, AnimPieces(bgColor, loopCount, frames, n), exif, xmp))
    BY <1>1, <1>4, <1>5, <1>6, <1>10, <2>1, AnimatedShape
  <2>3. PICK fr, bg, loop : fr = frames /\ bg = bgColor /\ loop = loopCount
    OBVIOUS
  <2>4. /\ n <= MaxFrames /\ \A l \in 1 .. n : FrameOk(fr[l])
        /\ f = Written(ExtFile(x, icc, AnimPieces(bg, loop, fr, n), exif, xmp))
        /\ g.frames = FramesGiven(fr, n) /\ g.icc = icc /\ g.exif = exif /\ g.xmp = xmp
    BY <1>1, <1>7, <1>10, <2>2, <2>3 DEF MuxerOk, FramesGiven
  <2>5. HonestOf(f, bytes, g, Demux(f, bytes), 1)
    BY <2>4, DemuxCutAnim
  <2>6. HonestOf(f, bytes, g, Parse(f, bytes), 0)
    BY <1>9, <2>4, ParseCutAnim
  <2>7. Cuts(f) \subseteq Nat
    <3>1. \A l \in 1 .. n : ImageOk(fr[l].data)
      BY <2>4 DEF FrameOk
    <3>2. PICK b, ms : b = AnimPieces(bg, loop, fr, n) /\ Chunked(b, ms)
      BY <3>1, AnimChunked
    <3>3. QED
      BY <2>4, <3>2, CutsOfExt
  <2>8. QED
    BY <2>5, <2>6, <2>7
<1>11. CASE ~isAnimated
  <2>1. d.alph = Nil /\ canvasSize = <<d.w, d.h>>
    <3>1. frames # <<>>
      BY DEF validate
    <3>2. QED
      BY <1>2, <1>11, <3>1 DEF Carried
  <2>2. ImageOk(d) /\ g.frames = <<StillGiven(d)>> /\ g.icc = icc /\ g.exif = exif /\ g.xmp = xmp
    BY <1>2, <1>7, <1>11
  <2>3. CASE needsVP8X
    <3>1. f = Written(ExtFile(x, icc, SubPieces(d), exif, xmp))
      BY <1>2, <1>4, <1>5, <1>6, <1>11, <2>1, <2>3, StillShape
    <3>2. ~x.flags.anim /\ x.w + 1 = d.w /\ x.h + 1 = d.h
      BY <1>3, <1>4, <1>8, <1>11, <2>1
    <3>3. x.flags.alpha = HasAlphaOf(d)
      <4>1. n = 1
        BY <1>1, <1>11 DEF isAnimated
      <4>2. DOMAIN frames = {1}
        BY <1>1, <4>1
      <4>3. hasAlpha = (d.alph # Nil \/ (IsVP8L(d) /\ d.alpha))
        BY <1>2, <4>2 DEF hasAlpha
      <4>4. QED
        BY <1>8, <4>3 DEF HasAlphaOf
    <3>4. HonestOf(f, bytes, g, Demux(f, bytes), 1)
      BY <2>2, <3>1, <3>2, DemuxCutStill
    <3>5. HonestOf(f, bytes, g, Parse(f, bytes), 0)
      BY <1>9, <2>2, <3>1, <3>2, <3>3, ParseCutStill
    <3>6. Cuts(f) \subseteq Nat
      <4>1. PICK b, ms : b = SubPieces(d) /\ Chunked(b, ms)
        BY <2>2, ImageChunks
      <4>2. f = Written(ExtFile(x, icc, b, exif, xmp))
        BY <3>1, <4>1
      <4>3. QED
        BY <4>1, <4>2, CutsOfExt
    <3>7. QED
      BY <3>4, <3>5, <3>6
  <2>4. CASE ~needsVP8X
    <3>1. f = Written(SimpleFile(d))
      BY <1>2, <1>5, <2>1, <2>4, SimpleShape
    <3>2. HonestOf(f, bytes, g, Demux(f, bytes), 1)
      BY <2>1, <2>2, <3>1, DemuxCutSimple
    <3>3. HonestOf(f, bytes, g, Parse(f, bytes), 0)
      BY <2>1, <2>2, <3>1, ParseCutSimple
    <3>4. Cuts(f) \subseteq Nat
      BY <2>2, <3>1, CutsOfSimple
    <3>5. QED
      BY <3>2, <3>3, <3>4
  <2>5. QED
    BY <2>3, <2>4
<1>12. QED
  BY <1>10, <1>11

\* So does a file of the encoder.
LEMMA EncoderCuts ==
    ASSUME NEW d, ImageOk(d), NEW icc \in Nat \cup {Nil}, NEW exif \in Nat \cup {Nil}, NEW xmp \in Nat \cup {Nil},
           NEW f, f = Written(writeRIFF(d, icc, exif, xmp)),
           NEW g, g = EncoderGiven(d, icc, exif, xmp)
    PROVE  CutRight(f, g)
<1> SUFFICES ASSUME NEW bytes \in Nat
             PROVE  /\ Cuts(f) \subseteq Nat
                    /\ HonestOf(f, bytes, g, Demux(f, bytes), 1) /\ HonestOf(f, bytes, g, Parse(f, bytes), 0)
  BY DEF CutRight
<1>1. PICK i \in Nat \cup {Nil}, e \in Nat \cup {Nil}, y \in Nat \cup {Nil} :
          i = Present(icc) /\ e = Present(exif) /\ y = Present(xmp)
  BY PresentOk
<1>2. g.frames = <<StillGiven(d)>> /\ g.icc = i /\ g.exif = e /\ g.xmp = y
  BY <1>1 DEF EncoderGiven
<1>3. CASE IsExtended(d, icc, exif, xmp)
  <2>1. PICK x, flags : flags = EncodedFlags(d, icc, exif, xmp) /\ x = Extended(flags, d.w, d.h)
    OBVIOUS
  <2>2. f = Written(ExtFile(x, i, SubPieces(d), e, y))
    BY <1>1, <1>3, <2>1, EncodedExtended DEF EncodedX
  <2>3. PICK cw \in 1 .. MaxCanvasSize, ch \in 1 .. MaxCanvasSize : cw = d.w /\ ch = d.h
    BY DEF ImageOk
  <2>4. x.flags = flags /\ x.w + 1 = d.w /\ x.h + 1 = d.h
    BY <2>1, <2>3, ExtendedParts
  <2>5. (d.alph > 0 \/ (d.codec = "VP8L" /\ d.alpha)) = HasAlphaOf(d)
    <3>1. d.alph # Nil <=> d.alph > 0
      BY ImageParts DEF Nil
    <3>2. QED
      BY <3>1 DEF IsVP8L, HasAlphaOf
  <2>6. /\ ~x.flags.anim /\ x.flags.alpha = HasAlphaOf(d) /\ IsFlags(x.flags)
        /\ (i # Nil => x.flags.icc) /\ (e # Nil => x.flags.exif) /\ (y # Nil => x.flags.xmp)
    <3>1. (i # Nil => icc > 0) /\ (e # Nil => exif > 0) /\ (y # Nil => xmp > 0)
      BY <1>1, PresentOk
    <3>2. PICK a1, a2, a3, a4, a5 :
              /\ a1 = FALSE /\ a3 = (icc > 0) /\ a4 = (exif > 0) /\ a5 = (xmp > 0)
              /\ a2 = (d.alph > 0 \/ (d.codec = "VP8L" /\ d.alpha))
      OBVIOUS
    <3>3. x.flags = [anim |-> a1, alpha |-> a2, icc |-> a3, exif |-> a4, xmp |-> a5]
      BY <2>1, <2>4, <3>2 DEF EncodedFlags
    <3>4. /\ IsFlags(x.flags) /\ x.flags.anim = a1 /\ x.flags.alpha = a2
          /\ x.flags.icc = a3 /\ x.flags.exif = a4 /\ x.flags.xmp = a5
      BY <3>3 DEF IsFlags
    <3>5. QED
      BY <2>5, <3>1, <3>2, <3>4
  <2>7. HonestOf(f, bytes, g, Demux(f, bytes), 1)
    BY <1>2, <2>2, <2>4, <2>6, DemuxCutStill
  <2>8. HonestOf(f, bytes, g, Parse(f, bytes), 0)
    BY <1>2, <2>2, <2>6, ParseCutStill
  <2>9. Cuts(f) \subseteq Nat
    <3>1. PICK b, ms : b = SubPieces(d) /\ Chunked(b, ms)
      BY ImageChunks
    <3>2. f = Written(ExtFile(x, i, b, e, y))
      BY <2>2, <3>1
    <3>3. QED
      BY <3>1, <3>2, CutsOfExt
  <2>10. QED
    BY <2>7, <2>8, <2>9
<1>4. CASE ~IsExtended(d, icc, exif, xmp)
  <2>1. d.alph = Nil /\ f = Written(SimpleFile(d))
    BY <1>1, <1>4, EncodedSimple
  <2>2. HonestOf(f, bytes, g, Demux(f, bytes), 1)
    BY <1>2, <2>1, DemuxCutSimple
  <2>3. HonestOf(f, bytes, g, Parse(f, bytes), 0)
    BY <1>2, <2>1, ParseCutSimple
  <2>4. Cuts(f) \subseteq Nat
    BY <2>1, CutsOfSimple
  <2>5. QED
    BY <2>2, <2>3, <2>4
<1>5. QED
  BY <1>3, <1>4

(***************************************************************************)
(* The invariant                                                            *)
(***************************************************************************)

\* A frame has its four kinds of fields and no other.
IsRecord(r) ==
    r = [data |-> r.data, x |-> r.x, y |-> r.y, duration |-> r.duration,
         dispose |-> r.dispose, blend |-> r.blend]

\* The state of the muxer, and that every file says what its writer was given,
\* whole or cut off.
Said ==
    file # <<>> /\ Carried =>
        /\ ReadRight(file, Bytes(file), given)
        /\ CutRight(file, given)
        /\ have \in Cuts(file)

Inv == MuxerOk /\ (\A j \in 1 .. Len(frames) : IsRecord(frames[j])) /\ Said

LEMMA ClampOk ==
    ASSUME NEW v \in Int, NEW max \in Nat
    PROVE  Clamp(v, max) \in 0 .. max
BY DEF Clamp

LEMMA MaxLoop == maxLoopCount \in Nat /\ maxDuration \in Nat /\ MaxCanvasSize \in Nat
BY DEF maxLoopCount, maxDuration, MaxCanvasSize

\* The invariant holds at first, and each call of the API keeps it.
LEMMA InvInit == Init => Inv
<1> SUFFICES ASSUME Init PROVE Inv
  OBVIOUS
<1>1. IsList(frames) /\ Len(frames) = 0
  BY EmptyList DEF Init
<1>2. Metadatum(iccData) /\ Metadatum(exifData) /\ Metadatum(xmpData)
  BY DEF Init, Metadatum
<1>3. loopCount \in 0 .. maxLoopCount
  BY MaxLoop DEF Init
<1>4. Pair(canvas) /\ \A i \in 1 .. 2 : canvas[i] \in Int /\ canvas[i] <= MaxCanvasSize
  <2>1. canvas = <<0, 0>>
    BY DEF Init
  <2>2. canvas[1] = 0 /\ canvas[2] = 0
    BY <2>1
  <2>3. QED
    BY <2>1, <2>2, MaxLoop DEF Pair
<1>5. Len(frames) <= MaxFrames /\ 1 .. Len(frames) = {}
  BY <1>1, MaxFramesAssumption
<1>6. Said
  BY DEF Init, Said
<1>7. QED
  BY <1>1, <1>2, <1>3, <1>4, <1>5, <1>6 DEF Inv, MuxerOk

\* The frame AddFrame appends is ok.
LEMMA NewFrame ==
    ASSUME NEW d \in Images, NEW o \in Options, NEW r,
           r = [data |-> d, x |-> o.x, y |-> o.y, duration |-> clampDuration(o.duration),
                dispose |-> o.dispose, blend |-> o.blend]
    PROVE  FrameOk(r) /\ IsRecord(r)
<1>1. ImageOk(d)
  BY MuxerAssumption, PlacesAssumption DEF ImageOk
<1>2. o.x \in Nat /\ o.y \in Nat /\ o.duration \in Int
  BY MuxerAssumption
<1>3. o.x + d.w <= MaxCanvasSize /\ o.y + d.h <= MaxCanvasSize
  BY PlacesAssumption
<1>4. clampDuration(o.duration) \in 0 .. maxDuration
  BY <1>2, MaxLoop, ClampOk DEF clampDuration
<1>5. r.data = d /\ r.x = o.x /\ r.y = o.y /\ r.duration = clampDuration(o.duration) /\ IsRecord(r)
  BY DEF IsRecord
<1>6. QED
  BY <1>1, <1>2, <1>3, <1>4, <1>5 DEF FrameOk

LEMMA FrameAppended ==
    ASSUME NEW s, IsList(s), NEW r
    PROVE  LET t == Append(s, r)
           IN  /\ IsList(t) /\ Len(t) = Len(s) + 1 /\ Len(s) \in Nat
               /\ \A j \in 1 .. Len(s) : t[j] = s[j]
               /\ t[Len(s) + 1] = r
<1>1. PICK S : s \in Seq(S)
  BY DEF IsList
<1>2. s \in Seq(S \cup {r}) /\ r \in S \cup {r}
  BY <1>1
<1>3. Append(s, r) \in Seq(S \cup {r})
  BY <1>2
<1>4. IsList(Append(s, r))
  BY <1>3 DEF IsList
<1>5. QED
  BY <1>1, <1>2, <1>4

\* A frame replaced by another.
Changed(s, i, r) == [s EXCEPT ![i] = r]

LEMMA FrameChanged ==
    ASSUME NEW s, IsList(s), NEW i \in DOMAIN s, NEW r, NEW t, t = Changed(s, i, r)
    PROVE  /\ IsList(t) /\ Len(t) = Len(s)
           /\ t[i] = r /\ \A j \in 1 .. Len(s) : j # i => t[j] = s[j]
<1>1. PICK S : s \in Seq(S)
  BY DEF IsList
<1>2. s \in Seq(S \cup {r}) /\ r \in S \cup {r}
  BY <1>1
<1>3. [s EXCEPT ![i] = r] \in Seq(S \cup {r})
  BY <1>2
<1>4. IsList(t)
  BY <1>3 DEF IsList, Changed
<1>5. QED
  BY <1>1, <1>2, <1>4 DEF Changed

FramesOk == MuxerOk /\ \A j \in 1 .. Len(frames) : IsRecord(frames[j])

\* A call that keeps the Muxer ok and drops the file keeps the invariant.
LEMMA CallInv ==
    ASSUME Inv, Call, FramesOk'
    PROVE  Inv'
<1>1. file' = <<>>
  BY DEF Call
<1>2. Said'
  BY <1>1 DEF Said
<1>3. QED
  BY <1>2 DEF Inv, FramesOk

LEMMA InvMetadata ==
    ASSUME Inv, Call, Metadatum(iccData'), Metadatum(exifData'), Metadatum(xmpData'),
           UNCHANGED <<frames, bgColor, loopCount, canvas>>
    PROVE  Inv'
<1>1. FramesOk'
  BY DEF Inv, FramesOk, MuxerOk
<1>2. QED
  BY <1>1, CallInv

LEMMA InvFrames ==
    ASSUME Inv, Call, UNCHANGED <<iccData, exifData, xmpData, bgColor, loopCount, canvas>>,
           IsList(frames'), Len(frames') <= MaxFrames,
           \A j \in 1 .. Len(frames') : FrameOk(frames'[j]) /\ IsRecord(frames'[j])
    PROVE  Inv'
<1>1. FramesOk'
  BY DEF Inv, FramesOk, MuxerOk
<1>2. QED
  BY <1>1, CallInv

LEMMA InvEdited ==
    ASSUME Inv, Call, UNCHANGED <<iccData, exifData, xmpData, bgColor, loopCount, canvas>>,
           NEW i \in DOMAIN frames, NEW r, FrameOk(r), IsRecord(r), frames' = [frames EXCEPT ![i] = r]
    PROVE  Inv'
<1>1. PICK s : s = frames /\ IsList(s) /\ Len(s) <= MaxFrames /\ \A j \in 1 .. Len(s) : FrameOk(s[j]) /\ IsRecord(s[j])
  BY DEF Inv, MuxerOk
<1>2. PICK t : t = frames' /\ t = [s EXCEPT ![i] = r]
  BY <1>1
<1>3. IsList(t) /\ Len(t) = Len(s) /\ t[i] = r /\ \A j \in 1 .. Len(s) : j # i => t[j] = s[j]
  <2>1. i \in DOMAIN s
    BY <1>1
  <2>2. t = Changed(s, i, r)
    BY <1>2 DEF Changed
  <2>3. QED
    BY <1>1, <2>1, <2>2, FrameChanged
<1>4. \A j \in 1 .. Len(t) : FrameOk(t[j]) /\ IsRecord(t[j])
  <2> TAKE j \in 1 .. Len(t)
  <2>1. CASE j = i
    BY <1>3, <2>1
  <2>2. CASE j # i
    BY <1>1, <1>3, <2>2
  <2>3. QED
    BY <2>1, <2>2
<1>5. QED
  BY <1>1, <1>2, <1>3, <1>4, InvFrames

LEMMA InvAddFrame == ASSUME Inv, AddFrame PROVE Inv'
<1>1. Call /\ UNCHANGED <<iccData, exifData, xmpData, bgColor, loopCount, canvas>>
  BY DEF AddFrame
<1>2. PICK d \in Images, o \in Options :
          frames' = IF Len(frames) >= MaxFrames THEN frames
                    ELSE Append(frames, [data |-> d, x |-> o.x, y |-> o.y,
                                         duration |-> clampDuration(o.duration),
                                         dispose |-> o.dispose, blend |-> o.blend])
  BY DEF AddFrame
<1>3. PICK s : s = frames /\ IsList(s) /\ Len(s) <= MaxFrames /\ \A j \in 1 .. Len(s) : FrameOk(s[j]) /\ IsRecord(s[j])
  BY DEF Inv, MuxerOk
<1>4. PICK r : r = [data |-> d, x |-> o.x, y |-> o.y, duration |-> clampDuration(o.duration),
                    dispose |-> o.dispose, blend |-> o.blend]
  OBVIOUS
<1>5. FrameOk(r) /\ IsRecord(r)
  BY <1>4, NewFrame
<1>6. CASE Len(s) >= MaxFrames
  <2>1. frames' = s
    BY <1>2, <1>3, <1>6
  <2>2. QED
    BY <1>1, <1>3, <2>1, InvFrames
<1>7. CASE ~(Len(s) >= MaxFrames)
  <2>1. PICK t : t = frames' /\ t = Append(s, r)
    BY <1>2, <1>3, <1>4, <1>7
  <2>2. /\ IsList(t) /\ Len(t) = Len(s) + 1 /\ Len(s) \in Nat
        /\ \A j \in 1 .. Len(s) : t[j] = s[j]
        /\ t[Len(s) + 1] = r
    BY <1>3, <2>1, FrameAppended
  <2>3. Len(t) <= MaxFrames
    BY <1>7, <2>2, MaxFramesAssumption
  <2>4. \A j \in 1 .. Len(t) : FrameOk(t[j]) /\ IsRecord(t[j])
    <3> TAKE j \in 1 .. Len(t)
    <3>1. j \in 1 .. Len(s) \/ j = Len(s) + 1
      BY <2>2
    <3>2. QED
      BY <1>3, <1>5, <2>2, <3>1
  <2>5. QED
    BY <1>1, <2>1, <2>2, <2>3, <2>4, InvFrames
<1>8. QED
  BY <1>6, <1>7

\* A frame whose dispose mode or duration was set is ok.
LEMMA Edited ==
    ASSUME NEW s, FrameOk(s), IsRecord(s), NEW m, NEW v \in 0 .. maxDuration
    PROVE  /\ FrameOk([s EXCEPT !.dispose = m]) /\ IsRecord([s EXCEPT !.dispose = m])
           /\ FrameOk([s EXCEPT !.duration = v]) /\ IsRecord([s EXCEPT !.duration = v])
<1>1. s = [data |-> s.data, x |-> s.x, y |-> s.y, duration |-> s.duration,
           dispose |-> s.dispose, blend |-> s.blend]
  BY DEF IsRecord
<1>2. PICK a : a = [s EXCEPT !.dispose = m]
  OBVIOUS
<1>3. a = [data |-> s.data, x |-> s.x, y |-> s.y, duration |-> s.duration,
           dispose |-> m, blend |-> s.blend]
  BY <1>1, <1>2
<1>4. a.data = s.data /\ a.x = s.x /\ a.y = s.y /\ a.duration = s.duration /\ IsRecord(a)
  BY <1>3 DEF IsRecord
<1>5. PICK b : b = [s EXCEPT !.duration = v]
  OBVIOUS
<1>6. b = [data |-> s.data, x |-> s.x, y |-> s.y, duration |-> v,
           dispose |-> s.dispose, blend |-> s.blend]
  BY <1>1, <1>5
<1>7. b.data = s.data /\ b.x = s.x /\ b.y = s.y /\ b.duration = v /\ IsRecord(b)
  BY <1>6 DEF IsRecord
<1>8. FrameOk(a) /\ FrameOk(b)
  BY <1>4, <1>7 DEF FrameOk
<1>9. QED
  BY <1>2, <1>4, <1>5, <1>7, <1>8

LEMMA InvSetFrameDisposeMode == ASSUME Inv, SetFrameDisposeMode PROVE Inv'
<1>1. Call /\ UNCHANGED <<iccData, exifData, xmpData, bgColor, loopCount, canvas>>
  BY DEF SetFrameDisposeMode
<1>2. PICK i \in DOMAIN frames, mode \in BOOLEAN : frames' = [frames EXCEPT ![i].dispose = mode]
  BY DEF SetFrameDisposeMode
<1>3. PICK r : r = [frames[i] EXCEPT !.dispose = mode]
  OBVIOUS
<1>4. FrameOk(frames[i]) /\ IsRecord(frames[i])
  BY ListParts DEF Inv, MuxerOk
<1>5. FrameOk(r) /\ IsRecord(r)
  <2>1. 0 \in 0 .. maxDuration
    BY MaxLoop
  <2>2. QED
    BY <1>3, <1>4, <2>1, Edited
<1>6. frames' = [frames EXCEPT ![i] = r]
  BY <1>2, <1>3
<1>7. QED
  BY <1>1, <1>5, <1>6, InvEdited

LEMMA InvSetFrameDuration == ASSUME Inv, SetFrameDuration PROVE Inv'
<1>1. Call /\ UNCHANGED <<iccData, exifData, xmpData, bgColor, loopCount, canvas>>
  BY DEF SetFrameDuration
<1>2. PICK i \in DOMAIN frames, d \in Durations : frames' = [frames EXCEPT ![i].duration = clampDuration(d)]
  BY DEF SetFrameDuration
<1>3. PICK v \in 0 .. maxDuration : v = clampDuration(d)
  BY MuxerAssumption, MaxLoop, ClampOk DEF clampDuration
<1>4. PICK r : r = [frames[i] EXCEPT !.duration = v]
  OBVIOUS
<1>5. FrameOk(frames[i]) /\ IsRecord(frames[i])
  BY ListParts DEF Inv, MuxerOk
<1>6. FrameOk(r) /\ IsRecord(r)
  BY <1>4, <1>5, Edited
<1>7. frames' = [frames EXCEPT ![i] = r]
  BY <1>2, <1>3, <1>4
<1>8. QED
  BY <1>1, <1>6, <1>7, InvEdited

LEMMA InvSetCanvasSize == ASSUME Inv, SetCanvasSize PROVE Inv'
<1>1. Call /\ UNCHANGED <<frames, iccData, exifData, xmpData, bgColor, loopCount>>
  BY DEF SetCanvasSize
<1>2. PICK s \in CanvasSizes :
          canvas' = <<IF s[1] > MaxCanvasSize THEN MaxCanvasSize ELSE s[1],
                      IF s[2] > MaxCanvasSize THEN MaxCanvasSize ELSE s[2]>>
  BY DEF SetCanvasSize
<1>3. s[1] \in Int /\ s[2] \in Int /\ MaxCanvasSize \in Nat
  BY MuxerAssumption, MaxLoop
<1>4. PICK a, b : /\ a = IF s[1] > MaxCanvasSize THEN MaxCanvasSize ELSE s[1]
                  /\ b = IF s[2] > MaxCanvasSize THEN MaxCanvasSize ELSE s[2]
  OBVIOUS
<1>5. a \in Int /\ a <= MaxCanvasSize /\ b \in Int /\ b <= MaxCanvasSize
  BY <1>3, <1>4
<1>6. canvas' = <<a, b>>
  BY <1>2, <1>4
<1>7. Pair(canvas') /\ \A i \in 1 .. 2 : canvas'[i] \in Int /\ canvas'[i] <= MaxCanvasSize
  BY <1>5, <1>6 DEF Pair
<1>8. FramesOk'
  BY <1>1, <1>7 DEF Inv, FramesOk, MuxerOk
<1>9. QED
  BY <1>1, <1>8, CallInv

LEMMA InvSetLoopCount == ASSUME Inv, SetLoopCount PROVE Inv'
<1>1. Call /\ UNCHANGED <<frames, iccData, exifData, xmpData, bgColor, canvas>>
  BY DEF SetLoopCount
<1>2. loopCount' \in 0 .. maxLoopCount
  BY MuxerAssumption, MaxLoop, ClampOk DEF SetLoopCount
<1>3. FramesOk'
  BY <1>1, <1>2 DEF Inv, FramesOk, MuxerOk
<1>4. QED
  BY <1>1, <1>3, CallInv

LEMMA InvAssemble == ASSUME Inv, Assemble PROVE Inv'
<1>1. /\ validate /\ file' = Written(IF needsVP8X THEN assembleExtended ELSE assembleSimple)
      /\ given' = MuxerGiven /\ have' \in Cuts(file') /\ UNCHANGED muxer
  BY DEF Assemble
<1>2. MuxerOk' /\ \A j \in 1 .. Len(frames') : IsRecord(frames'[j])
  BY <1>1 DEF Inv, MuxerOk, muxer
<1>3. Carried' <=> Carried
  BY <1>1 DEF muxer, Carried, isAnimated, canvasSize
<1>4. Carried => ReadRight(file', Bytes(file'), given') /\ CutRight(file', given')
  <2> SUFFICES ASSUME Carried PROVE ReadRight(file', Bytes(file'), given') /\ CutRight(file', given')
    OBVIOUS
  <2>1. PICK f, bytes, g : f = file' /\ bytes = Bytes(f) /\ g = given'
    OBVIOUS
  <2>2. /\ f = Written(IF needsVP8X THEN assembleExtended ELSE assembleSimple)
        /\ g = MuxerGiven /\ MuxerOk
    BY <1>1, <2>1 DEF Inv
  <2>3. ReadRight(f, bytes, g)
    BY <1>1, <2>1, <2>2, MuxerReads
  <2>4. CutRight(f, g)
    BY <1>1, <2>2, MuxerCuts
  <2>5. QED
    BY <2>1, <2>3, <2>4
<1>5. Said'
  BY <1>1, <1>3, <1>4 DEF Said
<1>6. QED
  BY <1>2, <1>5 DEF Inv

LEMMA InvEncodeStill == ASSUME Inv, EncodeStill PROVE Inv'
<1>1. UNCHANGED muxer /\ have' \in Cuts(file')
  BY DEF EncodeStill
<1>2. PICK d \in Images, icc \in Metadata, exif \in Metadata, xmp \in Metadata :
          /\ file' = Written(writeRIFF(d, icc, exif, xmp))
          /\ given' = EncoderGiven(d, icc, exif, xmp)
  BY DEF EncodeStill, EncoderGiven, Present
<1>3. ImageOk(d)
  BY MuxerAssumption, PlacesAssumption DEF ImageOk
<1>4. icc \in Nat \cup {Nil} /\ exif \in Nat \cup {Nil} /\ xmp \in Nat \cup {Nil}
  BY MuxerAssumption
<1>5. MuxerOk' /\ \A j \in 1 .. Len(frames') : IsRecord(frames'[j])
  BY <1>1 DEF Inv, MuxerOk, muxer
<1>6. ReadRight(file', Bytes(file'), given') /\ CutRight(file', given')
  <2>1. PICK f, bytes, g : f = file' /\ bytes = Bytes(f) /\ g = given'
    OBVIOUS
  <2>2. f = Written(writeRIFF(d, icc, exif, xmp)) /\ g = EncoderGiven(d, icc, exif, xmp)
    BY <1>2, <2>1
  <2>3. ReadRight(f, bytes, g)
    BY <1>3, <1>4, <2>1, <2>2, EncoderReads
  <2>4. CutRight(f, g)
    BY <1>3, <1>4, <2>2, EncoderCuts
  <2>5. QED
    BY <2>1, <2>3, <2>4
<1>7. Said'
  BY <1>1, <1>6 DEF Said
<1>8. QED
  BY <1>5, <1>7 DEF Inv

LEMMA InvUnchanged == ASSUME Inv, UNCHANGED vars PROVE Inv'
<1>1. UNCHANGED muxer /\ file' = file /\ given' = given /\ have' = have
  BY DEF vars, muxer
<1>2. MuxerOk' /\ \A j \in 1 .. Len(frames') : IsRecord(frames'[j])
  BY <1>1 DEF Inv, MuxerOk, muxer
<1>3. Carried' <=> Carried
  BY <1>1 DEF muxer, Carried, isAnimated, canvasSize
<1>4. Said'
  BY <1>1, <1>3 DEF Inv, Said
<1>5. QED
  BY <1>2, <1>4 DEF Inv

LEMMA InvDiscard == ASSUME Inv, Discard PROVE Inv'
<1>1. UNCHANGED muxer /\ file' = <<>>
  BY DEF Discard
<1>2. MuxerOk' /\ \A j \in 1 .. Len(frames') : IsRecord(frames'[j])
  BY <1>1 DEF Inv, MuxerOk, muxer
<1>3. Said'
  BY <1>1 DEF Said
<1>4. QED
  BY <1>2, <1>3 DEF Inv

LEMMA InvNext == Inv /\ [Next]_vars => Inv'
<1> SUFFICES ASSUME Inv, [Next]_vars PROVE Inv'
  OBVIOUS
<1>1. Metadatum(iccData) /\ Metadatum(exifData) /\ Metadatum(xmpData)
  BY DEF Inv, MuxerOk
<1>2. \A n \in Metadata : Metadatum(n)
  BY MuxerAssumption DEF Metadatum
<1>3. CASE SetICCProfile
  BY <1>1, <1>2, <1>3, InvMetadata DEF SetICCProfile
<1>4. CASE SetEXIF
  BY <1>1, <1>2, <1>4, InvMetadata DEF SetEXIF
<1>5. CASE SetXMP
  BY <1>1, <1>2, <1>5, InvMetadata DEF SetXMP
<1>6. CASE SetBackgroundColor
  <2>1. Call /\ UNCHANGED <<frames, iccData, exifData, xmpData, loopCount, canvas>>
    BY <1>6 DEF SetBackgroundColor
  <2>2. FramesOk'
    BY <2>1 DEF Inv, FramesOk, MuxerOk
  <2>3. QED
    BY <2>1, <2>2, CallInv
<1>7. CASE SetLoopCount
  BY <1>7, InvSetLoopCount
<1>8. CASE SetCanvasSize
  BY <1>8, InvSetCanvasSize
<1>9. CASE AddFrame
  BY <1>9, InvAddFrame
<1>10. CASE SetFrameDisposeMode
  BY <1>10, InvSetFrameDisposeMode
<1>11. CASE SetFrameDuration
  BY <1>11, InvSetFrameDuration
<1>12. CASE Assemble
  BY <1>12, InvAssemble
<1>13. CASE AssembleRefused
  BY <1>13, InvUnchanged DEF AssembleRefused
<1>14. CASE EncodeStill
  BY <1>14, InvEncodeStill
<1>15. CASE Discard
  BY <1>15, InvDiscard
<1>16. CASE UNCHANGED vars
  BY <1>16, InvUnchanged
<1>17. QED
  BY <1>3, <1>4, <1>5, <1>6, <1>7, <1>8, <1>9, <1>10, <1>11, <1>12, <1>13, <1>14, <1>15, <1>16 DEF Next

\* A file that is whole says to the demuxer what the Muxer or the encoder was
\* given: its canvas, its metadata, its loop count and background, each frame
\* with its place, duration, dispose and blend modes, plane and data.  It is
\* about what Assemble and writeRIFF write and NewDemuxer reads.
THEOREM ReadsBackAlways == Spec => []ReadsBack
<1>1. Inv => ReadsBack
  <2> SUFFICES ASSUME Inv, Whole, Carried PROVE Says(Demux(file, have))
    BY DEF ReadsBack
  <2>1. file # <<>> /\ have = Bytes(file)
    BY DEF Whole
  <2>2. SaysOf(Demux(file, have), given)
    BY <2>1 DEF Inv, Said, ReadRight
  <2>3. QED
    BY <2>2 DEF Says, SaysOf
<1>2. QED
  BY <1>1, InvInit, InvNext, PTL DEF Spec

\* The demuxer of the mux package and the parser of the container package,
\* written apart from each other, find the same in a whole file, when its canvas
\* is within the limit that only the parser has and no lossless frame has a
\* plane chunk, which only the parser refuses.
THEOREM ReadersAgreeAlways == Spec => []ReadersAgree
<1>1. Inv => ReadersAgree
  <2> SUFFICES ASSUME Inv, Whole, Carried, Parsable PROVE Agree(Demux(file, have), Parse(file, have))
    BY DEF ReadersAgree
  <2>1. file # <<>> /\ have = Bytes(file)
    BY DEF Whole
  <2>2. ReadRight(file, have, given)
    BY <2>1 DEF Inv, Said
  <2>3. ParsableOf(given)
    BY DEF Parsable, ParsableOf
  <2>4. QED
    BY <2>2, <2>3 DEF ReadRight
<1>2. QED
  BY <1>1, InvInit, InvNext, PTL DEF Spec

\* Of a file that is cut off anywhere each reader returns an error, or the first
\* frames as they were given, no more than have arrived with their last byte, and
\* of the metadata only what has arrived; the demuxer never returns without a
\* frame.  It is about NewDemuxer and NewParser on the beginning of what
\* Assemble and writeRIFF write.
THEOREM CutIsPrefixAlways == Spec => []CutIsPrefix
<1>1. Inv => CutIsPrefix
  <2> SUFFICES ASSUME Inv, file # <<>>, Carried
               PROVE  Honest(Demux(file, have), 1) /\ Honest(Parse(file, have), 0)
    BY DEF CutIsPrefix
  <2>1. CutRight(file, given) /\ have \in Nat
    BY DEF Inv, Said, CutRight
  <2>2. /\ HonestOf(file, have, given, Demux(file, have), 1)
        /\ HonestOf(file, have, given, Parse(file, have), 0)
    BY <2>1 DEF CutRight
  <2>3. \A names : Arrived(names) = ArrivedIn(file, have, names)
    BY DEF Arrived, ArrivedIn
  <2>4. QED
    BY <2>2, <2>3 DEF Honest, HonestOf, Kept
<1>2. QED
  BY <1>1, InvInit, InvNext, PTL DEF Spec
================================================================================
