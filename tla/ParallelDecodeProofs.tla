-------------------------- MODULE ParallelDecodeProofs --------------------------
(* Theorems about ParallelDecode, for every number of frames and every finite  *)
(* set of goroutines.                                                          *)
EXTENDS ParallelDecode, FiniteSetTheorems, TLAPS

\* The workers are the goroutines that were started, and those start when the
\* caller begins to collect.
Started == \A w \in Procs : pc[w] # "idle" <=> w \in workers
Before ==
    caller \in {"start", "sequential"} => workers = {} /\ resultsOpen
Fresh ==
    caller = "start" =>
        results = << >> /\ next = 1 /\ \A f \in Frames : decodes[f] = 0
Closed == ~resultsOpen => \A w \in workers : pc[w] = "done"

\* Every frame taken from work is with a worker, in results, or collected.
Count == Cardinality(Carriers) + Len(results) <= next - 1

\* Indices are handed out once: the frames being decoded come from different
\* positions of work, and nobody has decoded them before.
Injective == \A i, j \in DOMAIN toDecode : toDecode[i] = toDecode[j] => i = j
Handed ==
    /\ \A w \in Procs : pc[w] \in {"decode", "send"} =>
          \E i \in 1 .. next - 1 : i \in DOMAIN toDecode /\ held[w] = toDecode[i]
    /\ \A v, w \in Procs : pc[v] = "decode" /\ pc[w] = "decode" /\ held[v] = held[w] => v = w
Undecoded ==
    /\ \A f \in Frames : decodes[f] <= 1
    /\ caller = "sequential" => \A f \in Frames : f >= seq => decodes[f] = 0
    /\ \A w \in Procs : pc[w] = "decode" => decodes[held[w]] = 0
    /\ \A i \in DOMAIN toDecode : i >= next /\ workers # {} => decodes[toDecode[i]] = 0

IInv ==
    /\ TypeOK /\ Started /\ Before /\ Fresh /\ Closed /\ Count
    /\ Injective /\ Handed /\ Undecoded

(***************************************************************************)
(* Counting the carriers                                                    *)
(***************************************************************************)

LEMMA CarriersFinite ==
    ASSUME NEW S, S \subseteq Procs
    PROVE  IsFiniteSet(S) /\ Cardinality(S) \in Nat
BY ParallelDecodeAssumption, FS_Subset, FS_CardinalityType

LEMMA OneMore ==
    ASSUME NEW S, S \subseteq Procs, NEW w \in Procs, w \notin S
    PROVE  Cardinality(S \cup {w}) = Cardinality(S) + 1
BY CarriersFinite, FS_AddElement

LEMMA OneLess ==
    ASSUME NEW S, S \subseteq Procs, NEW w \in S
    PROVE  Cardinality(S \ {w}) = Cardinality(S) - 1
BY CarriersFinite, FS_RemoveElement

LEMMA SomeCarrier ==
    ASSUME NEW S, S \subseteq Procs, NEW w \in S
    PROVE  Cardinality(S) >= 1
<1>1. Cardinality(S \ {w}) = Cardinality(S) - 1 /\ Cardinality(S \ {w}) \in Nat
    BY OneLess, CarriersFinite
<1>2. QED
    BY <1>1, CarriersFinite

\* What Count says, with the ranges that arithmetic needs.
LEMMA CountParts ==
    ASSUME IInv
    PROVE  /\ Carriers \subseteq Procs /\ Cardinality(Carriers) \in Nat
           /\ Len(results) \in Nat /\ next \in Nat
           /\ Cardinality(Carriers) + Len(results) <= next - 1
<1>1. Carriers \subseteq Procs
    BY DEF Carriers
<1>2. Cardinality(Carriers) \in Nat
    BY <1>1, CarriersFinite
<1>3. Len(results) \in Nat /\ Len(toDecode) \in Nat /\ next \in 1 .. Len(toDecode) + 1
    BY DEF IInv, TypeOK
<1>4. QED
    BY <1>1, <1>2, <1>3 DEF IInv, Count

(***************************************************************************)
(* The invariant                                                            *)
(***************************************************************************)

LEMMA InitInv == Init => IInv
<1> SUFFICES ASSUME Init PROVE IInv
    OBVIOUS
<1>1. TypeOK
    BY ParallelDecodeAssumption DEF Init, TypeOK, Frames, NoFrame
<1>2. Carriers = {}
    BY DEF Init, Carriers
<1>3. Count
    BY <1>2, FS_EmptySet DEF Init, Count
<1>4. Started /\ Before /\ Fresh /\ Closed /\ Injective /\ Handed /\ Undecoded
    BY DEF Init, Started, Before, Fresh, Closed, Injective, Handed, Undecoded, Frames
<1>5. QED
    BY <1>1, <1>3, <1>4 DEF IInv

LEMMA StartInv == IInv /\ Start => IInv'
<1> SUFFICES ASSUME IInv, Start PROVE IInv'
    OBVIOUS
<1> DEFINE n == Cardinality(Pending)
<1>1. n \in Nat /\ Pending \subseteq Frames
    <2>1. IsFiniteSet(Frames)
        BY ParallelDecodeAssumption, FS_Interval DEF Frames
    <2>2. Pending \subseteq Frames
        BY DEF Pending
    <2>3. QED
        BY <2>1, <2>2, FS_Subset, FS_CardinalityType
<1>2. /\ toDecode' \in [1 .. n -> Frames]
      /\ \A i, j \in 1 .. n : i < j => toDecode'[i] < toDecode'[j]
    BY <1>1 DEF Start, Ascending
<1>3. toDecode' \in Seq(Frames) /\ Len(toDecode') = n /\ DOMAIN toDecode' = 1 .. n
    BY <1>1, <1>2
<1>4. Injective'
    <2> SUFFICES ASSUME NEW i \in 1 .. n, NEW j \in 1 .. n, toDecode'[i] = toDecode'[j]
                 PROVE  i = j
        BY <1>3 DEF Injective
    <2>1. toDecode'[i] \in Int /\ toDecode'[j] \in Int
        BY <1>2 DEF Frames
    <2>2. QED
        BY <1>1, <1>2, <2>1
<1>5. /\ workers = {} /\ resultsOpen /\ results = << >> /\ next = 1 /\ caller = "start"
      /\ \A f \in Frames : decodes[f] = 0
      /\ \A w \in Procs : pc[w] = "idle"
    BY DEF IInv, Before, Fresh, Started, Start
<1>6. /\ UNCHANGED <<inputs, images, seq, next, held, results, resultsOpen, firstErr, decodes,
                     collected>>
      /\ caller' \in {"returned", "sequential", "collect"}
    BY DEF Start
<1>7. /\ workers' \subseteq Procs /\ pc' \in [Procs -> {"idle", "receive"}]
      /\ \A w \in Procs : pc'[w] # "idle" <=> w \in workers'
      /\ caller' = "sequential" => workers' = {}
    <2>1. CASE UNCHANGED <<workers, pc>>
        BY <2>1, <1>5 DEF Start, IInv, TypeOK
    <2>2. CASE ~(UNCHANGED <<workers, pc>>)
        BY <2>2 DEF Start, SomeWorkers
    <2>3. QED
        BY <2>1, <2>2
<1>8. TypeOK'
    BY <1>1, <1>3, <1>5, <1>6, <1>7 DEF IInv, TypeOK, inputs
<1>9. Carriers' = {}
    BY <1>7 DEF Carriers
<1>10. Count'
    BY <1>5, <1>6, <1>9, FS_EmptySet DEF Count
<1>11. Started' /\ Before' /\ Fresh' /\ Closed' /\ Handed'
    BY <1>5, <1>6, <1>7 DEF Started, Before, Fresh, Closed, Handed
<1>12. Undecoded'
    BY <1>2, <1>3, <1>5, <1>6, <1>7 DEF Undecoded
<1>13. QED
    BY <1>4, <1>8, <1>10, <1>11, <1>12 DEF IInv

LEMMA SequentialInv == IInv /\ Sequential => IInv'
<1> SUFFICES ASSUME IInv, Sequential PROVE IInv'
    OBVIOUS
<1>1. workers = {} /\ resultsOpen /\ \A w \in Procs : pc[w] = "idle"
    BY DEF IInv, Before, Started, Sequential
<1>2. UNCHANGED <<inputs, toDecode, workers, next, pc, held, results, resultsOpen, collected>>
    BY DEF Sequential
<1>3. Count' /\ Injective' /\ Started' /\ Closed'
    BY <1>2 DEF IInv, Count, Injective, Started, Closed, Carriers
<1>4. /\ caller' \in {"sequential", "returned"}
      /\ seq' \in Nat /\ seq' \in 1 .. NumFrames + 1
      /\ images' \subseteq Frames /\ firstErr' \in Frames \cup {NoFrame}
      /\ decodes' \in [Frames -> Nat]
      /\ \A f \in Frames : decodes'[f] <= 1
      /\ caller' = "sequential" => \A f \in Frames : f >= seq' => decodes'[f] = 0
    <2>1. CASE PastLast(seq)
        BY <2>1, ParallelDecodeAssumption
        DEF Sequential, IInv, TypeOK, Undecoded
    <2>2. CASE ~PastLast(seq) /\ seq \notin Pending
        <3>1. /\ caller = "sequential" /\ seq' = seq + 1
              /\ UNCHANGED <<caller, images, firstErr, decodes>>
              /\ seq \in 1 .. NumFrames
            BY <2>2, ParallelDecodeAssumption DEF Sequential, IInv, TypeOK, PastLast
        <3>2. \A f \in Frames : f >= seq + 1 => f >= seq
            BY <3>1 DEF Frames
        <3>3. QED
            BY <3>1, <3>2, ParallelDecodeAssumption DEF IInv, TypeOK, Undecoded
    <2>3. CASE ~PastLast(seq) /\ seq \in Pending
        <3>1. seq \in Frames /\ decodes[seq] = 0
            BY <2>3 DEF Pending, IInv, Undecoded, Sequential, Frames
        <3>2. decodes' = [decodes EXCEPT ![seq] = 1]
            BY <2>3, <3>1 DEF Sequential, Decode
        <3>3. /\ caller = "sequential" /\ caller' \in {"sequential", "returned"}
              /\ caller' = "sequential" => seq' = seq + 1
              /\ seq' \in {seq, seq + 1} /\ seq \in 1 .. NumFrames
              /\ images' \subseteq Frames /\ firstErr' \in Frames \cup {NoFrame}
            BY <2>3, <3>1 DEF Sequential, IInv, TypeOK, Frames
        <3>4. /\ decodes' \in [Frames -> Nat]
              /\ \A f \in Frames : decodes'[f] <= 1
              /\ \A f \in Frames : f >= seq + 1 => decodes'[f] = 0
            <4>1. \A f \in Frames : f >= seq + 1 => f >= seq /\ f # seq
                BY <3>3 DEF Frames
            <4>2. QED
                BY <3>1, <3>2, <3>3, <4>1 DEF IInv, TypeOK, Undecoded
        <3>5. QED
            BY <3>3, <3>4, ParallelDecodeAssumption
    <2>4. QED
        BY <2>1, <2>2, <2>3
<1>5. TypeOK'
    BY <1>2, <1>4 DEF IInv, TypeOK, inputs
<1>6. Before' /\ Fresh' /\ Handed'
    BY <1>1, <1>2, <1>4 DEF Before, Fresh, Handed
<1>7. Undecoded'
    BY <1>1, <1>2, <1>4 DEF Undecoded
<1>8. QED
    BY <1>3, <1>5, <1>6, <1>7 DEF IInv

\* A worker only moves once the caller collects.
LEMMA AtWork ==
    ASSUME IInv, NEW w \in Procs, pc[w] # "idle"
    PROVE  w \in workers /\ caller \in {"collect", "returned"}
BY DEF IInv, Started, Before, TypeOK

LEMMA ReceiveInv == ASSUME IInv, NEW w \in Procs, Receive(w) PROVE IInv'
<1>1. /\ w \in workers /\ caller \in {"collect", "returned"} /\ pc[w] = "receive" /\ resultsOpen
      /\ UNCHANGED <<inputs, images, toDecode, workers, caller, seq, results, resultsOpen,
                     firstErr, decodes, collected>>
    BY AtWork DEF Receive, IInv, Closed
<1>2. Before' /\ Fresh' /\ Closed' /\ Injective'
    BY <1>1 DEF IInv, Before, Fresh, Closed, Injective
<1>3. CASE next <= Len(toDecode)
    <2>1. /\ held' = [held EXCEPT ![w] = toDecode[next]] /\ next' = next + 1
          /\ pc' = [pc EXCEPT ![w] = "decode"]
          /\ next \in DOMAIN toDecode /\ next \in Nat /\ toDecode[next] \in Frames
        BY <1>3 DEF Receive, IInv, TypeOK
    <2>2. TypeOK'
        BY <1>1, <1>3, <2>1 DEF IInv, TypeOK, inputs
    <2>3. Started'
        BY <1>1, <2>1 DEF IInv, Started, TypeOK
    <2>4. Carriers' = Carriers \cup {w} /\ w \notin Carriers /\ Carriers \subseteq Procs
        BY <1>1, <2>1 DEF Carriers, IInv, TypeOK
    <2>5. Count'
        <3>1. Cardinality(Carriers') = Cardinality(Carriers) + 1
            BY <2>4, OneMore
        <3>2. QED
            BY <1>1, <2>1, <3>1, CountParts DEF Count
    <2>6. Handed'
        <3>1. \A v \in Procs : v # w /\ pc[v] = "decode" => held[v] # toDecode[next]
            BY <2>1 DEF IInv, Handed, Injective
        <3>2. \A v \in Procs : pc'[v] \in {"decode", "send"} =>
                 \E i \in 1 .. next : i \in DOMAIN toDecode /\ held'[v] = toDecode[i]
            <4> SUFFICES ASSUME NEW v \in Procs, pc'[v] \in {"decode", "send"}
                         PROVE  \E i \in 1 .. next : i \in DOMAIN toDecode /\ held'[v] = toDecode[i]
                OBVIOUS
            <4>1. CASE v = w
                BY <4>1, <2>1 DEF IInv, TypeOK
            <4>2. CASE v # w
                BY <4>2, <2>1 DEF IInv, TypeOK, Handed
            <4>3. QED
                BY <4>1, <4>2
        <3>3. \A u, v \in Procs : pc'[u] = "decode" /\ pc'[v] = "decode" /\ held'[u] = held'[v]
                                    => u = v
            BY <3>1, <2>1 DEF IInv, TypeOK, Handed
        <3>4. QED
            BY <1>1, <2>1, <3>2, <3>3 DEF Handed
    <2>7. Undecoded'
        <3>1. decodes[toDecode[next]] = 0
            BY <1>1, <2>1 DEF IInv, Undecoded, TypeOK
        <3>2. \A v \in Procs : pc'[v] = "decode" => decodes'[held'[v]] = 0
            BY <1>1, <2>1, <3>1 DEF IInv, TypeOK, Undecoded
        <3>3. /\ \A f \in Frames : decodes'[f] <= 1
              /\ caller' = "sequential" => \A f \in Frames : f >= seq' => decodes'[f] = 0
            BY <1>1 DEF IInv, Undecoded
        <3>4. \A i \in DOMAIN toDecode' : i >= next' /\ workers' # {} => decodes'[toDecode'[i]] = 0
            <4>1. \A i \in DOMAIN toDecode : i >= next + 1 => i >= next
                BY <2>1 DEF IInv, TypeOK
            <4>2. QED
                BY <1>1, <2>1, <4>1 DEF IInv, Undecoded
        <3>5. QED
            BY <3>2, <3>3, <3>4 DEF Undecoded
    <2>8. QED
        BY <1>2, <2>2, <2>3, <2>5, <2>6, <2>7 DEF IInv
<1>4. CASE ~(next <= Len(toDecode))
    <2>1. pc' = [pc EXCEPT ![w] = "done"] /\ UNCHANGED <<held, next>>
        BY <1>4 DEF Receive
    <2>2. TypeOK'
        BY <1>1, <2>1 DEF IInv, TypeOK, inputs
    <2>3. Carriers' = Carriers
        BY <1>1, <2>1 DEF Carriers, IInv, TypeOK
    <2>4. Started' /\ Count' /\ Handed' /\ Undecoded'
        BY <1>1, <2>1, <2>3 DEF IInv, Started, Count, Handed, Undecoded, TypeOK
    <2>5. QED
        BY <1>2, <2>2, <2>4 DEF IInv
<1>5. QED
    BY <1>3, <1>4

LEMMA DecodeHeldInv == ASSUME IInv, NEW w \in Procs, DecodeHeld(w) PROVE IInv'
<1>1. /\ w \in workers /\ caller \in {"collect", "returned"} /\ pc[w] = "decode" /\ resultsOpen
      /\ decodes' = [decodes EXCEPT ![held[w]] = @ + 1] /\ pc' = [pc EXCEPT ![w] = "send"]
      /\ UNCHANGED <<inputs, images, toDecode, workers, caller, seq, next, held, results,
                     resultsOpen, firstErr, collected>>
    BY AtWork DEF DecodeHeld, Decode, IInv, Closed
<1>2. PICK i \in 1 .. next - 1 : i \in DOMAIN toDecode /\ held[w] = toDecode[i]
    BY <1>1 DEF IInv, Handed
<1>3. held[w] \in Frames /\ decodes[held[w]] = 0
    BY <1>1, <1>2 DEF IInv, TypeOK, Undecoded
<1>4. decodes' = [decodes EXCEPT ![held[w]] = 1]
    BY <1>1, <1>3
<1>5. TypeOK'
    BY <1>1, <1>3, <1>4 DEF IInv, TypeOK, inputs
<1>6. Carriers' = Carriers
    BY <1>1 DEF Carriers, IInv, TypeOK
<1>7. Started' /\ Before' /\ Fresh' /\ Closed' /\ Count' /\ Injective' /\ Handed'
    BY <1>1, <1>6 DEF IInv, Started, Before, Fresh, Closed, Count, Injective, Handed, TypeOK
<1>8. Undecoded'
    <2>1. \A f \in Frames : decodes'[f] <= 1
        BY <1>3, <1>4 DEF IInv, Undecoded, TypeOK
    <2>2. \A v \in Procs : pc'[v] = "decode" => decodes'[held'[v]] = 0
        <3> SUFFICES ASSUME NEW v \in Procs, pc'[v] = "decode" PROVE decodes'[held[v]] = 0
            BY <1>1
        <3>1. v # w /\ pc[v] = "decode"
            BY <1>1 DEF IInv, TypeOK
        <3>2. held[v] # held[w] /\ decodes[held[v]] = 0
            BY <1>1, <3>1 DEF IInv, Handed, Undecoded
        <3>3. held[v] \in Frames
            BY <3>1 DEF IInv, Handed, TypeOK
        <3>4. QED
            BY <1>3, <1>4, <3>2, <3>3 DEF IInv, TypeOK
    <2>3. \A j \in DOMAIN toDecode' : j >= next' /\ workers' # {} => decodes'[toDecode'[j]] = 0
        <3> SUFFICES ASSUME NEW j \in DOMAIN toDecode, j >= next, workers # {}
                     PROVE  decodes'[toDecode[j]] = 0
            BY <1>1
        <3>1. toDecode[j] # held[w] /\ toDecode[j] \in Frames /\ decodes[toDecode[j]] = 0
            BY <1>2 DEF IInv, Injective, Undecoded, TypeOK
        <3>2. QED
            BY <1>3, <1>4, <3>1 DEF IInv, TypeOK
    <2>4. QED
        BY <1>1, <2>1, <2>2, <2>3 DEF Undecoded
<1>9. QED
    BY <1>5, <1>7, <1>8 DEF IInv

LEMMA SendInv == ASSUME IInv, NEW w \in Procs, Send(w) PROVE IInv'
<1>1. /\ w \in workers /\ caller \in {"collect", "returned"} /\ pc[w] = "send" /\ resultsOpen
      /\ results' = Append(results, held[w]) /\ held' = [held EXCEPT ![w] = NoFrame]
      /\ pc' = [pc EXCEPT ![w] = "receive"]
      /\ UNCHANGED <<inputs, images, toDecode, workers, caller, seq, next, resultsOpen,
                     firstErr, decodes, collected>>
    BY AtWork DEF Send, IInv, Closed
<1>2. Carriers' = Carriers \ {w} /\ w \in Carriers /\ Carriers \subseteq Procs
    BY <1>1 DEF Carriers, IInv, TypeOK
<1>3. held[w] \in Frames
    BY <1>1 DEF IInv, Handed, TypeOK
<1>4. TypeOK'
    BY <1>1, <1>3 DEF IInv, TypeOK, inputs, NoFrame
<1>5. Count'
    <2>1. Len(results') = Len(results) + 1
        BY <1>1, <1>3 DEF IInv, TypeOK
    <2>2. Cardinality(Carriers') = Cardinality(Carriers) - 1
        BY <1>2, OneLess
    <2>3. QED
        BY <1>1, <2>1, <2>2, CountParts DEF Count
<1>6. Started' /\ Before' /\ Fresh' /\ Closed' /\ Injective' /\ Handed' /\ Undecoded'
    BY <1>1 DEF IInv, Started, Before, Fresh, Closed, Injective, Handed, Undecoded, TypeOK
<1>7. QED
    BY <1>4, <1>5, <1>6 DEF IInv

LEMMA CloseResultsInv == IInv /\ CloseResults => IInv'
<1> SUFFICES ASSUME IInv, CloseResults PROVE IInv'
    OBVIOUS
<1>1. Carriers' = Carriers
    BY DEF CloseResults, Carriers
<1>2. TypeOK'
    BY DEF CloseResults, IInv, TypeOK, inputs
<1>3. QED
    BY <1>1, <1>2 DEF CloseResults, AllDone, IInv, Started, Before, Fresh, Closed, Count,
                      Injective, Handed, Undecoded

LEMMA CollectInv == IInv /\ Collect => IInv'
<1> SUFFICES ASSUME IInv, Collect PROVE IInv'
    OBVIOUS
<1>1. /\ caller = "collect" /\ caller' \in {"collect", "returned"}
      /\ UNCHANGED <<inputs, toDecode, workers, seq, next, pc, held, resultsOpen, decodes>>
    BY DEF Collect
<1>2. Carriers' = Carriers
    BY <1>1 DEF Carriers
<1>3. CASE results # << >>
    <2>1. /\ results' = Tail(results) /\ Head(results) \in Frames /\ Store(Head(results))
          /\ collected' = Append(collected, Head(results))
        BY <1>3 DEF Collect, IInv, TypeOK
    <2>2. results' \in Seq(Frames) /\ Len(results') = Len(results) - 1
        BY <1>3, <2>1 DEF IInv, TypeOK
    <2>3. TypeOK'
        BY <1>1, <2>1, <2>2 DEF IInv, TypeOK, inputs, Store
    <2>4. Count'
        BY <1>1, <1>2, <2>2, CountParts DEF Count
    <2>5. QED
        BY <1>1, <2>3, <2>4
        DEF IInv, Started, Before, Fresh, Closed, Injective, Handed, Undecoded
<1>4. CASE results = << >>
    <2>1. UNCHANGED <<images, firstErr, results, collected>>
        BY <1>4 DEF Collect
    <2>2. TypeOK'
        BY <1>1, <2>1 DEF IInv, TypeOK, inputs
    <2>3. QED
        BY <1>1, <1>2, <2>1, <2>2
        DEF IInv, Started, Before, Fresh, Closed, Count, Injective, Handed, Undecoded
<1>5. QED
    BY <1>3, <1>4

LEMMA NextInv == IInv /\ [Next]_vars => IInv'
<1> SUFFICES ASSUME IInv, [Next]_vars PROVE IInv'
    OBVIOUS
<1>1. CASE UNCHANGED vars
    <2>1. Carriers' = Carriers
        BY <1>1 DEF vars, Carriers
    <2>2. QED
        BY <1>1, <2>1 DEF vars, inputs, IInv, TypeOK, Started, Before, Fresh, Closed, Count,
                          Injective, Handed, Undecoded
<1>2. ASSUME NEW w \in Procs, WorkerStep(w) PROVE IInv'
    BY <1>2, ReceiveInv, DecodeHeldInv, SendInv DEF WorkerStep
<1>3. QED
    BY <1>1, <1>2, StartInv, SequentialInv, CollectInv, CloseResultsInv DEF Next, Finished

\* The inductive invariant holds in every reachable state.
THEOREM Invariance == Spec => []IInv
BY InitInv, NextInv, PTL DEF Spec

\* Every variable keeps its type (TypeOK).
THEOREM TypeCorrect == Spec => []TypeOK
<1>1. IInv => TypeOK
    BY DEF IInv
<1>2. QED
    BY <1>1, Invariance, PTL

\* A worker never waits to send its result, whatever the caller does: the
\* buffer made for toDecodeIdx is large enough (SendNeverBlocks).
THEOREM BufferSuffices == Spec => []SendNeverBlocks
<1>1. IInv => SendNeverBlocks
    <2> SUFFICES ASSUME IInv, NEW w \in Procs, pc[w] = "send"
                 PROVE  Len(results) < Capacity
        BY DEF SendNeverBlocks
    <2>1. w \in Carriers /\ Carriers \subseteq Procs
        BY DEF Carriers
    <2>2. Cardinality(Carriers) >= 1 /\ Cardinality(Carriers) \in Nat
        BY <2>1, SomeCarrier, CarriersFinite
    <2>3. QED
        BY <2>2 DEF IInv, Count, TypeOK, Capacity
<1>2. QED
    BY <1>1, Invariance, PTL

\* Nobody sends on the closed channel results, which would panic
\* (NoSendAfterClose).
THEOREM ClosedWhenDone == Spec => []NoSendAfterClose
<1>1. IInv => NoSendAfterClose
    BY DEF IInv, NoSendAfterClose, Closed, Started
<1>2. QED
    BY <1>1, Invariance, PTL

\* No bitstream is decoded twice, in parallel or one after the other
\* (DecodedOnce).
THEOREM NoFrameTwice == Spec => []DecodedOnce
<1>1. IInv => DecodedOnce
    BY DEF IInv, Undecoded, DecodedOnce
<1>2. QED
    BY <1>1, Invariance, PTL

(***************************************************************************)
(* What the call returns                                                    *)
(***************************************************************************)

\* The frames of ToDo are the ones that lacked an image when the call began;
\* each is with a worker, in results or collected once it was handed out. A
\* worker that stops has found work empty, and the caller of the parallel path
\* returns when all of them have stopped and results is drained.
InResults(f) == \E k \in DOMAIN results : results[k] = f
WithWorker(f) == \E w \in Procs : pc[w] \in {"decode", "send"} /\ held[w] = f
Collected(f) == IF f \in broken THEN firstErr # NoFrame ELSE f \in images
Accounted ==
    \A i \in DOMAIN toDecode : i < next =>
        WithWorker(toDecode[i]) \/ InResults(toDecode[i]) \/ Collected(toDecode[i])
Exhausted ==
    /\ \A w \in Procs : pc[w] = "done" => next > Len(toDecode)
    /\ caller = "collect" => workers # {}
    /\ caller = "returned" /\ workers # {} => results = << >> /\ AllDone

\* Only frames of ToDo are collected: an error is that of one that does not
\* decode, and no image is that of one.
FromWork == \A k \in DOMAIN results : results[k] \in ToDo
Erring == firstErr # NoFrame => firstErr \in ToDo \cap broken
Intact == images \cap ToDo \cap broken = {}

\* The error kept is the first of those that came out of results.
Earliest ==
    /\ caller = "start" => collected = << >>
    /\ firstErr = NoFrame => \A i \in DOMAIN collected : collected[i] \notin broken
    /\ workers # {} /\ firstErr # NoFrame => FirstReceived(firstErr)

\* DecodeFrames has done with the frames before seq, and with no other.
OneByOne ==
    /\ caller = "start" => seq = 1 /\ firstErr = NoFrame
    /\ caller = "sequential" =>
         /\ firstErr = NoFrame
         /\ ToDo \subseteq data
         /\ \A f \in ToDo : IF f < seq THEN f \in images ELSE f \notin images
         /\ Pending \subseteq ToDo
    /\ caller = "returned" /\ workers = {} =>
         IF firstErr = NoFrame THEN ToDo \subseteq images
         ELSE \A f \in ToDo : f \in images <=> f < firstErr

OInv == Accounted /\ Exhausted /\ FromWork /\ Erring /\ Intact /\ Earliest /\ OneByOne

LEMMA FramesFinite ==
    ASSUME NEW S \in SUBSET Frames
    PROVE  /\ IsFiniteSet(S) /\ Cardinality(S) \in Nat
           /\ Cardinality(S) = 0 <=> S = {}
<1>1. IsFiniteSet(Frames)
    BY ParallelDecodeAssumption, FS_Interval DEF Frames
<1>2. IsFiniteSet(S)
    BY <1>1, FS_Subset
<1>3. QED
    BY <1>2, FS_CardinalityType, FS_EmptySet

\* The list made of a finite set of frames holds all of them.
LEMMA AscendingIsAll ==
    ASSUME NEW S \in SUBSET Frames, NEW s \in Ascending(S)
    PROVE  S = {s[i] : i \in DOMAIN s}
<1> DEFINE n == Cardinality(S)
<1>1. IsFiniteSet(S) /\ n \in Nat
    BY FramesFinite
<1>2. s \in [1 .. n -> S] /\ \A i, j \in 1 .. n : i < j => s[i] < s[j]
    BY DEF Ascending
<1>3. s \in Injection(1 .. n, S)
    <2>1. ASSUME NEW i \in 1 .. n, NEW j \in 1 .. n, s[i] = s[j] PROVE i = j
        <3>1. s[i] \in Frames /\ s[j] \in Frames
            BY <1>2
        <3>2. s[i] \in Int /\ s[j] \in Int
            BY <3>1 DEF Frames
        <3>3. QED
            BY <1>1, <1>2, <2>1, <3>2
    <2>2. QED
        BY <1>2, <2>1 DEF Injection, IsInjective
<1>4. IsFiniteSet(1 .. n) /\ Cardinality(1 .. n) = n
    BY <1>1, FS_Interval
<1>5. s \in Surjection(1 .. n, S)
    BY <1>1, <1>3, <1>4, FS_Injection
<1>6. QED
    BY <1>2, <1>5 DEF Surjection

\* The frames to decode, when work is filled.
LEMMA StartToDo ==
    ASSUME Start
    PROVE  ToDo' = Pending /\ ToDo' \cap images = {} /\ ToDo' \subseteq data
<1>1. Pending \in SUBSET Frames /\ toDecode' \in Ascending(Pending)
    BY DEF Pending, Start
<1>2. Pending = {toDecode'[i] : i \in DOMAIN toDecode'}
    BY <1>1, AscendingIsAll
<1>3. QED
    BY <1>2 DEF ToDo, Pending

LEMMA InitOutcome == Init => OInv
BY DEF Init, OInv, Accounted, Exhausted, FromWork, Erring, Intact, Earliest, OneByOne, ToDo,
       NoFrame

LEMMA StartOutcome == IInv /\ OInv /\ Start => OInv'
<1> SUFFICES ASSUME IInv, OInv, Start PROVE OInv'
    OBVIOUS
<1>1. /\ results = << >> /\ next = 1 /\ workers = {} /\ seq = 1 /\ firstErr = NoFrame
      /\ collected = << >>
      /\ UNCHANGED <<broken, data, images, seq, next, results, firstErr, collected>>
    BY DEF IInv, Fresh, Before, OInv, OneByOne, Earliest, Start, inputs
<1>2. ToDo' = Pending /\ ToDo' \cap images = {} /\ ToDo' \subseteq data /\ ToDo' \subseteq Frames
    BY StartToDo DEF Pending
<1>3. Pending' = Pending
    BY <1>1 DEF Pending
<1> DEFINE n == Cardinality(Pending)
<1>4. n \in Nat /\ (n = 0 => Pending = {})
    BY FramesFinite DEF Pending
<1>5. FromWork' /\ Erring' /\ Intact' /\ Earliest'
    BY <1>1, <1>2 DEF FromWork, Erring, Intact, Earliest
<1>6. Accounted'
    <2>1. DOMAIN toDecode' = 1 .. n
        BY DEF Start, Ascending
    <2>2. QED
        BY <1>1, <1>4, <2>1 DEF Accounted
<1>7. ASSUME caller' # "collect" PROVE OInv'
    <2>1. caller' = (IF n = 0 THEN "returned" ELSE "sequential") /\ UNCHANGED <<workers, pc>>
        BY <1>7 DEF Start
    <2>2. \A w \in Procs : pc'[w] # "done"
        BY <1>1, <2>1 DEF IInv, Started
    <2>3. Exhausted'
        BY <1>1, <2>1, <2>2 DEF Exhausted
    <2>4. \A f \in ToDo' : ~(f < seq')
        BY <1>1, <1>2, ParallelDecodeAssumption DEF Frames
    <2>5. OneByOne'
        BY <1>1, <1>2, <1>3, <1>4, <2>1, <2>4 DEF OneByOne
    <2>6. QED
        BY <1>5, <1>6, <2>3, <2>5 DEF OInv
<1>8. ASSUME caller' = "collect" PROVE OInv'
    <2>1. /\ caller' = "collect" /\ workers' \in SomeWorkers(n) /\ n > 2
          /\ pc' = [w \in Procs |-> IF w \in workers' THEN "receive" ELSE "idle"]
        BY <1>8 DEF Start
    <2>2. workers' # {}
        <3>1. Cardinality(Procs) \in Nat /\ Cardinality(Procs) # 0
            BY ParallelDecodeAssumption, FS_CardinalityType, FS_EmptySet
        <3>2. Cardinality(workers') # 0
            BY <1>4, <2>1, <3>1 DEF SomeWorkers
        <3>3. QED
            BY <3>2, FS_EmptySet
    <2>3. Exhausted' /\ OneByOne'
        BY <2>1, <2>2 DEF Exhausted, OneByOne
    <2>4. QED
        BY <1>5, <1>6, <2>3 DEF OInv
<1>9. QED
    BY <1>7, <1>8

LEMMA SequentialOutcome == IInv /\ OInv /\ Sequential => OInv'
<1> SUFFICES ASSUME IInv, OInv, Sequential PROVE OInv'
    OBVIOUS
<1>1. /\ workers = {} /\ \A w \in Procs : pc[w] = "idle"
      /\ caller = "sequential" /\ firstErr = NoFrame
      /\ UNCHANGED <<broken, data, toDecode, workers, next, pc, held, results, collected>>
    BY DEF IInv, Before, Started, OInv, OneByOne, Sequential, inputs
<1>2. /\ ToDo \subseteq data /\ Pending \subseteq ToDo /\ ToDo \subseteq Frames /\ ToDo' = ToDo
      /\ \A f \in ToDo : IF f < seq THEN f \in images ELSE f \notin images
    BY <1>1 DEF IInv, TypeOK, OInv, OneByOne, ToDo, Sequential
<1>3. NumFrames \in Nat /\ seq \in 1 .. NumFrames + 1
    BY ParallelDecodeAssumption DEF IInv, TypeOK
<1>4. Exhausted'
    BY <1>1 DEF Exhausted, Sequential, OInv
<1>5. FromWork'
    BY <1>1, <1>2 DEF FromWork, OInv
<1>6. images \subseteq images' /\ (firstErr = NoFrame \/ UNCHANGED firstErr)
    BY <1>1 DEF Sequential
<1>7. Accounted'
    BY <1>1, <1>6 DEF Accounted, WithWorker, InResults, Collected, OInv
<1>8. CASE PastLast(seq)
    <2>1. caller' = "returned" /\ UNCHANGED <<seq, images, firstErr>>
        BY <1>8 DEF Sequential
    <2>2. ToDo \subseteq images
        <3>1. \A f \in Frames : f < seq
            BY <1>3, <1>8 DEF PastLast, Frames
        <3>2. QED
            BY <1>2, <3>1
    <2>3. Erring' /\ Intact' /\ Earliest' /\ OneByOne'
        BY <1>1, <1>2, <2>1, <2>2 DEF Erring, Intact, Earliest, OneByOne, OInv
    <2>4. QED
        BY <1>4, <1>5, <1>7, <2>3 DEF OInv
<1>9. CASE ~PastLast(seq) /\ seq \notin Pending
    <2>1. seq' = seq + 1 /\ UNCHANGED <<caller, images, firstErr>>
        BY <1>9 DEF Sequential
    <2>2. seq \in Frames /\ seq \notin ToDo
        BY <1>2, <1>3, <1>9 DEF PastLast, Frames, Pending
    <2>3. \A f \in ToDo : f < seq + 1 <=> f < seq
        BY <1>2, <1>3, <2>2 DEF Frames
    <2>4. Pending' = Pending
        BY <1>1, <2>1 DEF Pending
    <2>5. Erring' /\ Intact' /\ Earliest' /\ OneByOne'
        BY <1>1, <1>2, <2>1, <2>3, <2>4 DEF Erring, Intact, Earliest, OneByOne, OInv
    <2>6. QED
        BY <1>4, <1>5, <1>7, <2>5 DEF OInv
<1>10. CASE ~PastLast(seq) /\ seq \in Pending /\ seq \in broken
    <2>1. caller' = "returned" /\ firstErr' = seq /\ UNCHANGED <<seq, images>>
        BY <1>10 DEF Sequential
    <2>2. seq \in ToDo /\ seq # NoFrame
        BY <1>2, <1>3, <1>10 DEF NoFrame
    <2>3. Erring' /\ Intact' /\ Earliest'
        BY <1>1, <1>2, <1>10, <2>1, <2>2 DEF Erring, Intact, Earliest, OInv
    <2>4. OneByOne'
        BY <1>1, <1>2, <2>1, <2>2 DEF OneByOne
    <2>5. QED
        BY <1>4, <1>5, <1>7, <2>3, <2>4 DEF OInv
<1>11. CASE ~PastLast(seq) /\ seq \in Pending /\ seq \notin broken
    <2>1. seq' = seq + 1 /\ images' = images \cup {seq} /\ UNCHANGED <<caller, firstErr>>
        BY <1>11 DEF Sequential
    <2>2. \A f \in ToDo : f < seq + 1 <=> f < seq \/ f = seq
        BY <1>2, <1>3 DEF Frames
    <2>3. \A f \in ToDo : IF f < seq' THEN f \in images' ELSE f \notin images'
        BY <1>2, <1>3, <2>1, <2>2
    <2>4. Pending' \subseteq ToDo
        BY <1>1, <1>2, <2>1 DEF Pending
    <2>5. Erring' /\ Intact' /\ Earliest' /\ OneByOne'
        BY <1>1, <1>2, <1>11, <2>1, <2>3, <2>4 DEF Erring, Intact, Earliest, OneByOne, OInv
    <2>6. QED
        BY <1>4, <1>5, <1>7, <2>5 DEF OInv
<1>12. QED
    BY <1>8, <1>9, <1>10, <1>11

LEMMA ReceiveOutcome == ASSUME IInv, OInv, NEW w \in Procs, Receive(w) PROVE OInv'
<1>1. /\ pc[w] = "receive" /\ w \in workers /\ next \in Nat
      /\ UNCHANGED <<broken, data, images, toDecode, workers, caller, seq, results, firstErr,
                     collected>>
    BY DEF Receive, IInv, TypeOK, Started, inputs
<1>2. ToDo' = ToDo /\ Pending' = Pending
    BY <1>1 DEF ToDo, Pending
<1>3. FromWork' /\ Erring' /\ Intact' /\ Earliest' /\ OneByOne'
    BY <1>1, <1>2 DEF FromWork, Erring, Intact, Earliest, FirstReceived, OneByOne, OInv
<1>4. ~(caller = "returned")
    BY <1>1 DEF OInv, Exhausted, AllDone
<1>5. CASE next <= Len(toDecode)
    <2>1. /\ held' = [held EXCEPT ![w] = toDecode[next]] /\ next' = next + 1
          /\ pc' = [pc EXCEPT ![w] = "decode"]
        BY <1>5 DEF Receive
    <2>2. \A f : WithWorker(f) => WithWorker(f)'
        BY <1>1, <2>1 DEF WithWorker, IInv, TypeOK
    <2>3. \A f : f = toDecode[next] => WithWorker(f)'
        BY <2>1 DEF WithWorker, IInv, TypeOK
    <2>4. \A f : (InResults(f) => InResults(f)') /\ (Collected(f) => Collected(f)')
        BY <1>1 DEF InResults, Collected
    <2>5. \A i \in DOMAIN toDecode : i < next + 1 => i < next \/ i = next
        BY <1>1 DEF IInv, TypeOK
    <2>6. Accounted'
        <3> SUFFICES ASSUME NEW i \in DOMAIN toDecode, i < next + 1, NEW f, f = toDecode[i]
                     PROVE  WithWorker(f)' \/ InResults(f)' \/ Collected(f)'
            BY <1>1, <2>1 DEF Accounted, WithWorker, InResults, Collected
        <3>1. CASE i < next
            BY <3>1, <2>2, <2>4 DEF OInv, Accounted
        <3>2. CASE i = next
            BY <3>2, <2>3
        <3>3. QED
            BY <3>1, <3>2, <2>5
    <2>7. Exhausted'
        <3>1. \A v \in Procs : pc'[v] = "done" => pc[v] = "done"
            BY <2>1 DEF IInv, TypeOK
        <3>2. QED
            BY <1>1, <1>4, <1>5, <2>1, <3>1 DEF OInv, Exhausted, IInv, TypeOK
    <2>8. QED
        BY <1>3, <2>6, <2>7 DEF OInv
<1>6. CASE ~(next <= Len(toDecode))
    <2>1. pc' = [pc EXCEPT ![w] = "done"] /\ UNCHANGED <<held, next>>
        BY <1>6 DEF Receive
    <2>2. Accounted'
        BY <1>1, <2>1 DEF OInv, Accounted, WithWorker, InResults, Collected, IInv, TypeOK
    <2>3. Exhausted'
        BY <1>1, <1>4, <1>6, <2>1 DEF OInv, Exhausted, IInv, TypeOK
    <2>4. QED
        BY <1>3, <2>2, <2>3 DEF OInv
<1>7. QED
    BY <1>5, <1>6

LEMMA DecodeHeldOutcome == ASSUME IInv, OInv, NEW w \in Procs, DecodeHeld(w) PROVE OInv'
<1>1. /\ pc[w] = "decode" /\ w \in workers /\ pc' = [pc EXCEPT ![w] = "send"]
      /\ UNCHANGED <<broken, data, images, toDecode, workers, caller, seq, next, held, results,
                     firstErr, collected>>
    BY DEF DecodeHeld, IInv, TypeOK, Started, inputs
<1>2. ToDo' = ToDo /\ Pending' = Pending
    BY <1>1 DEF ToDo, Pending
<1>3. FromWork' /\ Erring' /\ Intact' /\ Earliest' /\ OneByOne'
    BY <1>1, <1>2 DEF FromWork, Erring, Intact, Earliest, FirstReceived, OneByOne, OInv
<1>4. Accounted'
    BY <1>1 DEF OInv, Accounted, WithWorker, InResults, Collected, IInv, TypeOK
<1>5. Exhausted'
    BY <1>1 DEF OInv, Exhausted, AllDone, IInv, TypeOK
<1>6. QED
    BY <1>3, <1>4, <1>5 DEF OInv

LEMMA SendOutcome == ASSUME IInv, OInv, NEW w \in Procs, Send(w) PROVE OInv'
<1>1. /\ pc[w] = "send" /\ w \in workers
      /\ results' = Append(results, held[w]) /\ held' = [held EXCEPT ![w] = NoFrame]
      /\ pc' = [pc EXCEPT ![w] = "receive"]
      /\ UNCHANGED <<broken, data, images, toDecode, workers, caller, seq, next, firstErr,
                     collected>>
    BY DEF Send, IInv, TypeOK, Started, inputs
<1>2. ToDo' = ToDo /\ Pending' = Pending
    BY <1>1 DEF ToDo, Pending
<1>3. held[w] \in ToDo /\ held[w] \in Frames
    BY <1>1 DEF IInv, Handed, TypeOK, ToDo
<1>4. /\ Len(results') = Len(results) + 1 /\ Len(results) \in Nat
      /\ \A k \in 1 .. Len(results) : results'[k] = results[k]
      /\ results'[Len(results) + 1] = held[w]
      /\ DOMAIN results = 1 .. Len(results) /\ DOMAIN results' = 1 .. Len(results) + 1
    BY <1>1, <1>3 DEF IInv, TypeOK
<1>5. FromWork'
    <2>1. \A k \in 1 .. Len(results) + 1 : k \in 1 .. Len(results) \/ k = Len(results) + 1
        BY <1>4
    <2>2. QED
        BY <1>2, <1>3, <1>4, <2>1 DEF FromWork, OInv
<1>6. Erring' /\ Intact' /\ Earliest' /\ OneByOne'
    BY <1>1, <1>2 DEF Erring, Intact, Earliest, FirstReceived, OneByOne, OInv
<1>7. \A f : InResults(f) => InResults(f)'
    BY <1>4 DEF InResults
<1>8. \A f : f = held[w] => InResults(f)'
    BY <1>1, <1>4 DEF InResults
<1>9. \A f : WithWorker(f) => WithWorker(f)' \/ f = held[w]
    BY <1>1 DEF WithWorker, IInv, TypeOK
<1>10. \A f : Collected(f) => Collected(f)'
    BY <1>1 DEF Collected
<1>11. Accounted'
    <2> SUFFICES ASSUME NEW i \in DOMAIN toDecode, i < next, NEW f, f = toDecode[i]
                 PROVE  WithWorker(f)' \/ InResults(f)' \/ Collected(f)'
        BY <1>1 DEF Accounted, WithWorker, InResults, Collected
    <2>1. CASE WithWorker(f)
        BY <2>1, <1>8, <1>9
    <2>2. CASE ~WithWorker(f)
        BY <2>2, <1>7, <1>10 DEF OInv, Accounted
    <2>3. QED
        BY <2>1, <2>2
<1>12. Exhausted'
    BY <1>1 DEF OInv, Exhausted, AllDone, IInv, TypeOK
<1>13. QED
    BY <1>5, <1>6, <1>11, <1>12 DEF OInv

LEMMA CollectOutcome == IInv /\ OInv /\ Collect => OInv'
<1> SUFFICES ASSUME IInv, OInv, Collect PROVE OInv'
    OBVIOUS
<1>1. /\ caller = "collect" /\ caller' \in {"collect", "returned"} /\ workers # {}
      /\ UNCHANGED <<broken, data, toDecode, workers, seq, next, pc, held, resultsOpen>>
    BY DEF Collect, inputs, OInv, Exhausted
<1>2. ToDo' = ToDo
    BY <1>1 DEF ToDo
<1>3. OneByOne'
    BY <1>1 DEF OneByOne
<1>4. CASE results # << >>
    <2>0. PICK f : f = Head(results)
        OBVIOUS
    <2>1. /\ results' = Tail(results) /\ Store(f) /\ caller' = caller
          /\ collected' = Append(collected, f)
        BY <1>4, <2>0 DEF Collect
    <2>2. /\ f = results[1] /\ 1 \in DOMAIN results /\ Len(results) \in Nat
          /\ Len(results') = Len(results) - 1
          /\ DOMAIN results = 1 .. Len(results) /\ DOMAIN results' = 1 .. Len(results) - 1
          /\ \A k \in 1 .. Len(results) - 1 : results'[k] = results[k + 1]
        BY <1>4, <2>0, <2>1 DEF IInv, TypeOK
    <2>3. f \in ToDo /\ f \in Frames /\ f # NoFrame
        <3>1. f \in ToDo
            BY <2>2 DEF OInv, FromWork
        <3>2. f \in Frames
            BY <3>1 DEF ToDo, IInv, TypeOK
        <3>3. QED
            BY <3>1, <3>2, ParallelDecodeAssumption DEF Frames, NoFrame
    <2>4. FromWork'
        BY <1>2, <2>2 DEF FromWork, OInv
    <2>5. Erring' /\ Intact'
        BY <1>1, <1>2, <2>1, <2>3 DEF Erring, Intact, OInv, Store
    <2>6. \A g : Collected(g) \/ g = f => Collected(g)'
        BY <1>1, <2>1, <2>3 DEF Collected, Store
    <2>7. \A g : InResults(g) => InResults(g)' \/ g = f
        <3> SUFFICES ASSUME NEW g, NEW k \in 1 .. Len(results), results[k] = g, k # 1
                     PROVE  InResults(g)'
            BY <2>2 DEF InResults
        <3>1. k - 1 \in 1 .. Len(results) - 1 /\ results'[k - 1] = g
            BY <2>2
        <3>2. QED
            BY <2>2, <3>1 DEF InResults
    <2>8. \A g : WithWorker(g) => WithWorker(g)'
        BY <1>1 DEF WithWorker
    <2>9. Accounted'
        <3> SUFFICES ASSUME NEW i \in DOMAIN toDecode, i < next, NEW g, g = toDecode[i]
                     PROVE  WithWorker(g)' \/ InResults(g)' \/ Collected(g)'
            BY <1>1 DEF Accounted, WithWorker, InResults, Collected
        <3>1. CASE InResults(g)
            BY <3>1, <2>6, <2>7
        <3>2. CASE ~InResults(g)
            BY <3>2, <2>6, <2>8 DEF OInv, Accounted
        <3>3. QED
            BY <3>1, <3>2
    <2>10. Exhausted'
        BY <1>1, <2>1 DEF OInv, Exhausted
    <2>11. Earliest'
        <3>1. /\ collected \in Seq(Frames) /\ Len(collected) \in Nat
              /\ DOMAIN collected = 1 .. Len(collected)
              /\ DOMAIN collected' = 1 .. Len(collected) + 1
              /\ \A i \in 1 .. Len(collected) : collected'[i] = collected[i]
              /\ collected'[Len(collected) + 1] = f
            BY <2>1, <2>3 DEF IInv, TypeOK
        <3>2. CASE firstErr # NoFrame
            <4>1. firstErr' = firstErr
                BY <3>2, <2>1 DEF Store
            <4>2. PICK i \in 1 .. Len(collected) :
                     /\ collected[i] = firstErr /\ firstErr \in broken
                     /\ \A j \in 1 .. i - 1 : collected[j] \notin broken
                BY <1>1, <3>1, <3>2 DEF OInv, Earliest, FirstReceived
            <4>3. /\ i \in 1 .. Len(collected) + 1
                  /\ \A j \in 1 .. i - 1 : j \in 1 .. Len(collected)
                BY <3>1
            <4>4. FirstReceived(firstErr)'
                BY <1>1, <3>1, <4>1, <4>2, <4>3 DEF FirstReceived
            <4>5. QED
                BY <1>1, <2>1, <3>2, <4>1, <4>4 DEF Earliest
        <3>3. CASE firstErr = NoFrame
            <4>1. \A i \in 1 .. Len(collected) : collected'[i] \notin broken
                BY <3>1, <3>3 DEF OInv, Earliest
            <4>2. CASE f \in broken
                <5>1. firstErr' = f
                    BY <3>3, <4>2, <2>1 DEF Store
                <5>2. FirstReceived(firstErr)'
                    <6>1. /\ Len(collected) + 1 \in 1 .. Len(collected) + 1
                          /\ (Len(collected) + 1) - 1 = Len(collected)
                        BY <3>1
                    <6>2. QED
                        BY <1>1, <3>1, <4>1, <4>2, <5>1, <6>1 DEF FirstReceived
                <5>3. QED
                    BY <1>1, <2>1, <2>3, <5>1, <5>2 DEF Earliest
            <4>3. CASE f \notin broken
                <5>1. firstErr' = NoFrame
                    BY <3>3, <4>3, <2>1 DEF Store
                <5>2. \A i \in 1 .. Len(collected) + 1 : collected'[i] \notin broken
                    BY <3>1, <4>1, <4>3
                <5>3. QED
                    BY <1>1, <2>1, <3>1, <5>1, <5>2 DEF Earliest
            <4>4. QED
                BY <4>2, <4>3
        <3>4. QED
            BY <3>2, <3>3
    <2>12. QED
        BY <1>3, <2>4, <2>5, <2>9, <2>10, <2>11 DEF OInv
<1>5. CASE results = << >>
    <2>1. ~resultsOpen /\ UNCHANGED <<images, firstErr, results, collected>>
        BY <1>5 DEF Collect
    <2>2. AllDone
        BY <2>1 DEF AllDone, IInv, Closed
    <2>3. Exhausted'
        BY <1>1, <1>5, <2>1, <2>2 DEF OInv, Exhausted, AllDone
    <2>4. Accounted' /\ FromWork' /\ Erring' /\ Intact' /\ Earliest'
        BY <1>1, <1>2, <2>1
        DEF OInv, Accounted, WithWorker, InResults, Collected, FromWork, Erring, Intact,
            Earliest, FirstReceived
    <2>5. QED
        BY <1>3, <2>3, <2>4 DEF OInv
<1>6. QED
    BY <1>4, <1>5

LEMMA UnchangedOutcome ==
    ASSUME OInv,
           UNCHANGED <<broken, data, images, toDecode, workers, caller, seq, next, pc, held,
                       results, firstErr, collected>>
    PROVE  OInv'
<1>1. ToDo' = ToDo /\ Pending' = Pending
    BY DEF ToDo, Pending
<1>2. FromWork' /\ Erring' /\ Intact' /\ Earliest' /\ OneByOne'
    BY <1>1 DEF FromWork, Erring, Intact, Earliest, FirstReceived, OneByOne, OInv
<1>3. Accounted' /\ Exhausted'
    BY DEF Accounted, WithWorker, InResults, Collected, Exhausted, AllDone, OInv
<1>4. QED
    BY <1>2, <1>3 DEF OInv

LEMMA NextOutcome == IInv /\ OInv /\ [Next]_vars => OInv'
<1> SUFFICES ASSUME IInv, OInv, [Next]_vars PROVE OInv'
    OBVIOUS
<1>1. CASE UNCHANGED vars
    BY <1>1, UnchangedOutcome DEF vars, inputs
<1>2. CASE CloseResults
    BY <1>2, UnchangedOutcome DEF CloseResults, inputs
<1>3. ASSUME NEW w \in Procs, WorkerStep(w) PROVE OInv'
    BY <1>3, ReceiveOutcome, DecodeHeldOutcome, SendOutcome DEF WorkerStep
<1>4. QED
    BY <1>1, <1>2, <1>3, StartOutcome, SequentialOutcome, CollectOutcome DEF Next, Finished

\* When the caller has returned, every frame handed out was collected.
LEMMA AllCollected ==
    ASSUME IInv, OInv, caller = "returned", workers # {}, NEW f \in ToDo
    PROVE  Collected(f)
<1>1. results = << >> /\ AllDone
    BY DEF OInv, Exhausted
<1>2. PICK i \in DOMAIN toDecode : toDecode[i] = f
    BY DEF ToDo
<1>3. PICK w \in workers : w \in Procs /\ pc[w] = "done"
    BY <1>1 DEF AllDone, IInv, TypeOK
<1>4. i < next
    <2>1. next > Len(toDecode)
        BY <1>3 DEF OInv, Exhausted
    <2>2. QED
        BY <1>2, <2>1 DEF IInv, TypeOK
<1>5. ~WithWorker(f) /\ ~InResults(f)
    BY <1>1 DEF WithWorker, InResults, AllDone, IInv, Started
<1>6. QED
    BY <1>2, <1>4, <1>5 DEF OInv, Accounted

\* When the call returns without an error every frame that lacked an image has
\* it. With one, in parallel, those that decode have theirs and the error is the
\* first that came out of results; one after the other, those before the first
\* that fails have theirs and its error is returned (Outcome).
THEOREM ReturnsWhatItDecoded == Spec => []Outcome
<1>1. ASSUME IInv, OInv, caller = "returned", workers # {}
      PROVE  /\ firstErr = NoFrame <=> Failing = {}
             /\ images \cap ToDo = ToDo \ broken
             /\ Failing # {} => FirstReceived(firstErr)
    <2>1. \A f \in ToDo : Collected(f)
        BY <1>1, AllCollected
    <2>2. firstErr = NoFrame <=> Failing = {}
        BY <1>1, <2>1 DEF Collected, OInv, Erring, Failing
    <2>3. images \cap ToDo = ToDo \ broken
        BY <1>1, <2>1 DEF Collected, OInv, Intact
    <2>4. QED
        BY <1>1, <2>2, <2>3 DEF OInv, Earliest
<1>2. ASSUME IInv, OInv, caller = "returned", workers = {}
      PROVE  /\ firstErr = NoFrame <=> Failing = {}
             /\ images \cap ToDo = {f \in ToDo : \A g \in Failing : f < g}
             /\ Failing # {} => firstErr \in Failing /\ \A g \in Failing : firstErr <= g
    <2>1. Erring /\ images \cap Failing = {}
        BY <1>2 DEF OInv, Intact, Failing
    <2>2. CASE firstErr = NoFrame
        <3>1. ToDo \subseteq images
            BY <1>2, <2>2 DEF OInv, OneByOne
        <3>2. Failing = {}
            BY <2>1, <3>1 DEF Failing
        <3>3. QED
            BY <2>2, <3>1, <3>2
    <2>3. CASE firstErr # NoFrame
        <3>1. firstErr \in Failing /\ \A f \in ToDo : f \in images <=> f < firstErr
            BY <1>2, <2>1, <2>3 DEF OInv, OneByOne, Erring, Failing
        <3>2. Failing \subseteq ToDo /\ \A f \in ToDo : f \in Int
            <4>1. \A i \in DOMAIN toDecode : toDecode[i] \in Frames
                BY <1>2 DEF IInv, TypeOK
            <4>2. Frames \subseteq Int
                BY DEF Frames
            <4>3. QED
                BY <4>1, <4>2 DEF Failing, ToDo
        <3>3. \A g \in Failing : firstErr <= g
            BY <2>1, <3>1, <3>2
        <3>4. images \cap ToDo = {f \in ToDo : \A g \in Failing : f < g}
            <4>1. \A f \in ToDo : f < firstErr <=> \A g \in Failing : f < g
                BY <3>1, <3>2, <3>3
            <4>2. QED
                BY <3>1, <4>1
        <3>5. QED
            BY <2>3, <3>1, <3>3, <3>4
    <2>4. QED
        BY <2>2, <2>3
<1>3. IInv /\ OInv => Outcome
    BY <1>1, <1>2 DEF Outcome
<1>4. Spec => []OInv
    BY InitOutcome, NextOutcome, Invariance, PTL DEF Spec
<1>5. QED
    BY <1>3, <1>4, Invariance, PTL
================================================================================
