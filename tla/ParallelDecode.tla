----------------------------- MODULE ParallelDecode -----------------------------
(***************************************************************************)
(* Animation.DecodeFrames and DecodeFramesParallel                          *)
(* (src/animation/animation.go). The first decodes the frames still without *)
(* an image one after the other. The second hands them out through a channel *)
(* that is filled and closed before the workers start; the workers send what *)
(* they decoded to a second channel, which a further goroutine closes when  *)
(* all of them are done, and which the caller drains.                       *)
(*                                                                          *)
(* The decoder is external: a frame's bitstream decodes or it does not.     *)
(* The channel work is the part of toDecode from position next on; results  *)
(* is a buffered channel, first in first out.                               *)
(***************************************************************************)
EXTENDS Integers, Sequences, FiniteSets

CONSTANTS NumFrames,    \* len(a.Frames)
          Procs         \* the goroutines GOMAXPROCS(0) allows at a time

ASSUME ParallelDecodeAssumption ==
    NumFrames \in Nat /\ IsFiniteSet(Procs) /\ Procs # {}

Frames == 1 .. NumFrames

VARIABLES
    broken,     \* frames whose bitstream does not decode
    images,     \* frames whose Image is set
    data,       \* frames whose BitstreamData is set
    toDecode,   \* toDecodeIdx
    workers,    \* the goroutines that were started
    caller,     \* where the caller is
    seq,        \* the frame DecodeFrames looks at
    next,       \* what was received from work
    pc, held,   \* a worker's place, and the frame it decodes
    results, resultsOpen,
    firstErr,   \* the frame whose error is returned, 0 for none
    decodes,    \* history: how often a frame's bitstream was decoded
    collected   \* history: what came out of results, in that order

inputs == <<broken, data>>
vars == <<inputs, images, toDecode, workers, caller, seq, next, pc, held,
          results, resultsOpen, firstErr, decodes, collected>>

NoFrame == 0

Init ==
    /\ broken \in SUBSET Frames
    /\ images \in SUBSET Frames
    /\ data \in SUBSET Frames
    /\ toDecode = << >> /\ workers = {}
    /\ caller = "start" /\ seq = 1 /\ next = 1
    /\ pc = [w \in Procs |-> "idle"] /\ held = [w \in Procs |-> NoFrame]
    /\ results = << >> /\ resultsOpen = TRUE
    /\ firstErr = NoFrame
    /\ decodes = [f \in Frames |-> 0] /\ collected = << >>

\* The indices that need decoding, in order.
Pending == {f \in Frames : f \notin images /\ f \in data}
Ascending(S) == {s \in [1 .. Cardinality(S) -> S] : \A i, j \in DOMAIN s : i < j => s[i] < s[j]}

SomeWorkers(n) ==               \* numWorkers of them
    {W \in SUBSET Procs :
        Cardinality(W) = IF Cardinality(Procs) > n THEN n ELSE Cardinality(Procs)}

\* DecodeFrames is called by the program, and by DecodeFramesParallel when there
\* is little to decode; otherwise the latter fills work and starts the workers.
Start ==
    /\ caller = "start"
    /\ toDecode' \in Ascending(Pending)
    /\ LET n == Cardinality(Pending)
       IN  \/ /\ caller' = IF n = 0 THEN "returned" ELSE "sequential"
              /\ UNCHANGED <<workers, pc>>
           \/ /\ n > 2
              /\ caller' = "collect"
              /\ workers' \in SomeWorkers(n)
              /\ pc' = [w \in Procs |-> IF w \in workers' THEN "receive" ELSE "idle"]
    /\ UNCHANGED <<inputs, images, seq, next, held, results, resultsOpen, firstErr, decodes,
                   collected>>

Decode(f) == decodes' = [decodes EXCEPT ![f] = @ + 1]

PastLast(i) == i > NumFrames

\* DecodeFrames: one after the other, up to the first error.
Sequential ==
    /\ caller = "sequential"
    /\ IF PastLast(seq)
       THEN caller' = "returned" /\ UNCHANGED <<seq, images, firstErr, decodes>>
       ELSE IF seq \notin Pending
       THEN seq' = seq + 1 /\ UNCHANGED <<caller, images, firstErr, decodes>>
       ELSE /\ Decode(seq)
            /\ IF seq \in broken
               THEN caller' = "returned" /\ firstErr' = seq /\ UNCHANGED <<seq, images>>
               ELSE seq' = seq + 1 /\ images' = images \cup {seq} /\ UNCHANGED <<caller, firstErr>>
    /\ UNCHANGED <<inputs, toDecode, workers, next, pc, held, results, resultsOpen, collected>>

ReceiveUnclosed(w) ==   \* mutant: work is never closed
    /\ pc[w] = "receive"
    /\ next <= Len(toDecode)
    /\ held' = [held EXCEPT ![w] = toDecode[next]]
    /\ next' = next + 1
    /\ pc' = [pc EXCEPT ![w] = "decode"]
    /\ UNCHANGED <<inputs, images, toDecode, workers, caller, seq, results, resultsOpen,
                   firstErr, decodes, collected>>

\* A worker takes the next index; the channel is closed, so that an empty one
\* ends its loop.
Receive(w) ==
    /\ pc[w] = "receive"
    /\ IF next <= Len(toDecode)
       THEN /\ held' = [held EXCEPT ![w] = toDecode[next]]
            /\ next' = next + 1
            /\ pc' = [pc EXCEPT ![w] = "decode"]
       ELSE /\ pc' = [pc EXCEPT ![w] = "done"]
            /\ UNCHANGED <<held, next>>
    /\ UNCHANGED <<inputs, images, toDecode, workers, caller, seq, results, resultsOpen,
                   firstErr, decodes, collected>>

DecodeHeldAgain(w) ==   \* mutant: a frame that failed is tried again
    /\ pc[w] = "decode"
    /\ Decode(held[w])
    /\ pc' = [pc EXCEPT ![w] = IF held[w] \in broken THEN "decode" ELSE "send"]
    /\ UNCHANGED <<inputs, images, toDecode, workers, caller, seq, next, held, results,
                   resultsOpen, firstErr, collected>>

DecodeHeld(w) ==
    /\ pc[w] = "decode"
    /\ Decode(held[w])
    /\ pc' = [pc EXCEPT ![w] = "send"]
    /\ UNCHANGED <<inputs, images, toDecode, workers, caller, seq, next, held, results,
                   resultsOpen, firstErr, collected>>

CapacityOfWorkers == Cardinality(workers)   \* mutant: one place for each worker
\* results has room for every frame there is to decode.
Capacity == Len(toDecode)
Send(w) ==
    /\ pc[w] = "send"
    /\ Len(results) < Capacity
    /\ results' = Append(results, held[w])
    /\ held' = [held EXCEPT ![w] = NoFrame]
    /\ pc' = [pc EXCEPT ![w] = "receive"]
    /\ UNCHANGED <<inputs, images, toDecode, workers, caller, seq, next, resultsOpen,
                   firstErr, decodes, collected>>

AnyDone == \E w \in workers : pc[w] = "done"    \* mutant: not all of them
AllDone == \A w \in workers : pc[w] = "done"

\* The goroutine that waits for the workers and closes results.
CloseResults ==
    /\ caller = "collect" /\ resultsOpen
    /\ AllDone
    /\ resultsOpen' = FALSE
    /\ UNCHANGED <<inputs, images, toDecode, workers, caller, seq, next, pc, held, results,
                   firstErr, decodes, collected>>

StoreLast(f) ==          \* mutant: a later error replaces the first
    IF f \in broken THEN firstErr' = f /\ UNCHANGED images
    ELSE images' = images \cup {f} /\ UNCHANGED firstErr
Store(f) ==
    IF f \in broken
    THEN /\ firstErr' = IF firstErr = NoFrame THEN f ELSE firstErr
         /\ UNCHANGED images
    ELSE /\ images' = images \cup {f}
         /\ UNCHANGED firstErr

Collect ==
    /\ caller = "collect"
    /\ IF results # << >>
       THEN /\ Store(Head(results))
            /\ results' = Tail(results)
            /\ collected' = Append(collected, Head(results))
            /\ UNCHANGED caller
       ELSE /\ ~resultsOpen
            /\ caller' = "returned"
            /\ UNCHANGED <<images, firstErr, results, collected>>
    /\ UNCHANGED <<inputs, toDecode, workers, seq, next, pc, held, resultsOpen, decodes>>

WorkerStep(w) == Receive(w) \/ DecodeHeld(w) \/ Send(w)

\* The call is over when the caller has returned and no goroutine is left.
Finished == caller = "returned" /\ AllDone /\ UNCHANGED vars

Next ==
    \/ Start \/ Sequential \/ Collect \/ CloseResults
    \/ \E w \in Procs : WorkerStep(w)
    \/ Finished

\* The Go scheduler runs every goroutine that can run.
Fairness ==
    /\ WF_vars(Start) /\ WF_vars(Sequential) /\ WF_vars(Collect) /\ WF_vars(CloseResults)
    /\ \A w \in Procs : WF_vars(WorkerStep(w))
Spec == Init /\ [][Next]_vars /\ Fairness

(***************************************************************************)
(* Properties                                                               *)
(***************************************************************************)

\* Channels and worker states hold what they are declared to hold.
TypeOK ==
    /\ broken \subseteq Frames /\ images \subseteq Frames /\ data \subseteq Frames
    /\ toDecode \in Seq(Frames) /\ workers \subseteq Procs
    /\ caller \in {"start", "sequential", "collect", "returned"}
    /\ seq \in 1 .. NumFrames + 1 /\ next \in 1 .. Len(toDecode) + 1
    /\ pc \in [Procs -> {"idle", "receive", "decode", "send", "done"}]
    /\ held \in [Procs -> Frames \cup {NoFrame}]
    /\ results \in Seq(Frames) /\ resultsOpen \in BOOLEAN
    /\ firstErr \in Frames \cup {NoFrame}
    /\ decodes \in [Frames -> Nat]
    /\ collected \in Seq(Frames)

\* What is under way: taken from work and not yet in results.
Carriers == {w \in Procs : pc[w] \in {"decode", "send"}}

\* A worker that has a result can send it at once: the channel's capacity
\* covers the frames however the caller is delayed (results, make(chan)).
SendNeverBlocks == \A w \in Procs : pc[w] = "send" => Len(results) < Capacity

\* results is closed only when nobody can send any more, which would panic
\* (wg.Wait, close(results)).
NoSendAfterClose == ~resultsOpen => \A w \in Procs : pc[w] \notin {"decode", "send"}

\* When the call returns, it returns no error exactly when all the frames that
\* lacked an image were decoded. In parallel (some workers were started) the
\* frames that have their image are those that decode, whatever failed, and the
\* error is the first that came out of results; one after the other they are
\* the ones before the first that fails, whose error is returned
\* (DecodeFramesParallel, DecodeFrames).
ToDo == {toDecode[i] : i \in DOMAIN toDecode}
Failing == ToDo \cap broken
FirstReceived(f) ==
    \E i \in DOMAIN collected :
        /\ collected[i] = f /\ f \in broken
        /\ \A j \in 1 .. i - 1 : collected[j] \notin broken
Outcome ==
    caller = "returned" =>
        /\ firstErr = NoFrame <=> Failing = {}
        /\ workers # {} =>
              /\ images \cap ToDo = ToDo \ broken
              /\ Failing # {} => FirstReceived(firstErr)
        /\ workers = {} =>
              /\ images \cap ToDo = {f \in ToDo : \A g \in Failing : f < g}
              /\ Failing # {} => firstErr \in Failing /\ \A g \in Failing : firstErr <= g

\* No bitstream is decoded twice (the closed channel work hands out each
\* index once).
DecodedOnce == \A f \in Frames : decodes[f] <= 1

\* The call returns, and leaves no goroutine behind.
Returns == <>[](caller = "returned" /\ \A w \in Procs : pc[w] \in {"idle", "done"})
================================================================================
