---------------------------- MODULE SPSCRingClient ----------------------------
(***************************************************************************)
(* The most general pair of callers SPSCRingBuffer's contract allows: one   *)
(* thread calls the producer half in any order (claim, write part of the    *)
(* run, claim again, commit any prefix of what was written), one other      *)
(* thread the consumer half. What holds here holds for the receiver's two   *)
(* threads, which call the same operations in one particular order.         *)
(***************************************************************************)
EXTENDS SPSCRing

CONSTANT MaxItems       \* bound on the items ever written, for the model checker

ASSUME MaxItemsAssumption == MaxItems \in Nat

Producer ==
    \/ ClaimWrite
    \/ \E max \in 1 .. Capacity : ClaimContiguous(max)
    \/ /\ tail + filled < MaxItems
       /\ \E item \in Items : WriteSlot(item)
    \/ filled >= 1 /\ CommitWrite
    \/ \E n \in 1 .. filled : CommitBatch(n)
    \/ \E h \in seen_head .. head : DepthByProducer(h)

Consumer ==
    \/ PeekRead
    \/ peeked = 1 /\ CommitRead
    \/ \E t \in seen_tail .. tail : DepthByConsumer(t)

Init == RingInit

Next == Producer \/ Consumer

Spec == Init /\ [][Next]_ringVars

\* A store becomes visible in finite time, so a consumer that keeps polling eventually
\* loads the current tail; and it releases what it was handed.
PeekFresh == PeekRead /\ (head = cached_tail => cached_tail' = tail)

FairSpec ==
    /\ Spec
    /\ WF_ringVars(PeekFresh)
    /\ WF_ringVars(peeked = 1 /\ CommitRead)

----
\* The queue and the staged items the counters and slots stand for.
Window(first, n) == [i \in 1 .. n |-> buffer[Index(first + i - 1)]]

FIFO == INSTANCE BoundedFIFO WITH
            queue <- Window(head, tail - head),
            staged <- Window(tail, filled)

\* The ring is a bounded FIFO: no call changes a committed, unread item, the consumer
\* meets the items in the order they were written, and a short commit publishes exactly
\* the slots that were filled.
ImplementsFIFO == FIFO!Spec

\* A polling consumer reaches every item ever committed, although it looks at the
\* producer's counter only when its cached copy says the ring is empty.
EveryItemIsRead ==
    \A k \in 1 .. MaxItems : (tail >= k) ~> (head >= k)
===============================================================================
