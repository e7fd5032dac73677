---------------------------- MODULE SPSCRingLemmas ----------------------------
(***************************************************************************)
(* What each call on the ring preserves, for every capacity and every       *)
(* caller. The lemmas are stated per operation, so the proofs about         *)
(* SPSCRingClient and about the receiver's two threads both rest on them.   *)
(***************************************************************************)
EXTENDS SPSCRing, TLAPS

\* The four counters and their two caches in order: each cache trails what its thread
\* has acquired, which trails what the peer has stored.
CountersInOrder ==
    /\ cached_head <= seen_head
    /\ seen_head <= head
    /\ head <= cached_tail
    /\ cached_tail <= seen_tail
    /\ seen_tail <= tail

\* The inductive invariant of the ring: the run handed out fits the free space as the
\* producer knew it when it claimed, and the slot being read was committed.
RingInv ==
    /\ RingTypeOK
    /\ CountersInOrder
    /\ tail + claimed <= cached_head + Capacity
    /\ Index(tail) + claimed <= Capacity
    /\ head + peeked <= cached_tail

----
\* std::min over three lengths is one of them and no larger than any.
LEMMA MinOfThree ==
    ASSUME NEW a \in Int, NEW b \in Int, NEW c \in Int
    PROVE  /\ Min({a, b, c}) \in Int
           /\ Min({a, b, c}) <= a
           /\ Min({a, b, c}) <= b
           /\ Min({a, b, c}) <= c
           /\ Min({a, b, c}) \in {a, b, c}
<1>1. \E x \in {a, b, c} : \A y \in {a, b, c} : x <= y
    <2>1. CASE a <= b /\ a <= c
        BY <2>1
    <2>2. CASE b <= a /\ b <= c
        BY <2>2
    <2>3. CASE c <= a /\ c <= b
        BY <2>3
    <2> QED
        BY <2>1, <2>2, <2>3
<1> QED
    BY <1>1 DEF Min

LEMMA CapacityPositive == Capacity \in Nat /\ Capacity > 0
BY CapacityAssumption

\* A counter masked by the capacity is an array index.
LEMMA IndexInArray ==
    ASSUME NEW p \in Nat
    PROVE  Index(p) \in 0 .. Capacity - 1
BY CapacityPositive DEF Index

\* Two positions less than one lap apart never share a slot.
LEMMA SlotsWithinALapDiffer ==
    ASSUME NEW p \in Nat, NEW q \in Nat, p < q, q < p + Capacity
    PROVE  Index(p) # Index(q)
<1> DEFINE a == p \div Capacity
           b == q \div Capacity
<1>1. Capacity \in Nat /\ Capacity > 0
    BY CapacityPositive
<1>2. /\ a \in Nat /\ b \in Nat
      /\ p = Capacity * a + Index(p)
      /\ q = Capacity * b + Index(q)
    BY <1>1 DEF Index
<1> SUFFICES ASSUME Index(p) = Index(q) PROVE FALSE
    OBVIOUS
<1>3. q - p = Capacity * (b - a)
    <2>1. Capacity * b - Capacity * a = Capacity * (b - a)
        BY <1>1, <1>2
    <2> QED
        BY <1>1, <1>2, <2>1, IndexInArray
<1>4. b - a \in Int /\ b - a > 0 /\ b - a < 1
    BY <1>1, <1>2, <1>3
<1> QED
    BY <1>4

----
LEMMA RingInitInv == RingInit => RingInv
BY CapacityPositive, IndexInArray DEF RingInit, RingInv, RingTypeOK, CountersInOrder

\* The length of a claim: at least one slot when there is a free one, and never more
\* than the caller asked for, than is free, or than is left of the array.
LEMMA RunLengthBounds ==
    ASSUME NEW max \in Nat, NEW free \in Int, tail \in Nat
    PROVE  /\ RunLength(max, free) \in Int
           /\ RunLength(max, free) <= max
           /\ RunLength(max, free) <= free
           /\ RunLength(max, free) <= Capacity - Index(tail)
           /\ max > 0 /\ free > 0 => RunLength(max, free) > 0
           /\ free = 0 => RunLength(max, free) = 0
<1> DEFINE left == Capacity - Index(tail)
<1>1. left \in Int /\ left > 0
    BY CapacityPositive, IndexInArray
<1>2. /\ RunLength(max, free) \in Int
      /\ RunLength(max, free) <= max
      /\ RunLength(max, free) <= free
      /\ RunLength(max, free) <= left
      /\ RunLength(max, free) \in {max, free, left}
    <2> HIDE DEF left
    <2>1. RunLength(max, free) = Min({max, free, left})
        BY DEF RunLength, left
    <2>2. max \in Int
        OBVIOUS
    <2>3. /\ Min({max, free, left}) \in Int
          /\ Min({max, free, left}) <= max
          /\ Min({max, free, left}) <= free
          /\ Min({max, free, left}) <= left
          /\ Min({max, free, left}) \in {max, free, left}
        BY <1>1, <2>2, MinOfThree, Zenon
    <2> QED
        BY <2>1, <2>3
<1> QED
    BY <1>1, <1>2

\* ClaimContiguous, from the cached head or from a fresh load of any value the peer stored.
LEMMA ClaimPreserves ==
    ASSUME RingInv, NEW max \in Nat \ {0}, ClaimContiguous(max)
    PROVE  RingInv'
<1> DEFINE Room(h) == RunLength(max, FreeSlots(h))
<1> USE DEF RingInv, RingTypeOK, CountersInOrder, FreeSlots
<1>1. Capacity \in Nat /\ Capacity > 0 /\ Index(tail) \in 0 .. Capacity - 1
    BY CapacityPositive, IndexInArray
<1>2. ASSUME NEW h \in cached_head .. head
      PROVE  /\ Room(h) \in 0 .. Capacity
             /\ tail + Room(h) <= h + Capacity
             /\ Index(tail) + Room(h) <= Capacity
    <2>1. FreeSlots(h) \in 0 .. Capacity
        BY <1>1, <1>2
    <2>2. /\ Room(h) \in Int
          /\ Room(h) <= FreeSlots(h)
          /\ Room(h) <= Capacity - Index(tail)
          /\ FreeSlots(h) = 0 => Room(h) = 0
          /\ FreeSlots(h) > 0 => Room(h) > 0
        <3> HIDE DEF FreeSlots
        <3>1. max \in Nat /\ max > 0 /\ FreeSlots(h) \in Int /\ tail \in Nat
            BY <2>1
        <3> QED
            BY <3>1, RunLengthBounds, Zenon
    <2> QED
        BY <1>1, <2>1, <2>2
<1>3. CASE UNCHANGED <<cached_head, seen_head>> /\ claimed' = Room(cached_head)
    <2>1. cached_head \in cached_head .. head
        OBVIOUS
    <2> QED
        BY <1>1, <1>2, <1>3, <2>1 DEF ClaimContiguous, consumerVars
<1>4. ASSUME NEW h \in seen_head .. head,
             LoadHead(h), cached_head' = h, claimed' = Room(h)
      PROVE  RingInv'
    <2>1. h \in cached_head .. head
        OBVIOUS
    <2>2. seen_head' = h
        BY <1>4 DEF LoadHead
    <2> QED
        BY <1>1, <1>2, <1>4, <2>1, <2>2 DEF ClaimContiguous, consumerVars
<1> QED
    BY <1>3, <1>4 DEF ClaimContiguous

LEMMA WritePreserves ==
    ASSUME RingInv, NEW item \in Items, WriteSlot(item)
    PROVE  RingInv'
<1>1. tail + filled \in Nat
    BY DEF RingInv, RingTypeOK
<1>2. Index(tail + filled) \in 0 .. Capacity - 1
    BY <1>1, IndexInArray
<1> QED
    BY <1>2 DEF RingInv, RingTypeOK, CountersInOrder, WriteSlot, consumerVars

\* CommitBatch of any part of what was written, a short receive's prefix among them.
LEMMA CommitBatchPreserves ==
    ASSUME RingInv, NEW n \in 0 .. filled, CommitBatch(n)
    PROVE  RingInv'
<1> USE DEF RingInv, RingTypeOK, CountersInOrder
<1>1. n \in Nat /\ n <= claimed /\ Capacity \in Nat /\ Capacity > 0
    BY CapacityPositive
<1>2. tail' \in Nat
    BY <1>1 DEF CommitBatch
<1>3. Index(tail') \in 0 .. Capacity - 1
    BY <1>2, IndexInArray
<1> QED
    BY <1>1, <1>2, <1>3 DEF CommitBatch, consumerVars

LEMMA PeekPreserves == RingInv /\ PeekRead => RingInv'
BY DEF RingInv, RingTypeOK, CountersInOrder, PeekRead, LoadTail, Readable, producerVars

\* CommitRead, by a consumer that holds a slot.
LEMMA CommitReadPreserves == RingInv /\ peeked = 1 /\ CommitRead => RingInv'
BY DEF RingInv, RingTypeOK, CountersInOrder, CommitRead, producerVars

LEMMA DepthByProducerPreserves ==
    ASSUME RingInv, NEW h \in seen_head .. head, DepthByProducer(h)
    PROVE  RingInv'
BY DEF RingInv, RingTypeOK, CountersInOrder, DepthByProducer, LoadHead, consumerVars

LEMMA DepthByConsumerPreserves ==
    ASSUME RingInv, NEW t \in seen_tail .. tail, DepthByConsumer(t)
    PROVE  RingInv'
BY DEF RingInv, RingTypeOK, CountersInOrder, DepthByConsumer, LoadTail, producerVars

LEMMA RingStutter == RingInv /\ UNCHANGED ringVars => RingInv'
BY DEF RingInv, RingTypeOK, CountersInOrder, ringVars

----
\* What the inductive invariant gives the callers.
LEMMA RingInvIsSafe ==
    RingInv => /\ ClaimedSlotsArePrivate
               /\ NoDataRace
               /\ RunStaysInArray
               /\ DepthInRange
<1> SUFFICES ASSUME RingInv
             PROVE  /\ ClaimedSlotsArePrivate
                    /\ NoDataRace
                    /\ RunStaysInArray
                    /\ DepthInRange
    OBVIOUS
<1> USE DEF RingInv, RingTypeOK, CountersInOrder
<1>1. Capacity \in Nat
    BY CapacityPositive
<1>2. ClaimedSlotsArePrivate
    <2> SUFFICES ASSUME NEW p \in head .. tail - 1,
                        NEW q \in tail .. tail + claimed - 1,
                        Index(p) = Index(q)
                 PROVE  FALSE
        BY DEF ClaimedSlotsArePrivate, Slots
    <2>1. p \in Nat /\ q \in Nat /\ p < q /\ q < p + Capacity
        BY <1>1
    <2> QED
        BY <2>1, SlotsWithinALapDiffer
<1>3. NoDataRace
    BY <1>1 DEF NoDataRace
<1>4. RunStaysInArray
    BY DEF RunStaysInArray
<1>5. DepthInRange
    BY <1>1 DEF DepthInRange, DepthFromProducer, DepthFromConsumer
<1> QED
    BY <1>2, <1>3, <1>4, <1>5
===============================================================================
