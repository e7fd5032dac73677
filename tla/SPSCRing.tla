------------------------------- MODULE SPSCRing -------------------------------
(***************************************************************************)
(* fh_lob::SPSCRingBuffer (include/receiver/spsc_buffer.h): the lock-free   *)
(* single-producer single-consumer ring between the receiver's two          *)
(* threads. One operator per member function, each the state change of one  *)
(* whole call; SPSCRingClient lets an arbitrary producer and consumer call  *)
(* them, Receiver lets the program's two threads call them.                 *)
(*                                                                          *)
(* head and tail count cumulatively in 64 bits and never wrap in a run, so  *)
(* they are naturals here. An acquire load of the peer's counter may return *)
(* any value the peer stored, from the newest one this thread has already   *)
(* seen (coherence) up to the current one: seen_head and seen_tail are that *)
(* floor. They are also the happens-before frontier: everything the peer    *)
(* did before it stored that value is visible to this thread, and nothing   *)
(* later need be.                                                           *)
(***************************************************************************)
EXTENDS Integers, Sequences, FiniteSetsExt

CONSTANTS
    Items,      \* what a slot can hold (T)
    Blank,      \* what a slot holds before its first use
    Capacity    \* slots (the capacity template parameter)

\* static_assert: a power of two, and at least 2.
ASSUME CapacityAssumption ==
    /\ Capacity \in Nat
    /\ Capacity >= 2
    /\ \E k \in 1 .. Capacity : Capacity = 2 ^ k

ASSUME BlankAssumption == Blank \notin Items

VARIABLES
    tail,           \* ProducerBlock::tail, items ever committed
    cached_head,    \* ProducerBlock::cached_head
    head,           \* ConsumerBlock::head, items ever released
    cached_tail,    \* ConsumerBlock::cached_tail
    buffer,         \* buffer_
    seen_head,      \* newest head the producer thread has acquired
    seen_tail,      \* newest tail the consumer thread has acquired
    claimed,        \* length of the run the producer holds (0: none)
    filled,         \* slots of that run it has written
    peeked          \* slots the consumer holds, 1 from PeekRead to CommitRead, else 0

producerVars == <<tail, cached_head, seen_head, claimed, filled>>
consumerVars == <<head, cached_tail, seen_tail, peeked>>
ringVars == <<tail, cached_head, head, cached_tail, buffer,
              seen_head, seen_tail, claimed, filled, peeked>>

\* Capacity is a power of two, so masking a counter is taking its remainder.
Index(position) == position % Capacity

RingInit ==
    /\ tail = 0
    /\ cached_head = 0
    /\ head = 0
    /\ cached_tail = 0
    /\ buffer = [i \in 0 .. Capacity - 1 |-> Blank]
    /\ seen_head = 0
    /\ seen_tail = 0
    /\ claimed = 0
    /\ filled = 0
    /\ peeked = 0

----
\* The producer half.

\* Deviation: a relaxed load orders nothing the consumer did before the producer's next
\* writes.
LoadHeadRelaxed(h) == UNCHANGED seen_head
LoadHead(h) == seen_head' = h

\* Deviation: off by one.
FreeSlotsOneTooMany(h) == Capacity + 1 - (tail - h)
FreeSlots(h) == Capacity - (tail - h)

\* Deviation: the end of the array is forgotten.
RunLengthAcrossTheEnd(max, free) == Min({max, free})
\* The run is capped at max, at the free space, and at the end of the array.
RunLength(max, free) == Min({max, free, Capacity - Index(tail)})

\* Space according to the cached head; only when that says "full" is the consumer's
\* counter loaded. A run of length 0 is the "ring is full" answer.
ClaimContiguous(max) ==
    /\ \/ /\ FreeSlots(cached_head) # 0
          /\ claimed' = RunLength(max, FreeSlots(cached_head))
          /\ UNCHANGED <<cached_head, seen_head>>
       \/ /\ FreeSlots(cached_head) = 0
          /\ \E h \in seen_head .. head :
                /\ LoadHead(h)
                /\ cached_head' = h
                /\ claimed' = RunLength(max, FreeSlots(h))
    /\ filled' = 0
    /\ UNCHANGED <<tail, buffer, consumerVars>>

\* ClaimWrite tests tail - cached_head == capacity where ClaimContiguous tests for no
\* free slot, and hands out one slot: a run of length one, or nullptr for none.
ClaimWrite == ClaimContiguous(1)

\* Deviation: the caller does not stop at the end of its run.
WriteSlotPastTheRun(item) ==
    /\ buffer' = [buffer EXCEPT ![Index(tail + filled)] = item]
    /\ filled' = filled + 1
    /\ UNCHANGED <<tail, cached_head, seen_head, claimed, consumerVars>>
\* The caller writes the next slot of its run, in place.
WriteSlot(item) ==
    /\ filled < claimed
    /\ buffer' = [buffer EXCEPT ![Index(tail + filled)] = item]
    /\ filled' = filled + 1
    /\ UNCHANGED <<tail, cached_head, seen_head, claimed, consumerVars>>

\* Deviation: a short batch publishes the whole run.
CommitWholeRun(n) ==
    /\ tail' = tail + claimed
    /\ claimed' = 0
    /\ filled' = 0
    /\ UNCHANGED <<cached_head, seen_head, buffer, consumerVars>>
\* A release store: the slots written before it are published with it.
CommitBatch(n) ==
    /\ tail' = tail + n
    /\ claimed' = 0
    /\ filled' = 0
    /\ UNCHANGED <<cached_head, seen_head, buffer, consumerVars>>

CommitWrite == CommitBatch(1)

----
\* The consumer half.

LoadTail(t) == seen_tail' = t

\* PeekRead hands out one slot, unless the tail it knows says the ring is empty.
Readable(t) == IF head = t THEN 0 ELSE 1

\* Deviation: nullptr from the cached tail alone, the reload forgotten.
PeekReadFromCache ==
    /\ peeked' = Readable(cached_tail)
    /\ UNCHANGED <<head, cached_tail, seen_tail, buffer, producerVars>>
\* The cached tail answers unless it says "empty"; then the producer's counter is loaded.
PeekRead ==
    /\ \/ /\ head # cached_tail
          /\ peeked' = 1
          /\ UNCHANGED <<cached_tail, seen_tail>>
       \/ /\ head = cached_tail
          /\ \E t \in seen_tail .. tail :
                /\ LoadTail(t)
                /\ cached_tail' = t
                /\ peeked' = Readable(t)
    /\ UNCHANGED <<head, buffer, producerVars>>

\* A release store: the consumer is done with the slot when the producer sees it.
CommitRead ==
    /\ head' = head + 1
    /\ peeked' = 0
    /\ UNCHANGED <<cached_tail, seen_tail, buffer, producerVars>>

----
\* Depth(), from either thread: its own counter exactly, the peer's by an acquire load.

DepthFromProducer(h) == tail - h
DepthFromConsumer(t) == t - head

DepthByProducer(h) ==
    /\ LoadHead(h)
    /\ UNCHANGED <<tail, cached_head, claimed, filled, buffer, consumerVars>>

DepthByConsumer(t) ==
    /\ LoadTail(t)
    /\ UNCHANGED <<head, cached_tail, peeked, buffer, producerVars>>

----
\* What must always hold, whoever the callers are.

Slots(first, last) == {Index(p) : p \in first .. last}

\* The types of the ring's fields and of the two callers' holdings.
RingTypeOK ==
    /\ tail \in Nat
    /\ cached_head \in Nat
    /\ head \in Nat
    /\ cached_tail \in Nat
    /\ buffer \in [0 .. Capacity - 1 -> Items \cup {Blank}]
    /\ seen_head \in Nat
    /\ seen_tail \in Nat
    /\ claimed \in 0 .. Capacity
    /\ filled \in 0 .. claimed
    /\ peeked \in 0 .. 1

\* "A claimed slot stays private to the producer until it is committed": no slot of the
\* run handed out holds an item the consumer has yet to read, whatever stale value of
\* head the claim was computed from.
ClaimedSlotsArePrivate ==
    Slots(tail, tail + claimed - 1) \cap Slots(head, tail - 1) = {}

\* "No external synchronisation is needed between the two": each slot about to be
\* rewritten was released by a read the producer has acquired, and the slot the consumer
\* reads was committed by a store the consumer has acquired. Without this the accesses
\* to one slot are unordered, a data race, even if the counters' values happen to agree.
NoDataRace ==
    /\ tail + claimed <= seen_head + Capacity
    /\ head + peeked <= seen_tail

\* ReceiveLoop indexes arrays that mirror the ring with WriteIndex() + i for every slot
\* of a run: the run never wraps past the end of them.
RunStaysInArray == Index(tail) + claimed <= Capacity

\* "tail - head is the exact queue depth": whichever value of the peer's counter the load
\* returns, Depth() lies between 0 and Capacity, where an inconsistent pair of counters
\* would make the unsigned difference a number near 2^64.
DepthInRange ==
    /\ \A h \in seen_head .. head : DepthFromProducer(h) \in 0 .. Capacity
    /\ \A t \in seen_tail .. tail : DepthFromConsumer(t) \in 0 .. Capacity
===============================================================================
