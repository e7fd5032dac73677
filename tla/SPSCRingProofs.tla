---------------------------- MODULE SPSCRingProofs ----------------------------
(***************************************************************************)
(* The safety of the ring under the most general pair of callers, for every *)
(* capacity, item set and bound on the items: the per-call lemmas, one per  *)
(* disjunct of Next.                                                        *)
(***************************************************************************)
EXTENDS SPSCRingClient, SPSCRingLemmas, SequenceTheorems

LEMMA NextPreservesRingInv == RingInv /\ [Next]_ringVars => RingInv'
<1> SUFFICES ASSUME RingInv, [Next]_ringVars PROVE RingInv'
    OBVIOUS
<1> USE CapacityPositive
<1>1. CASE ClaimWrite
    BY <1>1, ClaimPreserves DEF ClaimWrite
<1>2. ASSUME NEW max \in 1 .. Capacity, ClaimContiguous(max) PROVE RingInv'
    BY <1>2, ClaimPreserves
<1>3. ASSUME NEW item \in Items, WriteSlot(item) PROVE RingInv'
    BY <1>3, WritePreserves
<1>4. CASE filled >= 1 /\ CommitWrite
    <2>1. 1 \in 0 .. filled
        BY <1>4 DEF RingInv, RingTypeOK
    <2> QED
        BY <1>4, <2>1, CommitBatchPreserves DEF CommitWrite
<1>5. ASSUME NEW n \in 1 .. filled, CommitBatch(n) PROVE RingInv'
    <2>1. n \in 0 .. filled
        BY <1>5 DEF RingInv, RingTypeOK
    <2> QED
        BY <1>5, <2>1, CommitBatchPreserves
<1>6. ASSUME NEW h \in seen_head .. head, DepthByProducer(h) PROVE RingInv'
    BY <1>6, DepthByProducerPreserves
<1>7. CASE PeekRead
    BY <1>7, PeekPreserves
<1>8. CASE peeked = 1 /\ CommitRead
    BY <1>8, CommitReadPreserves
<1>9. ASSUME NEW t \in seen_tail .. tail, DepthByConsumer(t) PROVE RingInv'
    BY <1>9, DepthByConsumerPreserves
<1>10. CASE UNCHANGED ringVars
    BY <1>10, RingStutter
<1> QED
    BY <1>1, <1>2, <1>3, <1>4, <1>5, <1>6, <1>7, <1>8, <1>9, <1>10
    DEF Next, Producer, Consumer

\* The invariant the four safety theorems below rest on.
THEOREM RingInvariant == Spec => []RingInv
<1>1. Init => RingInv
    BY RingInitInv DEF Init
<1> QED
    BY <1>1, NextPreservesRingInv, PTL DEF Spec

\* The counters, caches and holdings keep their types; a run never exceeds the ring.
THEOREM RingTypeCorrect == Spec => []RingTypeOK
<1>1. RingInv => RingTypeOK
    BY DEF RingInv
<1> QED
    BY <1>1, RingInvariant, PTL

\* No slot handed to the producer holds an item the consumer has yet to read.
THEOREM ClaimsArePrivate == Spec => []ClaimedSlotsArePrivate
<1>1. RingInv => ClaimedSlotsArePrivate
    BY RingInvIsSafe
<1> QED
    BY <1>1, RingInvariant, PTL

\* Every access to a slot is ordered after the other side's last access to it.
THEOREM SlotAccessesAreOrdered == Spec => []NoDataRace
<1>1. RingInv => NoDataRace
    BY RingInvIsSafe
<1> QED
    BY <1>1, RingInvariant, PTL

\* A run handed out ends at or before the end of the slot array.
THEOREM RunsStayInArray == Spec => []RunStaysInArray
<1>1. RingInv => RunStaysInArray
    BY RingInvIsSafe
<1> QED
    BY <1>1, RingInvariant, PTL

\* Depth() is between 0 and the capacity, called from either thread.
THEOREM DepthIsADepth == Spec => []DepthInRange
<1>1. RingInv => DepthInRange
    BY RingInvIsSafe
<1> QED
    BY <1>1, RingInvariant, PTL
----
\* The ring is a bounded FIFO: what the counters and slots stand for moves only by the
\* steps of the queue.
Cells == Items \cup {Blank}

Buffers == [0 .. Capacity - 1 -> Cells]

\* What a run of slots holds, in whatever state the array is.
Held(b, first, n) == [i \in 1 .. n |-> b[Index(first + i - 1)]]

LEMMA WindowIsHeld ==
    ASSUME NEW first, NEW n
    PROVE  Window(first, n) = Held(buffer, first, n)
BY DEF Window, Held

LEMMA HeldIsSequence ==
    ASSUME NEW b \in Buffers, NEW first \in Nat, NEW n \in Nat
    PROVE  /\ Held(b, first, n) \in Seq(Cells)
           /\ Len(Held(b, first, n)) = n
           /\ \A i \in 1 .. n : Held(b, first, n)[i] = b[Index(first + i - 1)]
<1> DEFINE h == Held(b, first, n)
<1>1. ASSUME NEW i \in 1 .. n PROVE b[Index(first + i - 1)] \in Cells
    <2>1. first + i - 1 \in Nat
        OBVIOUS
    <2>2. Index(first + i - 1) \in 0 .. Capacity - 1
        BY <2>1, IndexInArray
    <2> QED
        BY <2>2 DEF Buffers
<1>2. h = [i \in 1 .. n |-> b[Index(first + i - 1)]]
    BY DEF Held
<1> HIDE DEF h
<1>3. h \in [1 .. n -> Cells] /\ \A i \in 1 .. n : h[i] = b[Index(first + i - 1)]
    BY <1>1, <1>2
<1>4. h \in Seq(Cells) /\ Len(h) = n
    BY <1>3
<1> QED
    BY <1>3, <1>4 DEF h

LEMMA NothingHeld ==
    ASSUME NEW b, NEW first
    PROVE  Held(b, first, 0) = <<>>
BY DEF Held

\* A slot outside the run does not change what the run holds.
LEMMA WriteOutside ==
    ASSUME NEW b \in Buffers, NEW first \in Nat, NEW n \in Nat, NEW p \in Nat, NEW item,
           first + n <= p, p < first + Capacity
    PROVE  Held([b EXCEPT ![Index(p)] = item], first, n) = Held(b, first, n)
<1> DEFINE after == [b EXCEPT ![Index(p)] = item]
<1>1. ASSUME NEW i \in 1 .. n
      PROVE  after[Index(first + i - 1)] = b[Index(first + i - 1)]
    <2>1. /\ first + i - 1 \in Nat
          /\ first + i - 1 < p /\ p < (first + i - 1) + Capacity
          /\ Capacity \in Nat
        BY CapacityPositive
    <2>2. Index(first + i - 1) # Index(p)
        BY <2>1, SlotsWithinALapDiffer
    <2>3. Index(first + i - 1) \in 0 .. Capacity - 1
        BY <2>1, IndexInArray
    <2> QED
        BY <2>2, <2>3 DEF Buffers
<1> HIDE DEF after
<1>2. Held(after, first, n) = Held(b, first, n)
    BY <1>1 DEF Held
<1> QED
    BY <1>2 DEF after

\* The slot behind a run extends what it holds by one item.
LEMMA HeldAppend ==
    ASSUME NEW b \in Buffers, NEW first \in Nat, NEW n \in Nat
    PROVE  Held(b, first, n + 1) = Append(Held(b, first, n), b[Index(first + n)])
<1> DEFINE last == b[Index(first + n)]
           s == Held(b, first, n)
           t == Held(b, first, n + 1)
<1>1. /\ s \in Seq(Cells) /\ Len(s) = n
      /\ \A i \in 1 .. n : s[i] = b[Index(first + i - 1)]
    BY HeldIsSequence
<1>2. /\ t \in Seq(Cells) /\ Len(t) = n + 1
      /\ \A i \in 1 .. n + 1 : t[i] = b[Index(first + i - 1)]
    <2>1. n + 1 \in Nat
        OBVIOUS
    <2> QED
        BY <2>1, HeldIsSequence
<1>3. last \in Cells
    <2>1. first + n \in Nat
        OBVIOUS
    <2>2. Index(first + n) \in 0 .. Capacity - 1
        BY <2>1, IndexInArray
    <2> QED
        BY <2>2 DEF Buffers
<1>4. t[n + 1] = last
    <2>1. n + 1 \in 1 .. n + 1 /\ first + (n + 1) - 1 = first + n
        OBVIOUS
    <2> QED
        BY <1>2, <2>1
<1> HIDE DEF s, t, last
<1>5. /\ Append(s, last) \in Seq(Cells) /\ Len(Append(s, last)) = n + 1
      /\ \A i \in 1 .. n : Append(s, last)[i] = s[i]
      /\ Append(s, last)[n + 1] = last
    BY <1>1, <1>3, AppendProperties
<1>6. ASSUME NEW i \in 1 .. n + 1 PROVE t[i] = Append(s, last)[i]
    <2>1. i \in 1 .. n \/ i = n + 1
        OBVIOUS
    <2>2. CASE i \in 1 .. n
        BY <1>1, <1>2, <1>5, <2>2
    <2> QED
        BY <1>4, <1>5, <2>1, <2>2
<1>7. t = Append(s, last)
    BY <1>2, <1>5, <1>6, SeqEqual
<1> QED
    BY <1>7 DEF s, t, last

\* Two adjacent runs hold what their union holds.
LEMMA HeldConcat ==
    ASSUME NEW b \in Buffers, NEW first \in Nat, NEW m \in Nat, NEW n \in Nat
    PROVE  Held(b, first, m + n) = Held(b, first, m) \o Held(b, first + m, n)
<1> DEFINE s == Held(b, first, m)
           t == Held(b, first + m, n)
           u == Held(b, first, m + n)
<1>1. first + m \in Nat /\ m + n \in Nat
    OBVIOUS
<1>2. /\ s \in Seq(Cells) /\ Len(s) = m
      /\ \A i \in 1 .. m : s[i] = b[Index(first + i - 1)]
    BY HeldIsSequence
<1>3. /\ t \in Seq(Cells) /\ Len(t) = n
      /\ \A i \in 1 .. n : t[i] = b[Index((first + m) + i - 1)]
    BY <1>1, HeldIsSequence
<1>4. /\ u \in Seq(Cells) /\ Len(u) = m + n
      /\ \A i \in 1 .. m + n : u[i] = b[Index(first + i - 1)]
    BY <1>1, HeldIsSequence
<1> HIDE DEF s, t, u
<1>5. /\ s \o t \in Seq(Cells) /\ Len(s \o t) = m + n
      /\ \A i \in 1 .. m + n : (s \o t)[i] = IF i <= m THEN s[i] ELSE t[i - m]
    BY <1>2, <1>3, ConcatProperties, ZenonT(40)
<1>6. ASSUME NEW i \in 1 .. m + n PROVE u[i] = (s \o t)[i]
    <2>3. i \in 1 .. m + n /\ ((i <= m /\ i \in 1 .. m) \/ i > m)
        BY <1>1
    <2>1. CASE i <= m /\ i \in 1 .. m
        BY <1>2, <1>4, <1>5, <2>1
    <2>2. CASE i > m
        <3>1. i - m \in 1 .. n /\ (first + m) + (i - m) - 1 = first + i - 1
            BY <1>1, <2>2
        <3>2. t[i - m] = b[Index(first + i - 1)]
            BY <1>3, <3>1
        <3> QED
            <4>1. (s \o t)[i] = t[i - m]
                BY <1>5, <2>2, <2>3
            <4>2. u[i] = b[Index(first + i - 1)]
                BY <1>4, <2>3
            <4> QED
                BY <3>2, <4>1, <4>2
    <2> QED
        BY <2>1, <2>2, <2>3
<1>7. u = s \o t
    BY <1>4, <1>5, <1>6, SeqEqual
<1> QED
    BY <1>7 DEF s, t, u

\* The first n items of a run, and the run without its first item.
LEMMA HeldPrefix ==
    ASSUME NEW b \in Buffers, NEW first \in Nat, NEW m \in Nat, NEW n \in 0 .. m
    PROVE  SubSeq(Held(b, first, m), 1, n) = Held(b, first, n)
<1> DEFINE s == Held(b, first, m)
           t == Held(b, first, n)
<1>1. /\ s \in Seq(Cells) /\ Len(s) = m
      /\ \A i \in 1 .. m : s[i] = b[Index(first + i - 1)]
    BY HeldIsSequence
<1>2. /\ t \in Seq(Cells) /\ Len(t) = n
      /\ \A i \in 1 .. n : t[i] = b[Index(first + i - 1)]
    BY HeldIsSequence
<1> HIDE DEF s, t
<1>3. /\ SubSeq(s, 1, n) \in Seq(Cells)
      /\ Len(SubSeq(s, 1, n)) = n
      /\ \A i \in 1 .. n : SubSeq(s, 1, n)[i] = s[i]
    BY <1>1
<1>4. SubSeq(s, 1, n) = t
    BY <1>1, <1>2, <1>3, SeqEqual
<1> QED
    BY <1>4 DEF s, t

LEMMA HeldTail ==
    ASSUME NEW b \in Buffers, NEW first \in Nat, NEW m \in Nat, m > 0
    PROVE  /\ Held(b, first, m) # <<>>
           /\ Tail(Held(b, first, m)) = Held(b, first + 1, m - 1)
<1> DEFINE s == Held(b, first, m)
           t == Held(b, first + 1, m - 1)
<1>1. /\ s \in Seq(Cells) /\ Len(s) = m
      /\ \A i \in 1 .. m : s[i] = b[Index(first + i - 1)]
    BY HeldIsSequence
<1>2. /\ t \in Seq(Cells) /\ Len(t) = m - 1
      /\ \A i \in 1 .. m - 1 : t[i] = b[Index((first + 1) + i - 1)]
    <2>1. first + 1 \in Nat /\ m - 1 \in Nat
        OBVIOUS
    <2> QED
        BY <2>1, HeldIsSequence
<1> HIDE DEF s, t
<1>3. s # <<>>
    BY <1>1, EmptySeq
<1>4. /\ Tail(s) \in Seq(Cells) /\ Len(Tail(s)) = m - 1
      /\ \A i \in 1 .. m - 1 : Tail(s)[i] = s[i + 1]
    BY <1>1, <1>3, HeadTailProperties
<1>5. ASSUME NEW i \in 1 .. m - 1 PROVE Tail(s)[i] = t[i]
    <2>1. i + 1 \in 1 .. m /\ first + (i + 1) - 1 = (first + 1) + i - 1
        OBVIOUS
    <2> QED
        BY <1>1, <1>2, <1>4, <2>1
<1>6. Tail(s) = t
    BY <1>2, <1>4, <1>5, SeqEqual
<1> QED
    BY <1>3, <1>6 DEF s, t
\* What the queue and the staged items are, before a step and after it.
LEMMA AbstractState ==
    /\ Window(head, tail - head) = Held(buffer, head, tail - head)
    /\ Window(tail, filled) = Held(buffer, tail, filled)
    /\ Window(head, tail - head)' = Held(buffer', head', tail' - head')
    /\ Window(tail, filled)' = Held(buffer', tail', filled')
BY DEF Window, Held

LEMMA CountersAndSlots ==
    RingInv => /\ head \in Nat /\ tail \in Nat /\ filled \in Nat /\ tail - head \in Nat
               /\ tail + filled \in Nat /\ buffer \in Buffers
BY DEF RingInv, RingTypeOK, CountersInOrder, Buffers, Cells

LEMMA ClaimIsRestart ==
    ASSUME RingInv, NEW max, ClaimContiguous(max)
    PROVE  FIFO!Restart
<1>1. UNCHANGED <<head, tail, buffer>> /\ filled' = 0
    BY DEF ClaimContiguous, consumerVars
<1>2. Held(buffer', tail', filled') = <<>>
    BY <1>1, NothingHeld
<1> QED
    BY <1>1, <1>2, AbstractState DEF FIFO!Restart

LEMMA WriteIsStage ==
    ASSUME RingInv, NEW item \in Items, WriteSlot(item)
    PROVE  FIFO!Stage(item)
<1> DEFINE end == tail + filled
<1>1. /\ head' = head /\ tail' = tail /\ filled' = filled + 1
      /\ buffer' = [buffer EXCEPT ![Index(end)] = item]
      /\ end < head + Capacity /\ Capacity \in Nat
    BY CapacityPositive DEF WriteSlot, consumerVars, RingInv, RingTypeOK, CountersInOrder
<1>2. /\ head \in Nat /\ tail \in Nat /\ filled \in Nat /\ tail - head \in Nat
      /\ end \in Nat /\ buffer \in Buffers
      /\ head + (tail - head) = tail
    BY CountersAndSlots
<1>3. Index(end) \in 0 .. Capacity - 1
    BY <1>2, IndexInArray
<1>4. buffer' \in Buffers /\ buffer'[Index(end)] = item
    BY <1>1, <1>2, <1>3 DEF Buffers, Cells
<1> HIDE DEF end
<1>5. Held(buffer', head, tail - head) = Held(buffer, head, tail - head)
    <2>1. head + (tail - head) <= end /\ end < head + Capacity
        BY <1>1, <1>2 DEF end
    <2>2. Held([buffer EXCEPT ![Index(end)] = item], head, tail - head)
            = Held(buffer, head, tail - head)
        BY <1>2, <2>1, WriteOutside
    <2> QED
        BY <1>1, <2>2
<1>6. Held(buffer', tail, filled + 1) = Append(Held(buffer, tail, filled), item)
    <2>1. Held(buffer', tail, filled) = Held(buffer, tail, filled)
        <3>1. tail + filled <= end /\ end < tail + Capacity
            BY <1>1, <1>2 DEF end
        <3>2. Held([buffer EXCEPT ![Index(end)] = item], tail, filled)
                = Held(buffer, tail, filled)
            BY <1>2, <3>1, WriteOutside
        <3> QED
            BY <1>1, <3>2
    <2>2. Held(buffer', tail, filled + 1)
            = Append(Held(buffer', tail, filled), buffer'[Index(tail + filled)])
        BY <1>2, <1>4, HeldAppend
    <2> QED
        BY <1>4, <2>1, <2>2 DEF end
<1>7. Len(Held(buffer, head, tail - head)) + Len(Held(buffer, tail, filled)) < Capacity
    <2>1. /\ Len(Held(buffer, head, tail - head)) = tail - head
          /\ Len(Held(buffer, tail, filled)) = filled
        BY <1>2, HeldIsSequence
    <2> QED
        BY <1>1, <1>2, <2>1 DEF end
<1> QED
    BY <1>1, <1>5, <1>6, <1>7, AbstractState DEF FIFO!Stage

LEMMA CommitIsPublish ==
    ASSUME RingInv, NEW n \in 1 .. filled, CommitBatch(n)
    PROVE  \E k \in 1 .. Len(Window(tail, filled)) : FIFO!Publish(k)
<1>1. /\ head' = head /\ tail' = tail + n /\ filled' = 0 /\ buffer' = buffer
    BY DEF CommitBatch, consumerVars
<1>2. /\ head \in Nat /\ tail \in Nat /\ filled \in Nat /\ tail - head \in Nat
      /\ buffer \in Buffers
      /\ n \in Nat /\ n \in 0 .. filled
      /\ (tail + n) - head = (tail - head) + n /\ head + (tail - head) = tail
    BY CountersAndSlots
<1>3. Held(buffer, head, (tail - head) + n)
        = Held(buffer, head, tail - head) \o Held(buffer, tail, n)
    <2>1. Held(buffer, head, (tail - head) + n)
            = Held(buffer, head, tail - head) \o Held(buffer, head + (tail - head), n)
        BY <1>2, HeldConcat, ZenonT(40)
    <2> QED
        BY <1>2, <2>1
<1>4. SubSeq(Held(buffer, tail, filled), 1, n) = Held(buffer, tail, n)
    BY <1>2, HeldPrefix
<1>5. Held(buffer', tail', filled') = <<>>
    BY <1>1, NothingHeld
<1>6. FIFO!Publish(n)
    BY <1>1, <1>2, <1>3, <1>4, <1>5, AbstractState DEF FIFO!Publish
<1>7. Len(Window(tail, filled)) = filled
    BY <1>2, HeldIsSequence, AbstractState
<1> QED
    BY <1>6, <1>7

LEMMA CommitReadIsRelease ==
    ASSUME RingInv, peeked = 1, CommitRead
    PROVE  FIFO!Release
<1>1. head' = head + 1 /\ tail' = tail /\ filled' = filled /\ buffer' = buffer
    BY DEF CommitRead, producerVars
<1>2. /\ head \in Nat /\ tail - head \in Nat /\ tail - head > 0 /\ buffer \in Buffers
      /\ tail - (head + 1) = (tail - head) - 1
    BY CountersAndSlots DEF RingInv, RingTypeOK, CountersInOrder
<1>3. /\ Held(buffer, head, tail - head) # <<>>
      /\ Tail(Held(buffer, head, tail - head)) = Held(buffer, head + 1, (tail - head) - 1)
    BY <1>2, HeldTail
<1> QED
    BY <1>1, <1>2, <1>3, AbstractState DEF FIFO!Release

\* Every call on the ring is a step of the bounded FIFO, or leaves it as it was.
LEMMA NextIsAFIFOStep == RingInv /\ [Next]_ringVars => [FIFO!Next]_FIFO!fifoVars
<1> SUFFICES ASSUME RingInv, [Next]_ringVars PROVE [FIFO!Next]_FIFO!fifoVars
    OBVIOUS
<1> USE DEF FIFO!Next
<1>1. ASSUME NEW max, ClaimContiguous(max) PROVE FIFO!Next
    BY <1>1, ClaimIsRestart
<1>2. ASSUME NEW item \in Items, WriteSlot(item) PROVE FIFO!Next
    BY <1>2, WriteIsStage
<1>3. ASSUME NEW n \in 1 .. filled, CommitBatch(n) PROVE FIFO!Next
    BY <1>3, CommitIsPublish
<1>4. CASE filled >= 1 /\ CommitWrite
    <2>1. 1 \in 1 .. filled
        BY <1>4, CountersAndSlots
    <2> QED
        BY <1>3, <1>4, <2>1 DEF CommitWrite
<1>5. CASE peeked = 1 /\ CommitRead
    BY <1>5, CommitReadIsRelease
<1>6. CASE \/ PeekRead \/ UNCHANGED ringVars
           \/ \E h \in seen_head .. head : DepthByProducer(h)
           \/ \E t \in seen_tail .. tail : DepthByConsumer(t)
    <2>1. UNCHANGED <<head, tail, filled, buffer>>
        BY <1>6 DEF PeekRead, DepthByProducer, DepthByConsumer, producerVars, consumerVars,
                    ringVars
    <2> QED
        BY <2>1, AbstractState DEF FIFO!fifoVars
<1> QED
    BY <1>1, <1>2, <1>3, <1>4, <1>5, <1>6 DEF Next, Producer, Consumer, ClaimWrite

\* For every capacity and every legal pair of callers the ring is a FIFO queue: items come
\* out in the order they were committed, each once, and a commit publishes what was written.
THEOREM RingIsAFIFO == Spec => ImplementsFIFO
<1>1. Init => FIFO!Init
    BY NothingHeld, AbstractState DEF Init, RingInit, FIFO!Init
<1> QED
    BY <1>1, NextIsAFIFOStep, RingInvariant, PTL DEF Spec, ImplementsFIFO, FIFO!Spec
===============================================================================
