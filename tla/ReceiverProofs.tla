---------------------------- MODULE ReceiverProofs ----------------------------
(***************************************************************************)
(* The receiver, for every capacity, batch size, packet set and bound on the*)
(* traffic. First, its two threads respect the contract of the ring, and so *)
(* every slot access of the program is ordered. Then, where its packets are *)
(* and what its figures say of them: no packet is lost or repeated, the     *)
(* reported counts add up, and a run that is recorded as ok got to the end  *)
(* of its session.                                                          *)
(*                                                                          *)
(* The inductive invariant of the second part has one conjunct per concern, *)
(* each with a lemma of its own: where the threads are and who stopped whom,*)
(* which packet is in which slot, what the parse loop holds, and the three  *)
(* sets of figures.                                                         *)
(***************************************************************************)
EXTENDS Receiver, SPSCRingLemmas, SequenceTheorems, FiniteSetTheorems

----
(* The contract of the ring                                                 *)

\* What makes the calls legal: the main thread holds a slot wherever it releases one, and
\* every packet ever written was an arrival.
ContractInv ==
    /\ tail \in Nat
    /\ filled \in Nat
    /\ socket \in Seq(Items)
    /\ arrivals \in 0 .. MaxArrivals
    /\ tail + filled + Len(socket) <= arrivals
    /\ main \in {"frame", "messages"} => peeked = 1

\* Every action that leaves the ring alone.
OffRing ==
    \/ \E packet \in Items : Arrive(packet)
    \/ RxCheckDone \/ RxReceiveNothing \/ RxReceiveFails \/ RxAccount \/ RxExit
    \/ ParseCheckDone \/ ParseEndOfSession \/ ParseFrame \/ ParseOneMessage \/ ParseThrows
    \/ StopRx \/ JoinAndClose \/ Terminated

LEMMA OffRingLeavesRing == OffRing => UNCHANGED ringVars
BY DEF OffRing, Arrive, RxCheckDone, RxReceiveNothing, RxReceiveFails, RxAccount, RxExit,
       ParseCheckDone, ParseEndOfSession, ParseFrame, ParseOneMessage, ParseThrows,
       StopRx, JoinAndClose, Terminated, vars

LEMMA NextByRingUse ==
    Next <=> \/ OffRing
             \/ RxClaim \/ RxTakeDatagram \/ RxCommitBatch \/ RxSampleDepth
             \/ ParsePeek \/ ParseRunt \/ ParseFinishPacket
BY DEF Next, OffRing, ReceiveLoop, RunReceiver, ParseLoop

LEMMA ContractInit == Init => ContractInv
BY TrafficAssumption DEF Init, RingInit, ContractInv

LEMMA ContractOffRing == ContractInv /\ OffRing => ContractInv'
<1> SUFFICES ASSUME ContractInv, OffRing PROVE ContractInv'
    OBVIOUS
<1> USE DEF ContractInv
<1>1. UNCHANGED <<tail, filled, peeked>>
    BY OffRingLeavesRing DEF ringVars
<1>2. ASSUME NEW packet \in Items, Arrive(packet) PROVE ContractInv'
    BY <1>1, <1>2, TrafficAssumption DEF Arrive, mainVars
<1>3. CASE \/ RxCheckDone \/ RxReceiveNothing \/ RxReceiveFails \/ RxAccount \/ RxExit
    BY <1>1, <1>3 DEF RxCheckDone, RxReceiveNothing, RxReceiveFails, RxAccount, RxExit,
                      netVars, mainVars
<1>4. CASE \/ ParseCheckDone \/ ParseEndOfSession \/ ParseFrame \/ ParseOneMessage
           \/ ParseThrows \/ StopRx \/ JoinAndClose \/ Terminated
    BY <1>1, <1>4 DEF ParseCheckDone, ParseEndOfSession, ParseFrame, ParseOneMessage,
                      ParseThrows, StopRx, JoinAndClose, Terminated, netVars, vars, mainVars
<1> QED
    BY <1>2, <1>3, <1>4 DEF OffRing

LEMMA ContractOnRing ==
    ASSUME ContractInv,
           \/ RxClaim \/ RxTakeDatagram \/ RxCommitBatch \/ RxSampleDepth
           \/ ParsePeek \/ ParseRunt \/ ParseFinishPacket
    PROVE  ContractInv'
<1> USE DEF ContractInv
<1>1. CASE RxClaim
    BY <1>1 DEF RxClaim, ClaimContiguous, consumerVars, netVars, mainVars
<1>2. CASE RxTakeDatagram
    <2>1. /\ Tail(socket) \in Seq(Items)
          /\ Len(Tail(socket)) = Len(socket) - 1
          /\ Len(socket) \in Nat
        BY <1>2 DEF RxTakeDatagram
    <2> QED
        BY <1>2, <2>1 DEF RxTakeDatagram, WriteSlot, consumerVars, mainVars
<1>3. CASE RxCommitBatch
    BY <1>3 DEF RxCommitBatch, CommitTheBatch, CommitBatch, consumerVars, netVars, mainVars
<1>4. CASE RxSampleDepth
    BY <1>4 DEF RxSampleDepth, DepthByProducer, consumerVars, netVars, mainVars
<1>5. CASE ParsePeek
    BY <1>5 DEF ParsePeek, PeekRead, producerVars, netVars
<1>6. CASE ParseRunt
    BY <1>6 DEF ParseRunt, ReleaseSlot, CommitRead, producerVars, netVars
<1>7. CASE ParseFinishPacket
    BY <1>7 DEF ParseFinishPacket, ReleaseSlot, CommitRead, producerVars, netVars
<1> QED
    BY <1>1, <1>2, <1>3, <1>4, <1>5, <1>6, <1>7

LEMMA NextPreservesContract == ContractInv /\ [Next]_vars => ContractInv'
<1>1. CASE UNCHANGED vars
    BY <1>1 DEF ContractInv, vars, ringVars, netVars, mainVars
<1> QED
    BY <1>1, NextByRingUse, ContractOffRing, ContractOnRing

----
\* The receiver is one of the pairs of callers SPSCRingClient describes.
THEOREM ReceiverUsesTheRingAsAllowed == Spec => UsesTheRingAsAllowed
<1>1. Init => Ring!Init
    BY DEF Init, RingInit, Ring!Init, Ring!RingInit
<1>2. ContractInv /\ [Next]_vars => [Ring!Next]_ringVars
    <2> SUFFICES ASSUME ContractInv, [Next]_vars PROVE [Ring!Next]_ringVars
        OBVIOUS
    <2> USE DEF Ring!Next, Ring!Producer, Ring!Consumer
    <2>1. CASE OffRing \/ UNCHANGED vars
        BY <2>1, OffRingLeavesRing DEF vars
    <2>2. CASE RxClaim
        <3>1. ClaimContiguous(RecvBatch)
            BY <2>2 DEF RxClaim
        <3>2. Ring!ClaimContiguous(RecvBatch)
            BY <3>1 DEF ClaimContiguous, Ring!ClaimContiguous, FreeSlots, Ring!FreeSlots,
                        RunLength, Ring!RunLength, Index, Ring!Index, LoadHead,
                        Ring!LoadHead, Min, Ring!Min, consumerVars, Ring!consumerVars
        <3> QED
            BY <3>2, RecvBatchAssumption
    <2>3. CASE RxTakeDatagram
        <3>1. /\ Head(socket) \in Items
              /\ Len(socket) > 0
            BY <2>3 DEF RxTakeDatagram, ContractInv
        <3>2. tail + filled < MaxArrivals
            BY <3>1, TrafficAssumption DEF ContractInv
        <3>3. Ring!WriteSlot(Head(socket))
            BY <2>3 DEF RxTakeDatagram, WriteSlot, Ring!WriteSlot, Index, Ring!Index,
                        consumerVars, Ring!consumerVars
        <3> QED
            BY <3>1, <3>2, <3>3
    <2>4. CASE RxCommitBatch
        <3>1. filled \in 1 .. filled
            BY <2>4 DEF RxCommitBatch, ContractInv
        <3>2. Ring!CommitBatch(filled)
            BY <2>4 DEF RxCommitBatch, CommitTheBatch, CommitBatch, Ring!CommitBatch,
                        consumerVars, Ring!consumerVars
        <3> QED
            BY <3>1, <3>2
    <2>5. CASE RxSampleDepth
        BY <2>5 DEF RxSampleDepth, DepthByProducer, Ring!DepthByProducer, LoadHead,
                    Ring!LoadHead, consumerVars, Ring!consumerVars
    <2>6. CASE ParsePeek
        BY <2>6 DEF ParsePeek, PeekRead, Ring!PeekRead, LoadTail, Ring!LoadTail, Readable,
                    Ring!Readable, producerVars, Ring!producerVars
    <2>7. CASE ParseRunt \/ ParseFinishPacket
        <3>1. peeked = 1 /\ CommitRead
            BY <2>7 DEF ParseRunt, ParseFinishPacket, ReleaseSlot, ContractInv
        <3> QED
            BY <3>1 DEF CommitRead, Ring!CommitRead, producerVars, Ring!producerVars
    <2> QED
        BY <2>1, <2>2, <2>3, <2>4, <2>5, <2>6, <2>7, NextByRingUse
<1>3. ContractInv /\ [Next]_vars => [Ring!Next]_Ring!ringVars
    BY <1>2 DEF ringVars, Ring!ringVars
<1> QED
    BY <1>1, <1>3, ContractInit, NextPreservesContract, PTL
    DEF Spec, UsesTheRingAsAllowed, Ring!Spec

----
LEMMA NextPreservesRing == ContractInv /\ RingInv /\ [Next]_vars => RingInv'
<1> SUFFICES ASSUME ContractInv, RingInv, [Next]_vars PROVE RingInv'
    OBVIOUS
<1>1. CASE OffRing \/ UNCHANGED vars
    BY <1>1, OffRingLeavesRing, RingStutter DEF vars
<1>2. CASE RxClaim
    <2>1. RecvBatch \in Nat \ {0}
        BY RecvBatchAssumption, CapacityPositive
    <2> QED
        BY <1>2, <2>1, ClaimPreserves DEF RxClaim
<1>3. CASE RxTakeDatagram
    <2>1. Head(socket) \in Items
        BY <1>3 DEF RxTakeDatagram, ContractInv
    <2> QED
        BY <1>3, <2>1, WritePreserves DEF RxTakeDatagram
<1>4. CASE RxCommitBatch
    <2>1. filled \in 0 .. filled
        BY DEF ContractInv
    <2> QED
        BY <1>4, <2>1, CommitBatchPreserves DEF RxCommitBatch, CommitTheBatch
<1>5. CASE RxSampleDepth
    BY <1>5, DepthByProducerPreserves DEF RxSampleDepth
<1>6. CASE ParsePeek
    BY <1>6, PeekPreserves DEF ParsePeek
<1>7. CASE ParseRunt \/ ParseFinishPacket
    <2>1. peeked = 1 /\ CommitRead
        BY <1>7 DEF ParseRunt, ParseFinishPacket, ReleaseSlot, ContractInv
    <2> QED
        BY <2>1, CommitReadPreserves
<1> QED
    BY <1>1, <1>2, <1>3, <1>4, <1>5, <1>6, <1>7, NextByRingUse

\* No access of the two threads to a packet slot is a data race: recvmmsg fills a slot only
\* after the read that released it, and the parser reads it only after the commit.
THEOREM ReceiverSlotAccessesAreOrdered == Spec => []NoDataRace
<1>1. Init => ContractInv /\ RingInv
    BY ContractInit, RingInitInv DEF Init
<1>2. ContractInv /\ RingInv /\ [Next]_vars => ContractInv' /\ RingInv'
    BY NextPreservesContract, NextPreservesRing
<1>3. RingInv => NoDataRace
    BY RingInvIsSafe
<1> QED
    BY <1>1, <1>2, <1>3, PTL DEF Spec

----
(* The flow of packets                                                      *)

\* Slots are written inside a receive only, the flag goes up because a receive failed or
\* the main thread left its loop, and the main thread returns last.
ControlInv ==
    /\ rx \in {"check", "claim", "receive", "account", "sample", "exiting", "exited"}
    /\ main \in {"peek", "empty", "frame", "messages", "stopping", "joining", "finished"}
    /\ rx # "receive" => filled = 0
    /\ done => rx_failed \/ main \in {"joining", "finished"}
    /\ rx = "exiting" => rx_failed \/ done
    /\ main = "finished" => rx = "exited"

\* The packets released are the first ones taken, the others are in the ring's slots.
PlacesInv ==
    /\ taken \in Seq(Items)
    /\ handled \in Seq(Items)
    /\ Len(handled) = head
    /\ Len(taken) = tail + filled
    /\ \A k \in 1 .. head : handled[k] = taken[k]
    /\ \A p \in head .. (tail + filled) - 1 : buffer[Index(p)] = taken[p + 1]

\* The packet the parse loop has in hand, if any, and why the loop ended. It keeps the one
\* the book threw in.
Current == taken[head + 1]

PacketInv ==
    /\ main = "messages" \/ parse_error =>
          /\ Current \notin Runts \cup EndOfSession
          /\ remaining \in 0 .. MessageCount[Current]
    /\ parse_error => head < tail /\ main \in {"stopping", "joining", "finished"}
    /\ main \in {"stopping", "joining", "finished"} =>
          \/ rx_failed
          \/ parse_error
          \/ head < tail /\ Current \in EndOfSession \ Runts

\* The packets published so far, less a batch not accounted for yet; and the packets
\* released, which were runts or counted.
RuntsIn(packets) == {k \in DOMAIN packets : packets[k] \in Runts}

CountsInv ==
    /\ batch \in Nat
    /\ stats \in [packets : Nat, ring_full_stalls : Nat, max_depth : 0 .. Capacity]
    /\ stats.packets = tail - (IF rx = "account" THEN batch ELSE 0)
    /\ moldudp64_message_count \in Nat
    /\ moldudp64_message_count + Cardinality(RuntsIn(handled)) = head

\* A depth is sampled after each commit, so the largest is at least what the producer knows
\* of the ring; and a stall counted anew found the ring filled again by a later packet.
StallInv ==
    /\ rx \notin {"account", "sample"} => tail - seen_head <= stats.max_depth
    /\ stalled \in BOOLEAN
    /\ stalled => stats.ring_full_stalls > 0
    /\ stats.ring_full_stalls > 0 =>
          /\ stats.ring_full_stalls + Capacity - 1 <= tail
          /\ stats.max_depth = Capacity
          /\ ~stalled /\ stats.ring_full_stalls + Capacity - 1 = tail =>
                tail < cached_head + Capacity

\* f sums up the messages framed in the packets of a sequence, packet by packet.
FramedIn(packet) == IF packet \in Runts THEN 0 ELSE MessageCount[packet]

SumsUp(f, packets) ==
    f = [k \in 0 .. Len(packets) |-> IF k = 0 THEN 0 ELSE f[k - 1] + FramedIn(packets[k])]

\* The messages parsed are those of the packets released, and of the one in hand those that
\* do not remain.
ParsedOfCurrent ==
    IF main = "messages" \/ parse_error THEN MessageCount[Current] - remaining ELSE 0

MessagesInv ==
    /\ message_count \in Nat
    /\ \E f : SumsUp(f, handled)
    /\ \A f : SumsUp(f, handled) =>
          /\ f[head] \in Nat
          /\ message_count = f[head] + ParsedOfCurrent
----
LEMMA ControlInit == Init => ControlInv
BY DEF Init, RingInit, ControlInv

LEMMA NextPreservesControl == ContractInv /\ ControlInv /\ [Next]_vars => ControlInv'
<1> SUFFICES ASSUME ContractInv, ControlInv, [Next]_vars PROVE ControlInv'
    OBVIOUS
<1> USE DEF ControlInv
<1>1. CASE UNCHANGED vars \/ Terminated
    BY <1>1 DEF Terminated, vars, ringVars, rxVars, rxLocals, mainVars
<1>2. CASE \E packet \in Items : Arrive(packet)
    BY <1>2 DEF Arrive, ringVars, rxVars, rxLocals, mainVars
<1>3. CASE RxCheckDone \/ RxReceiveNothing \/ RxReceiveFails
    BY <1>3 DEF RxCheckDone, RxReceiveNothing, RxReceiveFails, ringVars, rxLocals, mainVars
<1>4. CASE RxClaim
    BY <1>4 DEF RxClaim, ClaimContiguous, mainVars
<1>5. CASE RxTakeDatagram \/ RxCommitBatch
    BY <1>5 DEF RxTakeDatagram, WriteSlot, RxCommitBatch, CommitTheBatch, CommitBatch,
                rxVars, rxLocals, mainVars
<1>6. CASE RxAccount \/ RxExit
    BY <1>6 DEF RxAccount, RxExit, RaiseDone, ringVars, rxLocals, mainVars
<1>7. CASE RxSampleDepth
    BY <1>7 DEF RxSampleDepth, DepthByProducer, mainVars
<1>8. CASE ParsePeek
    BY <1>8 DEF ParsePeek, PeekRead, producerVars, rxVars, rxLocals
<1>9. CASE ParseRunt \/ ParseFinishPacket
    BY <1>9 DEF ParseRunt, ParseFinishPacket, ReleaseSlot, CommitRead, producerVars, rxVars,
                rxLocals
<1>10. CASE ParseCheckDone \/ ParseEndOfSession \/ ParseFrame \/ ParseOneMessage \/ ParseThrows
    BY <1>10 DEF ParseCheckDone, ParseEndOfSession, ParseFrame, ParseOneMessage, ParseThrows,
                 ringVars, rxVars, rxLocals
<1>11. CASE StopRx \/ JoinAndClose
    BY <1>11 DEF StopRx, RaiseDone, JoinAndClose, RxHasReturned, ringVars, rxVars, rxLocals
<1> QED
    BY <1>1, <1>2, <1>3, <1>4, <1>5, <1>6, <1>7, <1>8, <1>9, <1>10, <1>11
    DEF Next, ReceiveLoop, RunReceiver, ParseLoop

----
LEMMA PlacesInit == Init => PlacesInv
<1>1. <<>> \in Seq(Items) /\ Len(<<>>) = 0
    BY EmptySeq
<1> QED
    BY <1>1 DEF Init, RingInit, PlacesInv

\* A slot written beyond the packets in the ring is none of theirs.
LEMMA WriteKeepsPlaces ==
    ASSUME RingInv, PlacesInv, NEW item \in Items, WriteSlot(item),
           taken' = Append(taken, item), handled' = handled
    PROVE  PlacesInv'
<1> DEFINE end == tail + filled
<1> USE DEF RingInv, RingTypeOK, CountersInOrder
<1>1. /\ end \in Nat /\ head \in Nat /\ Capacity \in Nat
      /\ head <= end /\ end < head + Capacity
      /\ tail' = tail /\ head' = head /\ filled' = filled + 1
      /\ buffer' = [buffer EXCEPT ![Index(end)] = item]
    BY CapacityPositive DEF WriteSlot, consumerVars
<1>2. /\ taken' \in Seq(Items)
      /\ Len(taken') = end + 1
      /\ \A k \in 1 .. end : taken'[k] = taken[k]
      /\ taken'[end + 1] = item
    BY AppendProperties DEF PlacesInv
<1>3. ASSUME NEW p \in head .. end
      PROVE  buffer'[Index(p)] = taken'[p + 1]
    <2>1. p \in Nat /\ (p = end \/ p < end)
        BY <1>1
    <2>4. Index(p) \in 0 .. Capacity - 1 /\ Index(end) \in 0 .. Capacity - 1
        BY <1>1, <2>1, IndexInArray
    <2>2. CASE p = end
        BY <1>1, <1>2, <2>4, <2>2
    <2>3. CASE p < end
        <3>1. Index(p) # Index(end)
            BY <1>1, <2>1, <2>3, SlotsWithinALapDiffer
        <3>2. buffer'[Index(p)] = buffer[Index(p)]
            BY <1>1, <2>4, <3>1
        <3>3. buffer[Index(p)] = taken[p + 1] /\ taken'[p + 1] = taken[p + 1]
            BY <1>1, <1>2, <2>1, <2>3 DEF PlacesInv
        <3> QED
            BY <3>2, <3>3
    <2> QED
        BY <2>1, <2>2, <2>3, Zenon
<1>4. \A k \in 1 .. head' : handled'[k] = taken'[k]
    <2>1. head' = head /\ handled' = handled /\ head \in Nat /\ end \in Nat
          /\ head <= end
        BY <1>1
    <2>2. SUFFICES ASSUME NEW k \in 1 .. head
                   PROVE  handled[k] = taken'[k]
        BY <2>1, Zenon
    <2>3. k \in 1 .. end
        BY <2>1
    <2>4. handled[k] = taken[k]
        BY <2>2, Zenon DEF PlacesInv
    <2> QED
        BY <1>2, <2>3, <2>4, Zenon
<1>5. \A p \in head' .. (tail' + filled') - 1 : buffer'[Index(p)] = taken'[p + 1]
    <2>1. head' = head /\ (tail' + filled') - 1 = end
        BY <1>1
    <2> QED
        BY <1>3, <2>1, Zenon
<1>6. handled' \in Seq(Items) /\ Len(handled') = head'
    BY <1>1 DEF PlacesInv
<1>7. Len(taken') = tail' + filled'
    BY <1>1, <1>2
<1> QED
    BY <1>2, <1>4, <1>5, <1>6, <1>7, Zenon DEF PlacesInv

\* The slot released held the packet that is next in order.
LEMMA SlotIsCurrent ==
    ASSUME RingInv, PlacesInv, head < tail
    PROVE  Slot = Current /\ Current \in Items
<1>1. head \in head .. (tail + filled) - 1 /\ head + 1 \in 1 .. Len(taken)
    BY DEF RingInv, RingTypeOK, PlacesInv
<1>2. taken[head + 1] \in Items
    BY <1>1, ElementOfSeq DEF PlacesInv
<1> QED
    BY <1>1, <1>2 DEF PlacesInv, Slot, Current

LEMMA ReleaseKeepsPlaces ==
    ASSUME RingInv, PlacesInv, peeked = 1, ReleaseSlot, taken' = taken
    PROVE  /\ PlacesInv'
           /\ handled' = Append(handled, Current)
           /\ Current \in Items
           /\ head' = head + 1
<1> USE DEF RingInv, RingTypeOK, CountersInOrder
<1>1. /\ head < tail
      /\ head' = head + 1 /\ tail' = tail /\ filled' = filled /\ buffer' = buffer
    BY DEF ReleaseSlot, CommitRead, producerVars
<1>2. Slot = Current /\ Current \in Items
    BY <1>1, SlotIsCurrent
<1>3. handled' = Append(handled, Current)
    BY <1>2 DEF ReleaseSlot
<1>4. /\ handled' \in Seq(Items)
      /\ Len(handled') = head + 1
      /\ \A k \in 1 .. head : handled'[k] = handled[k]
      /\ handled'[head + 1] = taken[head + 1]
    BY <1>2, <1>3, AppendProperties DEF PlacesInv, Current
<1> QED
    BY <1>1, <1>2, <1>3, <1>4 DEF PlacesInv

\* A prefix published, a claim started afresh with nothing written, or the ring left alone.
LEMMA StillInPlace ==
    ASSUME PlacesInv,
           UNCHANGED <<head, buffer, history>>, tail' + filled' = tail + filled
    PROVE  PlacesInv'
<1>1. /\ head' = head /\ buffer' = buffer /\ taken' = taken /\ handled' = handled
      /\ (tail' + filled') - 1 = (tail + filled) - 1
    BY DEF history
<1>2. \A p \in head' .. (tail' + filled') - 1 : buffer'[Index(p)] = taken'[p + 1]
    BY <1>1 DEF PlacesInv
<1> QED
    BY <1>1, <1>2 DEF PlacesInv

LEMMA NextPreservesPlaces ==
    ContractInv /\ RingInv /\ ControlInv /\ PlacesInv /\ [Next]_vars => PlacesInv'
<1> SUFFICES ASSUME ContractInv, RingInv, ControlInv, PlacesInv, [Next]_vars
             PROVE  PlacesInv'
    OBVIOUS
<1>1. CASE OffRing \/ UNCHANGED vars
    <2>1. UNCHANGED ringVars
        BY <1>1, OffRingLeavesRing DEF vars
    <2>2. UNCHANGED history
        BY <1>1 DEF OffRing, Arrive, RxCheckDone, RxReceiveNothing, RxReceiveFails, RxAccount,
                    RxExit, ParseCheckDone, ParseEndOfSession, ParseFrame, ParseOneMessage,
                    ParseThrows, StopRx, JoinAndClose, Terminated, vars
    <2> QED
        BY <2>1, <2>2, StillInPlace DEF ringVars
<1>2. CASE RxClaim
    <2>1. filled = 0
        BY <1>2 DEF RxClaim, ControlInv
    <2> QED
        BY <1>2, <2>1, StillInPlace DEF RxClaim, ClaimContiguous, consumerVars
<1>3. CASE RxTakeDatagram
    <2>1. Head(socket) \in Items
        BY <1>3 DEF RxTakeDatagram, ContractInv
    <2> QED
        BY <1>3, <2>1, WriteKeepsPlaces DEF RxTakeDatagram
<1>4. CASE RxCommitBatch
    <2>1. tail' + filled' = tail + filled
        BY <1>4 DEF RxCommitBatch, CommitTheBatch, CommitBatch, RingInv, RingTypeOK
    <2> QED
        BY <1>4, <2>1, StillInPlace
        DEF RxCommitBatch, CommitTheBatch, CommitBatch, consumerVars
<1>5. CASE RxSampleDepth
    BY <1>5, StillInPlace DEF RxSampleDepth, DepthByProducer, consumerVars
<1>6. CASE ParsePeek
    BY <1>6, StillInPlace DEF ParsePeek, PeekRead, producerVars
<1>7. CASE ParseRunt \/ ParseFinishPacket
    <2>1. peeked = 1 /\ ReleaseSlot /\ taken' = taken
        BY <1>7 DEF ParseRunt, ParseFinishPacket, ContractInv
    <2> QED
        BY <2>1, ReleaseKeepsPlaces
<1> QED
    BY <1>1, <1>2, <1>3, <1>4, <1>5, <1>6, <1>7, NextByRingUse
----
\* The packet in hand stays the same while datagrams arrive, are taken and are published.
LEMMA CurrentStays ==
    ASSUME ContractInv, RingInv, PlacesInv, [Next]_vars, head < tail, head' = head
    PROVE  /\ Current' = Current
           /\ head < tail'
<1> USE DEF RingInv, RingTypeOK
<1>1. tail' \in Nat /\ tail <= tail'
    <2>1. CASE RxCommitBatch
        BY <2>1 DEF RxCommitBatch, CommitTheBatch, CommitBatch
    <2>2. CASE RxClaim \/ RxTakeDatagram
        BY <2>2 DEF RxClaim, ClaimContiguous, RxTakeDatagram, WriteSlot
    <2>5. CASE RxSampleDepth
        BY <2>5 DEF RxSampleDepth, DepthByProducer
    <2>4. CASE ParsePeek \/ ParseRunt \/ ParseFinishPacket
        BY <2>4 DEF ParsePeek, PeekRead, ParseRunt, ParseFinishPacket, ReleaseSlot,
                    CommitRead, producerVars
    <2>3. CASE OffRing \/ UNCHANGED vars
        BY <2>3, OffRingLeavesRing DEF vars, ringVars
    <2> QED
        BY <2>1, <2>2, <2>3, <2>4, <2>5, NextByRingUse
<1>2. CASE taken' = taken
    BY <1>1, <1>2 DEF Current
<1>3. CASE RxTakeDatagram
    <2>1. Head(socket) \in Items /\ taken' = Append(taken, Head(socket))
        BY <1>3 DEF RxTakeDatagram, ContractInv
    <2>2. head + 1 \in 1 .. Len(taken)
        BY DEF PlacesInv
    <2>3. taken'[head + 1] = taken[head + 1]
        BY <2>1, <2>2, AppendProperties DEF PlacesInv
    <2> QED
        BY <1>1, <2>3 DEF Current
<1>4. taken' = taken \/ RxTakeDatagram
    BY DEF Next, ReceiveLoop, RunReceiver, ParseLoop, Arrive, RxCheckDone, RxClaim,
           RxReceiveNothing, RxReceiveFails, RxCommitBatch, RxAccount, RxSampleDepth, RxExit,
           ParsePeek, ParseCheckDone, ParseRunt, ParseEndOfSession, ParseFrame,
           ParseOneMessage, ParseThrows, ParseFinishPacket, StopRx, JoinAndClose, Terminated,
           vars, history
<1> QED
    BY <1>2, <1>3, <1>4

\* The main thread holds the packet at the head of the ring, and it is the one in hand.
LEMMA HoldsCurrent ==
    ASSUME ContractInv, RingInv, PlacesInv, main \in {"frame", "messages"}
    PROVE  head < tail /\ Slot = Current /\ Current \in Items
<1>1. head < tail
    BY DEF ContractInv, RingInv, RingTypeOK, CountersInOrder
<1> QED
    BY <1>1, SlotIsCurrent

LEMMA PacketInit == Init => PacketInv
BY DEF Init, PacketInv

LEMMA NextPreservesPacket ==
    ASSUME ContractInv, RingInv, ControlInv, PlacesInv, PacketInv, [Next]_vars
    PROVE  PacketInv'
<1> DEFINE Stopped == main \in {"stopping", "joining", "finished"}
<1>1. CASE \/ UNCHANGED vars \/ Terminated \/ ReceiveLoop
           \/ \E packet \in Items : Arrive(packet)
    <2>1. /\ UNCHANGED <<main, head, remaining, parse_error>>
          /\ rx_failed => rx_failed'
        <3>1. CASE RxClaim \/ RxTakeDatagram
            BY <3>1 DEF RxClaim, ClaimContiguous, RxTakeDatagram, WriteSlot, consumerVars,
                        rxVars, rxLocals, mainVars, packetVars
        <3>2. CASE RxCommitBatch
            BY <3>2 DEF RxCommitBatch, CommitTheBatch, CommitBatch, consumerVars, mainVars,
                        packetVars
        <3>5. CASE RxSampleDepth
            BY <3>5 DEF RxSampleDepth, DepthByProducer, consumerVars, mainVars, packetVars
        <3>3. CASE RxCheckDone \/ RxReceiveNothing \/ RxReceiveFails \/ RxAccount \/ RxExit
            BY <3>3 DEF RxCheckDone, RxReceiveNothing, RxReceiveFails, RxAccount, RxExit,
                        ringVars, rxLocals, mainVars, packetVars
        <3>4. CASE UNCHANGED vars \/ Terminated \/ \E packet \in Items : Arrive(packet)
            BY <3>4 DEF Terminated, Arrive, vars, ringVars, rxVars, rxLocals, mainVars,
                        packetVars
        <3> QED
            BY <1>1, <3>1, <3>2, <3>3, <3>4, <3>5 DEF ReceiveLoop
    <2>2. main = "messages" => head < tail
        BY HoldsCurrent
    <2>3. head < tail => Current' = Current /\ head < tail'
        BY <2>1, CurrentStays
    <2> QED
        BY <2>1, <2>2, <2>3 DEF PacketInv
<1>2. CASE ParsePeek \/ ParseRunt \/ ParseFinishPacket
    <2>1. main' \in {"peek", "empty", "frame"} /\ ~parse_error'
        BY <1>2 DEF ParsePeek, ParseRunt, ParseFinishPacket, packetVars, PacketInv
    <2> QED
        BY <2>1 DEF PacketInv
<1>3. CASE ParseCheckDone
    <2>1. /\ main' \in {"peek", "stopping"} /\ (main' = "stopping" => rx_failed')
          /\ ~parse_error'
        BY <1>3 DEF ParseCheckDone, ControlInv, rxVars, rxLocals, packetVars, PacketInv
    <2> QED
        BY <2>1 DEF PacketInv
<1>4. CASE ParseEndOfSession \/ ParseFrame \/ ParseOneMessage \/ ParseThrows
    <2>1. head < tail /\ Slot = Current /\ Current \in Items
        BY <1>4, HoldsCurrent DEF ParseEndOfSession, ParseFrame, ParseOneMessage, ParseThrows
    <2>2. head' = head
        BY <1>4 DEF ParseEndOfSession, ParseFrame, ParseOneMessage, ParseThrows, ringVars
    <2>3. Current' = Current /\ head' < tail'
        BY <2>1, <2>2, CurrentStays
    <2>4. CASE ParseEndOfSession
        BY <2>1, <2>3, <2>4 DEF ParseEndOfSession, packetVars, PacketInv
    <2>5. CASE ParseFrame
        <3>1. MessageCount[Current] \in Nat
            BY <2>1, PacketAssumption
        <3> QED
            BY <2>1, <2>3, <2>5, <3>1 DEF ParseFrame, PacketInv
    <2>6. CASE ParseOneMessage
        <3>1. MessageCount[Current] \in Nat
            BY <2>1, PacketAssumption
        <3> QED
            BY <2>3, <2>6, <3>1 DEF ParseOneMessage, PacketInv
    <2>7. CASE ParseThrows
        BY <2>2, <2>3, <2>7 DEF ParseThrows, PacketInv
    <2> QED
        BY <1>4, <2>4, <2>5, <2>6, <2>7
<1>5. CASE StopRx \/ JoinAndClose
    <2>1. /\ Stopped /\ Stopped'
          /\ head' = head
          /\ rx_failed' = rx_failed /\ parse_error' = parse_error /\ remaining' = remaining
        BY <1>5 DEF StopRx, JoinAndClose, ringVars, rxVars, rxLocals, packetVars
    <2>2. head < tail => Current' = Current /\ head < tail'
        BY <2>1, CurrentStays
    <2> QED
        BY <2>1, <2>2 DEF PacketInv
<1> QED
    BY <1>1, <1>2, <1>3, <1>4, <1>5 DEF Next, RunReceiver, ParseLoop

----
LEMMA RuntsOfAppend ==
    ASSUME NEW packets \in Seq(Items), NEW packet \in Items
    PROVE  /\ Cardinality(RuntsIn(packets)) \in Nat
           /\ Cardinality(RuntsIn(Append(packets, packet)))
                = Cardinality(RuntsIn(packets)) + (IF packet \in Runts THEN 1 ELSE 0)
<1> DEFINE n == Len(packets)
           after == Append(packets, packet)
<1>1. /\ n \in Nat
      /\ DOMAIN packets = 1 .. n /\ DOMAIN after = 1 .. n + 1
      /\ \A k \in 1 .. n : after[k] = packets[k]
      /\ after[n + 1] = packet
    BY AppendProperties, LenProperties
<1>2. IsFiniteSet(RuntsIn(packets))
    <2>1. IsFiniteSet(1 .. n)
        BY <1>1, FS_Interval
    <2>2. RuntsIn(packets) \subseteq 1 .. n
        BY <1>1 DEF RuntsIn
    <2> QED
        BY <2>1, <2>2, FS_Subset
<1>3. n + 1 \notin RuntsIn(packets)
    BY <1>1 DEF RuntsIn
<1>4. RuntsIn(after) = RuntsIn(packets) \cup (IF packet \in Runts THEN {n + 1} ELSE {})
    BY <1>1 DEF RuntsIn
<1>5. Cardinality(RuntsIn(packets)) \in Nat
    BY <1>2, FS_CardinalityType
<1>6. CASE packet \in Runts
    <2>1. RuntsIn(after) = RuntsIn(packets) \cup {n + 1}
        BY <1>4, <1>6
    <2>2. Cardinality(RuntsIn(packets) \cup {n + 1}) = Cardinality(RuntsIn(packets)) + 1
        BY <1>2, <1>3, FS_AddElement
    <2> QED
        BY <1>5, <1>6, <2>1, <2>2
<1>7. CASE packet \notin Runts
    <2>1. RuntsIn(after) = RuntsIn(packets)
        BY <1>4, <1>7
    <2> QED
        BY <1>5, <1>7, <2>1
<1> QED
    BY <1>6, <1>7

\* The sampled depth lies within the ring, and the maximum is the larger of the two.
LEMMA SampledMaximum ==
    ASSUME RingInv, NEW depth \in 0 .. Capacity, NEW h \in seen_head .. head
    PROVE  /\ SampleDepth(h) \in 0 .. Capacity
           /\ Max({depth, SampleDepth(h)}) \in 0 .. Capacity
           /\ Max({depth, SampleDepth(h)}) >= depth
           /\ Max({depth, SampleDepth(h)}) >= SampleDepth(h)
<1> DEFINE sampled == SampleDepth(h)
<1>1. sampled \in 0 .. Capacity /\ Capacity \in Nat
    BY CapacityPositive
    DEF RingInv, RingTypeOK, CountersInOrder, SampleDepth, DepthFromProducer
<1> HIDE DEF sampled
<1>2. \E x \in {depth, sampled} : \A y \in {depth, sampled} : x >= y
    BY <1>1
<1>3. /\ Max({depth, sampled}) \in {depth, sampled}
      /\ \A y \in {depth, sampled} : Max({depth, sampled}) >= y
    BY <1>2 DEF Max
<1> QED
    BY <1>1, <1>3 DEF sampled

LEMMA CountsInit == Init => CountsInv
<1> SUFFICES ASSUME Init PROVE CountsInv
    OBVIOUS
<1>1. RuntsIn(handled) = {}
    BY DEF Init, RuntsIn
<1>2. Cardinality(RuntsIn(handled)) = 0
    BY <1>1, FS_EmptySet
<1> QED
    BY <1>2, CapacityPositive DEF Init, RingInit, CountsInv

LEMMA NextPreservesCounts ==
    ASSUME ContractInv, RingInv, ControlInv, PlacesInv, PacketInv, CountsInv, [Next]_vars
    PROVE  CountsInv'
<1> USE DEF CountsInv, RingInv, RingTypeOK
<1>1. CASE UNCHANGED vars \/ Terminated \/ \E packet \in Items : Arrive(packet)
    BY <1>1 DEF Terminated, Arrive, vars, ringVars, rxVars, rxLocals, mainVars, packetVars,
                history
<1>2. CASE RxCheckDone \/ RxReceiveNothing \/ RxReceiveFails \/ RxExit
    BY <1>2 DEF RxCheckDone, RxReceiveNothing, RxReceiveFails, RxExit, ringVars, rxLocals,
                mainVars, packetVars, history
<1>3. CASE RxClaim
    <2>1. /\ stats' \in [packets : Nat, ring_full_stalls : Nat, max_depth : 0 .. Capacity]
          /\ stats'.packets = stats.packets
        BY <1>3, SMTT(30) DEF RxClaim
    <2> QED
        BY <1>3, <2>1 DEF RxClaim, ClaimContiguous, consumerVars, mainVars, packetVars, history
<1>4. CASE RxTakeDatagram
    BY <1>4 DEF RxTakeDatagram, WriteSlot, consumerVars, rxVars, rxLocals, mainVars,
                packetVars
<1>5. CASE RxCommitBatch
    BY <1>5 DEF RxCommitBatch, CommitTheBatch, CommitBatch, consumerVars, mainVars,
                packetVars, history
<1>6. CASE RxAccount
    <2>1. stats' = [stats EXCEPT !.packets = @ + batch]
        BY <1>6 DEF RxAccount
    <2>2. stats.packets + batch \in Nat
        OBVIOUS
    <2>3. /\ stats' \in [packets : Nat, ring_full_stalls : Nat, max_depth : 0 .. Capacity]
          /\ stats'.packets = stats.packets + batch
        BY <2>1, <2>2
    <2> QED
        BY <1>6, <2>3, SMTT(30) DEF RxAccount, ringVars, mainVars, packetVars, history
<1>7. CASE RxSampleDepth
    <2>1. PICK h \in seen_head .. head :
               stats' = [stats EXCEPT !.max_depth = Max({@, SampleDepth(h)})]
        BY <1>7 DEF RxSampleDepth
    <2>2. /\ stats' \in [packets : Nat, ring_full_stalls : Nat, max_depth : 0 .. Capacity]
          /\ stats'.packets = stats.packets
        BY <2>1, SampledMaximum
    <2> QED
        BY <1>7, <2>2 DEF RxSampleDepth, DepthByProducer, consumerVars, mainVars, packetVars,
                          history
<1>8. CASE ParsePeek
    BY <1>8 DEF ParsePeek, PeekRead, producerVars, rxVars, rxLocals, packetVars, history
<1>9. CASE ParseCheckDone \/ ParseEndOfSession \/ ParseFrame \/ ParseOneMessage \/ ParseThrows
           \/ StopRx \/ JoinAndClose
    BY <1>9 DEF ParseCheckDone, ParseEndOfSession, ParseFrame, ParseOneMessage, ParseThrows,
                StopRx, JoinAndClose, ringVars, rxVars, rxLocals, packetVars, history
<1>10. CASE ParseRunt \/ ParseFinishPacket
    <2>1. Slot = Current /\ Current \in Items
        BY <1>10, HoldsCurrent DEF ParseRunt, ParseFinishPacket
    <2>2. head' = head + 1 /\ handled' = Append(handled, Current)
        BY <1>10, <2>1 DEF ParseRunt, ParseFinishPacket, ReleaseSlot, CommitRead
    <2>3. /\ Cardinality(RuntsIn(handled)) \in Nat
          /\ Cardinality(RuntsIn(handled'))
               = Cardinality(RuntsIn(handled)) + (IF Current \in Runts THEN 1 ELSE 0)
        BY <2>1, <2>2, RuntsOfAppend DEF PlacesInv
    <2>4. moldudp64_message_count' = moldudp64_message_count
                                     + (IF Current \in Runts THEN 0 ELSE 1)
        BY <1>10, <2>1 DEF ParseRunt, ParseFinishPacket, PacketInv, packetVars
    <2>5. UNCHANGED <<rx, batch, stats, tail>>
        BY <1>10 DEF ParseRunt, ParseFinishPacket, ReleaseSlot, CommitRead, producerVars,
                     rxVars, rxLocals
    <2> QED
        BY <2>2, <2>3, <2>4, <2>5
<1> QED
    BY <1>1, <1>2, <1>3, <1>4, <1>5, <1>6, <1>7, <1>8, <1>9, <1>10
    DEF Next, ReceiveLoop, RunReceiver, ParseLoop
----
\* A refused claim found the ring full by the newest head the producer has acquired; a
\* claim that was met leaves room by the cached one.
LEMMA ClaimAnswers ==
    ASSUME RingInv, RxClaim
    PROVE  /\ seen_head' \in Nat /\ seen_head <= seen_head'
           /\ claimed' = 0 => /\ tail = cached_head + Capacity
                              /\ tail - seen_head' = Capacity
           /\ claimed' > 0 => tail < cached_head' + Capacity
<1> USE DEF RingInv, RingTypeOK, CountersInOrder
<1> DEFINE Room(h) == RunLength(RecvBatch, FreeSlots(h))
<1>1. /\ Capacity \in Nat /\ RecvBatch \in Nat /\ RecvBatch > 0
      /\ ClaimContiguous(RecvBatch)
    BY CapacityPositive, RecvBatchAssumption DEF RxClaim
<1>2. ASSUME NEW h \in cached_head .. head
      PROVE  /\ FreeSlots(h) \in 0 .. Capacity
             /\ Room(h) > 0 <=> FreeSlots(h) > 0
             /\ Room(h) = 0 <=> FreeSlots(h) = 0
    <2>1. FreeSlots(h) \in 0 .. Capacity
        BY <1>1, <1>2 DEF FreeSlots
    <2>2. /\ Room(h) \in Int
          /\ FreeSlots(h) > 0 => Room(h) > 0
          /\ FreeSlots(h) = 0 => Room(h) = 0
        <3>1. FreeSlots(h) \in Int /\ tail \in Nat
            BY <2>1
        <3> QED
            BY <1>1, <3>1, RunLengthBounds, Zenon
    <2> HIDE DEF Room
    <2> QED
        BY <2>1, <2>2
<1>3. CASE /\ FreeSlots(cached_head) # 0
           /\ claimed' = Room(cached_head)
           /\ UNCHANGED <<cached_head, seen_head>>
    <2>1. cached_head \in cached_head .. head
        OBVIOUS
    <2>2. FreeSlots(cached_head) > 0 /\ claimed' > 0
        <3> HIDE DEF Room
        <3> QED
            BY <1>2, <1>3, <2>1
    <2> QED
        BY <1>1, <1>3, <2>2 DEF FreeSlots
<1>4. ASSUME FreeSlots(cached_head) = 0,
             NEW h \in seen_head .. head,
             LoadHead(h), cached_head' = h, claimed' = Room(h)
      PROVE  /\ seen_head' \in Nat /\ seen_head <= seen_head'
             /\ claimed' = 0 => /\ tail = cached_head + Capacity
                                /\ tail - seen_head' = Capacity
             /\ claimed' > 0 => tail < cached_head' + Capacity
    <2>1. h \in cached_head .. head /\ h \in Nat /\ seen_head <= h /\ seen_head' = h
        BY <1>4 DEF LoadHead
    <2>2. /\ claimed' = 0 => FreeSlots(h) = 0
          /\ claimed' > 0 => FreeSlots(h) > 0
        <3> HIDE DEF Room
        <3> QED
            BY <1>2, <1>4, <2>1
    <2> QED
        BY <1>1, <1>4, <2>1, <2>2 DEF FreeSlots
<1> QED
    BY <1>1, <1>3, <1>4 DEF ClaimContiguous

LEMMA StallInit == Init => StallInv
BY CapacityPositive DEF Init, RingInit, StallInv

LEMMA NextPreservesStall ==
    ASSUME RingInv, CountsInv, StallInv, [Next]_vars
    PROVE  StallInv'
<1> USE DEF StallInv
<1>0. stats \in [packets : Nat, ring_full_stalls : Nat, max_depth : 0 .. Capacity]
    BY DEF CountsInv
<1>1. /\ tail \in Nat /\ seen_head \in Nat /\ cached_head \in Nat /\ filled \in Nat
      /\ Capacity \in Nat /\ Capacity > 0
      /\ stats.ring_full_stalls \in Nat
      /\ stats.max_depth \in Nat /\ stats.max_depth <= Capacity
    BY <1>0, CapacityPositive DEF RingInv, RingTypeOK
<1>2. CASE UNCHANGED vars \/ Terminated \/ \E packet \in Items : Arrive(packet)
    BY <1>2 DEF Terminated, Arrive, vars, ringVars, rxVars, rxLocals
<1>3. CASE RxCheckDone \/ RxReceiveNothing \/ RxReceiveFails \/ RxExit
    BY <1>3 DEF RxCheckDone, RxReceiveNothing, RxReceiveFails, RxExit, ringVars, rxLocals
<1>4. CASE RxClaim
    <2>1. /\ tail' = tail /\ rx = "claim"
          /\ rx' \in {"check", "receive"}
        BY <1>4 DEF RxClaim, ClaimContiguous
    <2>4. rx' \notin {"account", "sample"}
        BY <2>1
    <2>2. CASE /\ claimed' = 0 /\ RememberStall
               /\ stats' = IF stalled THEN stats
                           ELSE [stats EXCEPT !.ring_full_stalls = @ + 1]
        <3>1. tail = cached_head + Capacity /\ tail - seen_head <= stats.max_depth
            BY <1>4, <2>1, <2>2, ClaimAnswers
        <3>2. PICK h \in Nat : seen_head' = h /\ seen_head <= h /\ tail - h = Capacity
            BY <1>4, <2>2, ClaimAnswers
        <3>3. stats.max_depth = Capacity
            BY <1>1, <3>1, <3>2
        <3>4. stalled' = TRUE
            BY <2>2 DEF RememberStall
        <3>5. CASE stalled
            BY <1>1, <2>1, <2>2, <3>2, <3>3, <3>4, <3>5
        <3>6. CASE ~stalled
            <4>1. /\ stats'.ring_full_stalls = stats.ring_full_stalls + 1
                  /\ stats'.max_depth = stats.max_depth
                BY <1>0, <2>2, <3>6
            <4>2. stats.ring_full_stalls + Capacity <= tail
                BY <1>1, <3>1, <3>6
            <4> QED
                BY <1>1, <2>1, <2>4, <3>2, <3>3, <3>4, <4>1, <4>2
        <3> QED
            BY <3>5, <3>6
    <2>3. CASE claimed' > 0 /\ stalled' = FALSE /\ UNCHANGED stats
        <3>1. PICK h \in Nat : seen_head' = h /\ seen_head <= h
            BY <1>4, ClaimAnswers
        <3>2. tail < cached_head' + Capacity
            BY <1>4, <2>3, ClaimAnswers
        <3> QED
            <4>1. tail' - seen_head' <= stats'.max_depth
                BY <1>1, <2>1, <2>3, <3>1
            <4> QED
                BY <2>1, <2>3, <2>4, <3>2, <4>1
    <2> QED
        BY <1>4, <2>2, <2>3 DEF RxClaim
<1>5. CASE RxTakeDatagram
    BY <1>5 DEF RxTakeDatagram, WriteSlot, rxVars, rxLocals
<1>6. CASE RxCommitBatch
    <2>1. /\ filled > 0 /\ tail' = tail + filled /\ rx' = "account"
          /\ UNCHANGED <<cached_head, stats, stalled>>
        BY <1>6 DEF RxCommitBatch, CommitTheBatch, CommitBatch
    <2> QED
        BY <1>1, <2>1
<1>7. CASE RxAccount
    <2>1. /\ stats' = [stats EXCEPT !.packets = @ + batch]
          /\ rx' = "sample" /\ rx = "account"
          /\ UNCHANGED <<tail, seen_head, cached_head, stalled>>
        BY <1>7 DEF RxAccount, ringVars
    <2>2. /\ stats'.ring_full_stalls = stats.ring_full_stalls
          /\ stats'.max_depth = stats.max_depth
        BY <1>0, <2>1
    <2> QED
        BY <1>1, <2>1, <2>2
<1>8. CASE RxSampleDepth
    <2>1. PICK h \in seen_head .. head :
               /\ DepthByProducer(h)
               /\ stats' = [stats EXCEPT !.max_depth = Max({@, SampleDepth(h)})]
        BY <1>8 DEF RxSampleDepth
    <2>2. /\ stats'.ring_full_stalls = stats.ring_full_stalls
          /\ stats'.max_depth \in 0 .. Capacity
          /\ stats'.max_depth >= stats.max_depth
          /\ stats'.max_depth >= tail - h
        <3>1. SampleDepth(h) = tail - h
            BY DEF SampleDepth, DepthFromProducer
        <3>2. stats'.max_depth = Max({stats.max_depth, SampleDepth(h)})
            BY <1>0, <2>1
        <3>3. /\ Max({stats.max_depth, SampleDepth(h)}) \in 0 .. Capacity
              /\ Max({stats.max_depth, SampleDepth(h)}) >= stats.max_depth
              /\ Max({stats.max_depth, SampleDepth(h)}) >= SampleDepth(h)
            BY <1>1, SampledMaximum
        <3>4. stats'.ring_full_stalls = stats.ring_full_stalls
            BY <1>0, <2>1
        <3> QED
            BY <3>1, <3>2, <3>3, <3>4
    <2>3. /\ seen_head' = h /\ h \in Nat
          /\ UNCHANGED <<tail, cached_head, stalled>>
          /\ rx' = "check"
        BY <1>1, <1>8, <2>1 DEF RxSampleDepth, DepthByProducer, LoadHead
    <2> QED
        BY <1>1, <2>2, <2>3
<1>9. CASE ParsePeek \/ ParseRunt \/ ParseFinishPacket
    BY <1>9 DEF ParsePeek, PeekRead, ParseRunt, ParseFinishPacket, ReleaseSlot, CommitRead,
                producerVars, rxVars, rxLocals
<1>10. CASE ParseCheckDone \/ ParseEndOfSession \/ ParseFrame \/ ParseOneMessage
            \/ ParseThrows \/ StopRx \/ JoinAndClose
    BY <1>10 DEF ParseCheckDone, ParseEndOfSession, ParseFrame, ParseOneMessage, ParseThrows,
                 StopRx, JoinAndClose, ringVars, rxVars, rxLocals
<1> QED
    BY <1>2, <1>3, <1>4, <1>5, <1>6, <1>7, <1>8, <1>9, <1>10
    DEF Next, ReceiveLoop, RunReceiver, ParseLoop
----
LEMMA SumsUpEmpty ==
    /\ \E f : SumsUp(f, <<>>)
    /\ \A f : SumsUp(f, <<>>) => f[0] = 0
<1>1. Len(<<>>) = 0
    BY EmptySeq
<1> DEFINE zero == [k \in 0 .. 0 |-> 0]
<1>2. zero = [k \in 0 .. 0 |-> IF k = 0 THEN 0 ELSE zero[k - 1] + FramedIn(<<>>[k])]
    OBVIOUS
<1>3. SumsUp(zero, <<>>)
    BY <1>1, <1>2 DEF SumsUp
<1> HIDE DEF zero
<1>4. ASSUME NEW f, SumsUp(f, <<>>) PROVE f[0] = 0
    BY <1>1, <1>4 DEF SumsUp
<1> QED
    BY <1>3, <1>4

\* One more packet adds one more partial sum and leaves the others.
LEMMA SumsUpAppend ==
    ASSUME NEW packets \in Seq(Items), NEW packet \in Items
    PROVE  /\ \A f : SumsUp(f, packets) => \E g : SumsUp(g, Append(packets, packet))
           /\ \A g : SumsUp(g, Append(packets, packet)) =>
                 \E f : /\ SumsUp(f, packets)
                       /\ g[Len(packets) + 1] = f[Len(packets)] + FramedIn(packet)
<1> DEFINE n == Len(packets)
           after == Append(packets, packet)
<1>1. /\ n \in Nat /\ Len(after) = n + 1
      /\ \A k \in 1 .. n : after[k] = packets[k]
      /\ after[n + 1] = packet
    BY AppendProperties
<1> HIDE DEF n, after
<1>2. ASSUME NEW f, SumsUp(f, packets)
      PROVE  \E g : SumsUp(g, after)
    <2> DEFINE g == [k \in 0 .. n + 1 |-> IF k <= n THEN f[k] ELSE f[n] + FramedIn(packet)]
    <2>1. f = [k \in 0 .. n |-> IF k = 0 THEN 0 ELSE f[k - 1] + FramedIn(packets[k])]
        BY <1>2 DEF SumsUp, n
    <2>2. ASSUME NEW k \in 0 .. n + 1
          PROVE  g[k] = IF k = 0 THEN 0 ELSE g[k - 1] + FramedIn(after[k])
        <3>1. CASE k = 0
            BY <1>1, <2>1, <3>1
        <3>2. CASE k \in 1 .. n
            <4>1. f[k] = f[k - 1] + FramedIn(packets[k])
                BY <1>1, <2>1, <3>2
            <4>2. g[k] = f[k] /\ g[k - 1] = f[k - 1]
                BY <1>1, <3>2
            <4> QED
                BY <1>1, <3>2, <4>1, <4>2
        <3>3. CASE k = n + 1
            <4>1. g[k] = f[n] + FramedIn(packet) /\ g[k - 1] = f[n]
                BY <1>1, <3>3
            <4> QED
                BY <1>1, <3>3, <4>1
        <3> QED
            BY <1>1, <3>1, <3>2, <3>3
    <2>3. g = [k \in 0 .. n + 1 |-> g[k]]
        OBVIOUS
    <2> HIDE DEF g
    <2>4. g = [k \in 0 .. n + 1 |-> IF k = 0 THEN 0 ELSE g[k - 1] + FramedIn(after[k])]
        BY <2>2, <2>3, Zenon
    <2>5. SumsUp(g, after)
        BY <1>1, <2>4 DEF SumsUp
    <2> QED
        BY <2>5
<1>3. ASSUME NEW g, SumsUp(g, after)
      PROVE  \E f : SumsUp(f, packets) /\ g[n + 1] = f[n] + FramedIn(packet)
    <2> DEFINE f == [k \in 0 .. n |-> g[k]]
    <2>1. g = [k \in 0 .. n + 1 |-> IF k = 0 THEN 0 ELSE g[k - 1] + FramedIn(after[k])]
        BY <1>1, <1>3 DEF SumsUp
    <2>2. ASSUME NEW k \in 0 .. n
          PROVE  f[k] = IF k = 0 THEN 0 ELSE f[k - 1] + FramedIn(packets[k])
        <3>1. CASE k = 0
            BY <1>1, <2>1, <3>1
        <3>2. CASE k \in 1 .. n
            <4>1. g[k] = g[k - 1] + FramedIn(after[k])
                BY <1>1, <2>1, <3>2
            <4>2. f[k] = g[k] /\ f[k - 1] = g[k - 1]
                BY <1>1, <3>2
            <4> QED
                BY <1>1, <3>2, <4>1, <4>2
        <3> QED
            BY <1>1, <3>1, <3>2
    <2>3. f = [k \in 0 .. n |-> f[k]]
        OBVIOUS
    <2>4. g[n + 1] = f[n] + FramedIn(packet)
        BY <1>1, <2>1
    <2> HIDE DEF f
    <2>5. f = [k \in 0 .. n |-> IF k = 0 THEN 0 ELSE f[k - 1] + FramedIn(packets[k])]
        BY <2>2, <2>3, Zenon
    <2>6. SumsUp(f, packets)
        BY <2>5 DEF SumsUp, n
    <2> QED
        BY <2>4, <2>6
<1> QED
    BY <1>2, <1>3 DEF n, after

LEMMA MessagesInit == Init => MessagesInv
BY SumsUpEmpty DEF Init, RingInit, MessagesInv, ParsedOfCurrent

LEMMA NextPreservesMessages ==
    ASSUME ContractInv, RingInv, PlacesInv, PacketInv, MessagesInv, [Next]_vars
    PROVE  MessagesInv'
<1>1. CASE UNCHANGED <<handled, head, message_count, parse_error>> /\ ParsedOfCurrent' = ParsedOfCurrent
    BY <1>1 DEF MessagesInv
<1>2. CASE \/ UNCHANGED vars \/ Terminated \/ ReceiveLoop
           \/ \E packet \in Items : Arrive(packet)
    <2>1. UNCHANGED <<handled, head, main, remaining, message_count, parse_error>>
        <3>1. CASE RxClaim \/ RxTakeDatagram
            BY <3>1 DEF RxClaim, ClaimContiguous, RxTakeDatagram, WriteSlot, consumerVars,
                        mainVars, packetVars, history
        <3>2. CASE RxCommitBatch
            BY <3>2 DEF RxCommitBatch, CommitTheBatch, CommitBatch, consumerVars, mainVars,
                        packetVars, history
        <3>3. CASE RxSampleDepth
            BY <3>3 DEF RxSampleDepth, DepthByProducer, consumerVars, mainVars, packetVars,
                        history
        <3>4. CASE RxCheckDone \/ RxReceiveNothing \/ RxReceiveFails \/ RxAccount \/ RxExit
            BY <3>4 DEF RxCheckDone, RxReceiveNothing, RxReceiveFails, RxAccount, RxExit,
                        ringVars, mainVars, packetVars, history
        <3>5. CASE UNCHANGED vars \/ Terminated \/ \E packet \in Items : Arrive(packet)
            BY <3>5 DEF Terminated, Arrive, vars, ringVars, mainVars, packetVars, history
        <3> QED
            BY <1>2, <3>1, <3>2, <3>3, <3>4, <3>5 DEF ReceiveLoop
    <2>2. main = "messages" \/ parse_error => head < tail
        BY HoldsCurrent DEF PacketInv
    <2>3. head < tail => Current' = Current
        BY <2>1, CurrentStays
    <2> QED
        BY <1>1, <2>1, <2>2, <2>3 DEF ParsedOfCurrent
<1>3. CASE ParsePeek \/ ParseCheckDone \/ ParseEndOfSession \/ StopRx \/ JoinAndClose
    <2>1. /\ UNCHANGED <<handled, head, remaining, message_count, parse_error>>
          /\ main # "messages" /\ main' # "messages"
        BY <1>3 DEF ParsePeek, PeekRead, ParseCheckDone, ParseEndOfSession, StopRx, JoinAndClose,
                    ringVars, packetVars, history
    <2>2. parse_error => Current' = Current
        BY <2>1, CurrentStays DEF PacketInv
    <2> QED
        BY <1>1, <2>1, <2>2 DEF ParsedOfCurrent
<1>4. CASE ParseFrame
    <2>1. /\ UNCHANGED <<handled, head, message_count, parse_error>>
          /\ main = "frame" /\ main' = "messages" /\ remaining' = MessageCount[Slot]
        BY <1>4 DEF ParseFrame, ringVars, history
    <2>2. Slot = Current /\ Current' = Current /\ Current \in Items
        BY <2>1, HoldsCurrent, CurrentStays
    <2>3. MessageCount[Current] \in Nat
        BY <2>2, PacketAssumption
    <2>4. ParsedOfCurrent' = 0 /\ ParsedOfCurrent = 0
        BY <2>1, <2>2, <2>3 DEF ParsedOfCurrent, PacketInv
    <2> QED
        BY <1>1, <2>1, <2>4
<1>5. CASE ParseOneMessage
    <2>1. /\ UNCHANGED <<handled, head, parse_error>>
          /\ main = "messages" /\ main' = "messages"
          /\ remaining > 0 /\ remaining' = remaining - 1
          /\ message_count' = message_count + 1
        BY <1>5 DEF ParseOneMessage, ringVars, history
    <2>2. Current' = Current /\ Current \in Items
        BY <2>1, HoldsCurrent, CurrentStays
    <2>3. MessageCount[Current] \in Nat /\ remaining \in 0 .. MessageCount[Current]
        BY <2>1, <2>2, PacketAssumption DEF PacketInv
    <2>4. ParsedOfCurrent' = ParsedOfCurrent + 1 /\ ParsedOfCurrent \in Nat
        BY <2>1, <2>2, <2>3 DEF ParsedOfCurrent
    <2>5. ASSUME NEW f, SumsUp(f, handled')
          PROVE  /\ f[head'] \in Nat
                 /\ message_count' = f[head'] + ParsedOfCurrent'
        <3>1. f[head] \in Nat /\ message_count = f[head] + ParsedOfCurrent
            BY <2>1, <2>5 DEF MessagesInv
        <3> QED
            BY <2>1, <2>4, <3>1
    <2> QED
        BY <2>1, <2>5 DEF MessagesInv
<1>6. CASE ParseThrows
    <2>1. /\ UNCHANGED <<handled, head, remaining, message_count>>
          /\ main = "messages" /\ parse_error'
        BY <1>6 DEF ParseThrows, ringVars, history
    <2>2. Current' = Current
        BY <2>1, HoldsCurrent, CurrentStays
    <2> QED
        BY <2>1, <2>2 DEF ParsedOfCurrent, MessagesInv
<1>7. CASE ParseRunt \/ ParseFinishPacket
    <2>1. /\ Slot = Current /\ Current \in Items
          /\ head' = head + 1 /\ handled' = Append(handled, Current)
          /\ parse_error' = parse_error /\ message_count' = message_count
          /\ main' = "peek"
        <3>1. Slot = Current /\ Current \in Items
            BY <1>7, HoldsCurrent DEF ParseRunt, ParseFinishPacket
        <3> QED
            BY <1>7, <3>1 DEF ParseRunt, ParseFinishPacket, ReleaseSlot, CommitRead, packetVars
    <2>0. ~parse_error
        BY <1>7 DEF ParseRunt, ParseFinishPacket, PacketInv
    <2>2. FramedIn(Current) \in Nat /\ ParsedOfCurrent = FramedIn(Current)
        <3>1. MessageCount[Current] \in Nat
            BY <2>1, PacketAssumption
        <3>2. CASE ParseRunt
            BY <2>0, <2>1, <3>2 DEF ParseRunt, FramedIn, ParsedOfCurrent
        <3>3. CASE ParseFinishPacket
            BY <2>1, <3>1, <3>3 DEF ParseFinishPacket, FramedIn, ParsedOfCurrent, PacketInv
        <3> QED
            BY <1>7, <3>1, <3>2, <3>3 DEF FramedIn
    <2>3. handled \in Seq(Items) /\ Len(handled) = head /\ head \in Nat
        BY DEF PlacesInv, RingInv, RingTypeOK
    <2>4. \E g : SumsUp(g, handled')
        BY <2>1, <2>3, SumsUpAppend DEF MessagesInv
    <2>5. ASSUME NEW g, SumsUp(g, handled')
          PROVE  /\ g[head'] \in Nat
                 /\ message_count' = g[head'] + ParsedOfCurrent'
        <3>1. PICK f : SumsUp(f, handled) /\ g[head + 1] = f[head] + FramedIn(Current)
            BY <2>1, <2>3, <2>5, SumsUpAppend
        <3>2. f[head] \in Nat /\ message_count = f[head] + ParsedOfCurrent
            BY <3>1 DEF MessagesInv
        <3>3. ParsedOfCurrent' = 0
            BY <2>0, <2>1 DEF ParsedOfCurrent
        <3> QED
            BY <2>1, <2>2, <3>1, <3>2, <3>3
    <2> QED
        BY <2>1, <2>4, <2>5 DEF MessagesInv
<1> QED
    BY <1>2, <1>3, <1>4, <1>5, <1>6, <1>7 DEF Next, RunReceiver, ParseLoop
----
\* The inductive invariant of the receiver, conjunct by conjunct.
FlowInv ==
    /\ ContractInv
    /\ RingInv
    /\ ControlInv
    /\ PlacesInv
    /\ PacketInv
    /\ CountsInv
    /\ StallInv
    /\ MessagesInv

\* The two threads together keep the packets in order, the counts apart and each other
\* informed, for every capacity, batch size, packet set and traffic.
THEOREM ReceiverInvariant == Spec => []FlowInv
<1>1. Init => FlowInv
    BY ContractInit, RingInitInv, ControlInit, PlacesInit, PacketInit, CountsInit, StallInit,
       MessagesInit DEF Init, FlowInv
<1>2. FlowInv /\ [Next]_vars => FlowInv'
    BY NextPreservesContract, NextPreservesRing, NextPreservesControl, NextPreservesPlaces,
       NextPreservesPacket, NextPreservesCounts, NextPreservesStall, NextPreservesMessages
    DEF FlowInv
<1> QED
    BY <1>1, <1>2, PTL DEF Spec

\* A window of the ring is the same window of the packets taken.
LEMMA WindowOfTaken ==
    ASSUME RingInv, PlacesInv,
           NEW first \in head .. tail + filled, NEW n \in 0 .. (tail + filled) - first
    PROVE  /\ Ring!Window(first, n) \in Seq(Items)
           /\ Len(Ring!Window(first, n)) = n
           /\ \A i \in 1 .. n : Ring!Window(first, n)[i] = taken[first + i]
<1> DEFINE w == Ring!Window(first, n)
<1>1. /\ head \in Nat /\ tail + filled \in Nat /\ first \in Nat /\ n \in Nat
      /\ n <= (tail + filled) - first
    BY DEF RingInv, RingTypeOK
<1>2. w = [i \in 1 .. n |-> buffer[Index(first + i - 1)]]
    BY DEF Ring!Window, Ring!Index, Index
<1>3. ASSUME NEW i \in 1 .. n
      PROVE  /\ buffer[Index(first + i - 1)] = taken[first + i]
             /\ taken[first + i] \in Items
    <2>1. /\ first + i - 1 \in head .. (tail + filled) - 1
          /\ (first + i - 1) + 1 = first + i
          /\ first + i \in 1 .. Len(taken)
        BY <1>1 DEF PlacesInv
    <2>2. buffer[Index(first + i - 1)] = taken[(first + i - 1) + 1]
        BY <2>1 DEF PlacesInv
    <2>3. taken[first + i] \in Items
        BY <2>1, ElementOfSeq DEF PlacesInv
    <2> QED
        BY <2>1, <2>2, <2>3
<1> HIDE DEF w
<1>4. w \in [1 .. n -> Items] /\ \A i \in 1 .. n : w[i] = taken[first + i]
    BY <1>2, <1>3
<1>5. w \in Seq(Items) /\ Len(w) = n
    BY <1>1, <1>4
<1> QED
    BY <1>4, <1>5 DEF w

\* Two sequences that match taken, the second from where the first ends, match it joined.
LEMMA JoinedMatch ==
    ASSUME NEW s \in Seq(Items), NEW t \in Seq(Items),
           \A i \in 1 .. Len(s) : s[i] = taken[i],
           \A i \in 1 .. Len(t) : t[i] = taken[Len(s) + i]
    PROVE  /\ s \o t \in Seq(Items)
           /\ Len(s \o t) = Len(s) + Len(t)
           /\ \A k \in 1 .. Len(s) + Len(t) : (s \o t)[k] = taken[k]
<1>1. Len(s) \in Nat /\ Len(t) \in Nat
    OBVIOUS
<1>2. /\ s \o t \in Seq(Items)
      /\ Len(s \o t) = Len(s) + Len(t)
      /\ \A k \in 1 .. Len(s) + Len(t) :
            (s \o t)[k] = IF k <= Len(s) THEN s[k] ELSE t[k - Len(s)]
    BY ConcatProperties
<1>3. ASSUME NEW k \in 1 .. Len(s) + Len(t) PROVE (s \o t)[k] = taken[k]
    <2>1. CASE k <= Len(s)
        BY <1>1, <1>2, <2>1
    <2>2. CASE k > Len(s)
        <3>1. k - Len(s) \in 1 .. Len(t) /\ Len(s) + (k - Len(s)) = k
            BY <1>1, <2>2
        <3> QED
            BY <1>1, <1>2, <2>2, <3>1
    <2> QED
        BY <1>1, <2>1, <2>2
<1> QED
    BY <1>2, <1>3

LEMMA PlacesAreAll == RingInv /\ PlacesInv => EveryPacketInItsPlace
<1> SUFFICES ASSUME RingInv, PlacesInv PROVE EveryPacketInItsPlace
    OBVIOUS
<1> DEFINE unread == Ring!Window(head, tail - head)
           unpublished == Ring!Window(tail, filled)
           all == (handled \o unread) \o unpublished
<1>1. /\ head \in Nat /\ tail \in Nat /\ filled \in Nat /\ head <= tail
      /\ head \in head .. tail + filled /\ tail - head \in 0 .. (tail + filled) - head
      /\ tail \in head .. tail + filled /\ filled \in 0 .. (tail + filled) - tail
    BY DEF RingInv, RingTypeOK, CountersInOrder
<1>2. /\ unread \in Seq(Items) /\ Len(unread) = tail - head
      /\ \A i \in 1 .. tail - head : unread[i] = taken[head + i]
    BY <1>1, WindowOfTaken
<1>3. /\ unpublished \in Seq(Items) /\ Len(unpublished) = filled
      /\ \A i \in 1 .. filled : unpublished[i] = taken[tail + i]
    BY <1>1, WindowOfTaken
<1> HIDE DEF unread, unpublished
<1>4. /\ handled \in Seq(Items) /\ Len(handled) = head
      /\ taken \in Seq(Items) /\ Len(taken) = tail + filled
      /\ \A k \in 1 .. head : handled[k] = taken[k]
    BY DEF PlacesInv
<1>5. /\ handled \o unread \in Seq(Items)
      /\ Len(handled \o unread) = tail
      /\ \A k \in 1 .. tail : (handled \o unread)[k] = taken[k]
    <2>1. Len(handled) + Len(unread) = tail
        BY <1>1, <1>2, <1>4
    <2>2. /\ \A i \in 1 .. Len(handled) : handled[i] = taken[i]
          /\ \A i \in 1 .. Len(unread) : unread[i] = taken[Len(handled) + i]
        BY <1>2, <1>4
    <2>3. /\ handled \o unread \in Seq(Items)
          /\ Len(handled \o unread) = Len(handled) + Len(unread)
          /\ \A k \in 1 .. Len(handled) + Len(unread) : (handled \o unread)[k] = taken[k]
        BY <1>2, <1>4, <2>2, JoinedMatch
    <2> QED
        BY <2>1, <2>3
<1>6. /\ all \in Seq(Items)
      /\ Len(all) = tail + filled
      /\ \A k \in 1 .. tail + filled : all[k] = taken[k]
    <2>1. \A i \in 1 .. Len(unpublished) :
             unpublished[i] = taken[Len(handled \o unread) + i]
        BY <1>3, <1>5
    <2>2. /\ all \in Seq(Items)
          /\ Len(all) = Len(handled \o unread) + Len(unpublished)
          /\ \A k \in 1 .. Len(handled \o unread) + Len(unpublished) : all[k] = taken[k]
        <3>1. \A i \in 1 .. Len(handled \o unread) : (handled \o unread)[i] = taken[i]
            BY <1>5
        <3> QED
            BY <1>3, <1>5, <2>1, <3>1, JoinedMatch
    <2> QED
        BY <1>3, <1>5, <2>2
<1>7. taken = all
    BY <1>4, <1>6, SeqEqual
<1> QED
    BY <1>7 DEF EveryPacketInItsPlace, unread, unpublished

\* No packet is lost, repeated or reordered between the socket and the parser: those taken
\* are those released, followed by those in the ring.
THEOREM PacketsStayInPlace == Spec => []EveryPacketInItsPlace
<1>1. FlowInv => EveryPacketInItsPlace
    BY PlacesAreAll DEF FlowInv
<1> QED
    BY <1>1, ReceiverInvariant, PTL

\* Each counted stall is a filling of the ring by a packet of its own, and a ring that was
\* found full was sampled full.
THEOREM StallsAgreeWithDepth == Spec => []StallsAndDepthAgree
<1>1. FlowInv => StallsAndDepthAgree
    <2> SUFFICES ASSUME FlowInv, stats.ring_full_stalls > 0
                 PROVE  /\ stats.ring_full_stalls + Capacity - 1 <= Len(taken)
                        /\ stats.max_depth = Capacity
        BY DEF StallsAndDepthAgree
    <2>1. /\ stats.ring_full_stalls + Capacity - 1 <= tail
          /\ stats.max_depth = Capacity
          /\ stats.ring_full_stalls \in Nat
        BY DEF FlowInv, StallInv, CountsInv
    <2>2. tail \in Nat /\ filled \in Nat /\ Len(taken) = tail + filled
        BY DEF FlowInv, RingInv, RingTypeOK, PlacesInv
    <2> QED
        BY <2>1, <2>2, CapacityPositive
<1> QED
    BY <1>1, ReceiverInvariant, PTL

\* Framed is a sum of the packets released, by the packet: the one the invariant speaks of.
LEMMA FramedSumsUp ==
    ASSUME MessagesInv
    PROVE  SumsUp(Framed, handled)
<1>1. PICK f : SumsUp(f, handled)
    BY DEF MessagesInv
<1>2. f = [k \in 0 .. Len(handled) |->
              IF k = 0 THEN 0
              ELSE f[k - 1] + (IF handled[k] \in Runts THEN 0 ELSE MessageCount[handled[k]])]
    BY <1>1 DEF SumsUp, FramedIn
<1>3. Framed = [k \in 0 .. Len(handled) |->
                  IF k = 0 THEN 0
                  ELSE Framed[k - 1]
                       + (IF handled[k] \in Runts THEN 0 ELSE MessageCount[handled[k]])]
    BY <1>2 DEF Framed
<1> QED
    BY <1>3 DEF SumsUp, FramedIn

\* Once the RX thread was joined, the packets it reports are those taken, and they are the
\* packets the parse loop counted, its runts, and what the run left in the ring. The messages
\* are those of the packets released, and those parsed of the packet the book threw in.
THEOREM CountsAddUp == Spec => []ReportedCountsAddUp
<1>1. FlowInv => ReportedCountsAddUp
    <2> SUFFICES ASSUME FlowInv, main = "finished"
                 PROVE  /\ stats.packets = Len(taken)
                        /\ stats.packets = moldudp64_message_count
                                           + Cardinality(RuntsIn(handled)) + (tail - head)
                        /\ message_count = Framed[Len(handled)]
                              + (IF parse_error THEN MessageCount[Slot] - remaining ELSE 0)
        BY DEF ReportedCountsAddUp, RuntsIn
    <2>1. filled = 0 /\ stats.packets = tail /\ Len(taken) = tail + filled
        BY DEF FlowInv, ControlInv, CountsInv, PlacesInv, RingInv, RingTypeOK
    <2>2. tail \in Nat /\ head \in Nat
        BY DEF FlowInv, RingInv, RingTypeOK
    <2>3. moldudp64_message_count + Cardinality(RuntsIn(handled)) = head
        BY DEF FlowInv, CountsInv
    <2>4. message_count = Framed[head] + ParsedOfCurrent /\ Len(handled) = head
        BY FramedSumsUp DEF FlowInv, MessagesInv, PlacesInv
    <2>5. parse_error => Slot = Current
        BY SlotIsCurrent DEF FlowInv, PacketInv
    <2> QED
        BY <2>1, <2>2, <2>3, <2>4, <2>5 DEF ParsedOfCurrent
<1> QED
    BY <1>1, ReceiverInvariant, PTL

\* A run without a failed receive that is recorded as ok ended at an end-of-session packet,
\* with every message framed before it parsed and counted.
THEOREM OkRunsAreComplete == Spec => []OkRunsReachTheEnd
<1>1. FlowInv => OkRunsReachTheEnd
    <2> SUFFICES ASSUME FlowInv, main = "finished", status = "ok", ~rx_failed
                 PROVE  /\ head < tail /\ Slot \in EndOfSession \ Runts
                        /\ message_count = Framed[Len(handled)]
        BY DEF OkRunsReachTheEnd
    <2>1. ~parse_error
        BY DEF status
    <2>2. head < tail /\ Current \in EndOfSession \ Runts
        BY <2>1 DEF FlowInv, PacketInv
    <2>3. Slot = Current
        BY <2>2, SlotIsCurrent DEF FlowInv
    <2>4. ParsedOfCurrent = 0 /\ Len(handled) = head
        BY <2>1 DEF FlowInv, PlacesInv, ParsedOfCurrent
    <2>5. Framed[head] \in Nat /\ message_count = Framed[head] + ParsedOfCurrent
        BY <2>1, FramedSumsUp DEF FlowInv, MessagesInv
    <2> QED
        BY <2>2, <2>3, <2>4, <2>5
<1> QED
    BY <1>1, ReceiverInvariant, PTL
===============================================================================
