----------------------------- MODULE SessionProofs -----------------------------
(***************************************************************************)
(* What a session promises, whatever the file, the packet size, the number  *)
(* of closing packets and the number of faults. The receiver has no timeout *)
(* and yet ends: a closing packet, once sent, is on its way or lost until   *)
(* the receiver has seen one. A session on which the network did nothing    *)
(* builds the book the replay builds, since its packets are stretches of    *)
(* the file and the message loop, a fold over messages, goes on from one    *)
(* stretch to the next. And the reported counts leave what was not          *)
(* delivered. None of it depends on what the book makes of a message.       *)
(***************************************************************************)
EXTENDS Session, SenderProofs, FiniteSetTheorems

\* The last packets sent are the closing ones, as many as the sender counts.
ClosingInv ==
    /\ sent \in Seq(Range(sent))
    /\ repeats \in 0 .. Len(sent)
    /\ phase \in {"packing", "closing"} => repeats = 0
    /\ phase = "ok" => repeats >= EndOfSessionRepeats
    /\ \A k \in Len(sent) - repeats + 1 .. Len(sent) : IsEndOfSession(sent[k])

\* While the receiver listens, no closing packet has disappeared.
NoneHasDisappeared ==
    receiver = "listening" =>
        \A k \in 1 .. Len(sent) :
            IsEndOfSession(sent[k]) => k \in Range(network) \cup Range(lost)

SessionInv ==
    /\ ClosingInv
    /\ network \in Seq(Nat) /\ lost \in Seq(Nat)
    /\ NoneHasDisappeared

----
(* Sequences                                                                *)

\* A sequence that grows at its end.
LEMMA AppendedTo ==
    ASSUME NEW s, s \in Seq(Range(s)), NEW p
    PROVE  /\ Append(s, p) \in Seq(Range(Append(s, p)))
           /\ Len(s) \in Nat
           /\ Len(Append(s, p)) = Len(s) + 1
           /\ Append(s, p)[Len(s) + 1] = p
           /\ \A k \in 1 .. Len(s) : Append(s, p)[k] = s[k]
<1>1. s \in Seq(Range(s) \cup {p})
  BY SeqMonotonic
<1>2. Append(s, p) \in Seq(Range(s) \cup {p})
  BY <1>1
<1>3. Append(s, p) \in Seq(Range(Append(s, p)))
  BY <1>2, SeqOfRange
<1> QED
  BY <1>1, <1>3, AppendProperties

\* Taking the head off a queue loses the head alone.
LEMMA RangeOfTail ==
    ASSUME NEW S, NEW s \in Seq(S), s # <<>>
    PROVE  /\ Tail(s) \in Seq(S) /\ Head(s) \in S
           /\ Range(s) = Range(Tail(s)) \cup {Head(s)}
           /\ Len(Tail(s)) = Len(s) - 1
<1>1. /\ Tail(s) \in Seq(S) /\ Head(s) \in S
      /\ Len(Tail(s)) = Len(s) - 1
      /\ \A i \in 1 .. Len(Tail(s)) : Tail(s)[i] = s[i + 1]
  BY HeadTailProperties
<1>2. ASSUME NEW i \in 1 .. Len(s) PROVE s[i] \in Range(Tail(s)) \cup {Head(s)}
  <2>1. CASE i = 1
    BY <2>1
  <2>2. CASE i # 1
    <3>1. i - 1 \in 1 .. Len(Tail(s)) /\ Tail(s)[i - 1] = s[i]
      BY <1>1, <2>2
    <3>2. Range(Tail(s)) = {Tail(s)[j] : j \in 1 .. Len(Tail(s))}
      BY <1>1, RangeEquality
    <3> QED
      BY <3>1, <3>2
  <2> QED
    BY <2>1, <2>2
<1>3. Range(s) \subseteq Range(Tail(s)) \cup {Head(s)}
  BY <1>2, RangeEquality
<1>4. ASSUME NEW i \in 1 .. Len(Tail(s)) PROVE Tail(s)[i] \in Range(s)
  <2>1. i + 1 \in 1 .. Len(s) /\ Tail(s)[i] = s[i + 1]
    BY <1>1
  <2> QED
    BY <2>1, RangeEquality
<1>5. Range(Tail(s)) \subseteq Range(s)
  <2>1. Range(Tail(s)) = {Tail(s)[i] : i \in 1 .. Len(Tail(s))}
    BY <1>1, RangeEquality
  <2> QED
    BY <1>4, <2>1
<1>6. Head(s) \in Range(s)
  <2>1. Head(s) = s[1] /\ 1 \in 1 .. Len(s)
    OBVIOUS
  <2> QED
    BY <2>1, RangeEquality
<1> QED
  BY <1>1, <1>3, <1>5, <1>6

\* Something put into a sequence leaves all that was there, and is there itself.
LEMMA RangeOfInsertAt ==
    ASSUME NEW S, NEW s \in Seq(S), NEW e \in S, NEW i \in 1 .. Len(s) + 1
    PROVE  /\ InsertAt(s, i, e) \in Seq(S)
           /\ Range(InsertAt(s, i, e)) = Range(s) \cup {e}
           /\ Len(InsertAt(s, i, e)) = Len(s) + 1
<1> DEFINE front == SubSeq(s, 1, i - 1)
           back == SubSeq(s, i, Len(s))
<1>1. Len(s) \in Nat /\ \A k \in 1 .. Len(s) : s[k] \in S
  OBVIOUS
<1>2. front \in Seq(S) /\ back \in Seq(S)
  BY <1>1, SubSeqProperties
<1>3. front \o back = s
  <2>1. SubSeq(s, 1, i - 1) \o SubSeq(s, (i - 1) + 1, Len(s)) = SubSeq(s, 1, Len(s))
    <3>1. PICK n \in Nat : n = Len(s)
      BY <1>1
    <3>2. 1 \in 1 .. n + 1 /\ i - 1 \in 1 - 1 .. n /\ n \in i - 1 .. n
      BY <3>1
    <3> QED
      BY <3>1, <3>2, ConcatAdjacentSubSeq
  <2>2. (i - 1) + 1 = i
    BY <1>1
  <2> QED
    BY <2>1, <2>2, SubSeqFull
<1> HIDE DEF front, back
<1> DEFINE one == <<e>>
           upTo == front \o one
<1>4. one \in Seq(S) /\ Range(one) = {e} /\ Len(one) = 1
  BY DEF Range
<1> HIDE DEF one
<1>5. upTo \in Seq(S) /\ Range(upTo) = Range(front) \cup {e} /\ Len(upTo) = Len(front) + 1
  <2>1. upTo \in Seq(S) /\ Len(upTo) = Len(front) + 1
    BY <1>2, <1>4, ConcatProperties
  <2>2. Range(upTo) = Range(front) \cup Range(one)
    BY <1>2, <1>4, RangeConcatenation
  <2> QED
    BY <1>4, <2>1, <2>2
<1> HIDE DEF upTo
<1>6. upTo \o back \in Seq(S) /\ Len(upTo \o back) = Len(s) + 1
  <2>1. /\ upTo \o back \in Seq(S) /\ Len(upTo \o back) = Len(upTo) + Len(back)
        /\ Len(front \o back) = Len(front) + Len(back)
    BY <1>2, <1>5, ConcatProperties
  <2>2. Len(front) \in Nat /\ Len(back) \in Nat
    BY <1>2
  <2> QED
    BY <1>3, <1>5, <2>1, <2>2
<1>7. Range(upTo \o back) = Range(front) \cup {e} \cup Range(back)
  BY <1>2, <1>5, RangeConcatenation
<1>8. Range(s) = Range(front) \cup Range(back)
  BY <1>2, <1>3, RangeConcatenation, ZenonT(40)
<1> QED
  BY <1>6, <1>7, <1>8 DEF InsertAt, front, back, one, upTo

\* A sequence has no more values than places.
LEMMA RangeIsNoLonger ==
    ASSUME NEW S, NEW s \in Seq(S)
    PROVE  IsFiniteSet(Range(s)) /\ Cardinality(Range(s)) <= Len(s)
<1>1. PICK n \in Nat : n = Len(s)
  OBVIOUS
<1>2. s \in Surjection(1 .. n, Range(s))
  BY <1>1 DEF Surjection, Range
<1>3. IsFiniteSet(1 .. n) /\ Cardinality(1 .. n) = IF 1 > n THEN 0 ELSE n - 1 + 1
  BY FS_Interval
<1>4. IsFiniteSet(Range(s)) /\ Cardinality(Range(s)) <= Cardinality(1 .. n)
  BY <1>2, <1>3, FS_Surjection
<1>5. Cardinality(1 .. n) = n
  BY <1>3
<1> QED
  BY <1>1, <1>4, <1>5

----
(* The session                                                              *)

\* The receiver, or the network, takes the packet in front.
LEMMA FrontIsTaken ==
    ASSUME network \in Seq(Nat), network # <<>>, network' = Tail(network)
    PROVE  /\ network' \in Seq(Nat) /\ Head(network) \in Nat
           /\ Range(network) = Range(network') \cup {Head(network)}
           /\ Len(network') = Len(network) - 1
  BY RangeOfTail

\* A packet that is overtaken is on its way as before.
LEMMA DelayLosesNothing ==
    ASSUME network \in Seq(Nat), Delay
    PROVE  /\ network' \in Seq(Nat)
           /\ Range(network') = Range(network)
           /\ Len(network') = Len(network)
<1>1. network # <<>>
  BY DEF Delay, MayFail
<1>2. PICK k \in 2 .. Len(network) : network' = InsertAt(Tail(network), k, Head(network))
  BY DEF Delay
<1> DEFINE rest == Tail(network)
           first == Head(network)
<1>3. /\ rest \in Seq(Nat) /\ first \in Nat /\ Len(rest) = Len(network) - 1
      /\ Range(network) = Range(rest) \cup {first}
  BY <1>1, RangeOfTail
<1>4. k \in 1 .. Len(rest) + 1 /\ Len(network) \in Nat
  BY <1>3
<1> HIDE DEF rest, first
<1>5. /\ InsertAt(rest, k, first) \in Seq(Nat)
      /\ Range(InsertAt(rest, k, first)) = Range(rest) \cup {first}
      /\ Len(InsertAt(rest, k, first)) = Len(rest) + 1
  <2>1. PICK S : S = Nat
    OBVIOUS
  <2>2. rest \in Seq(S) /\ first \in S
    BY <1>3, <2>1
  <2>3. /\ InsertAt(rest, k, first) \in Seq(S)
        /\ Range(InsertAt(rest, k, first)) = Range(rest) \cup {first}
        /\ Len(InsertAt(rest, k, first)) = Len(rest) + 1
    BY <1>4, <2>2, RangeOfInsertAt
  <2> QED
    BY <2>1, <2>3
<1> QED
  BY <1>2, <1>3, <1>4, <1>5 DEF rest, first

\* What a step of the sender does to the packets sent: it adds at most one, behind them.
LEMMA SenderStep ==
    ASSUME ClosingInv, Next
    PROVE  /\ ClosingInv'
           /\ Len(sent') \in {Len(sent), Len(sent) + 1}
           /\ \A k \in 1 .. Len(sent) : sent'[k] = sent[k]
<1> USE DEF ClosingInv
<1>1. Len(sent) \in Nat
  OBVIOUS
<1>2. ASSUME UNCHANGED <<sent, repeats>>, phase' # "ok", phase' \in {"packing", "closing"} => repeats = 0
      PROVE  /\ ClosingInv'
             /\ Len(sent') \in {Len(sent), Len(sent) + 1}
             /\ \A k \in 1 .. Len(sent) : sent'[k] = sent[k]
  BY <1>2
<1>3. ASSUME NEW p, sent' = Append(sent, p), repeats = 0, repeats' = 0, phase' # "ok"
      PROVE  /\ ClosingInv'
             /\ Len(sent') \in {Len(sent), Len(sent) + 1}
             /\ \A k \in 1 .. Len(sent) : sent'[k] = sent[k]
  BY <1>1, <1>3, AppendedTo
<1>4. CASE PackMessage
  BY <1>2, <1>4 DEF PackMessage
<1>5. CASE SendFullPacket
  BY <1>3, <1>5 DEF SendFullPacket, Send
<1>6. CASE FlushLastPacket
  BY <1>3, <1>6 DEF FlushLastPacket, Send
<1>7. CASE NothingToFlush
  BY <1>2, <1>7 DEF NothingToFlush
<1>8. CASE EndSession
  BY <1>2, <1>8 DEF EndSession
<1>9. CASE SendEndOfSession
  <2> DEFINE p == PacketOf(builder, EndOfSessionCount)
  <2>1. /\ sent' = Append(sent, p) /\ repeats' = repeats + 1
        /\ phase = "repeating" /\ phase' = "repeating"
    BY <1>9 DEF SendEndOfSession, Send
  <2>2. IsEndOfSession(p)
    BY DEF IsEndOfSession, PacketOf
  <2> HIDE DEF p
  <2>3. /\ sent' \in Seq(Range(sent')) /\ Len(sent') = Len(sent) + 1
        /\ sent'[Len(sent) + 1] = p /\ \A k \in 1 .. Len(sent) : sent'[k] = sent[k]
    BY <2>1, AppendedTo
  <2>4. ASSUME NEW k \in Len(sent') - repeats' + 1 .. Len(sent') PROVE IsEndOfSession(sent'[k])
    <3>1. CASE k = Len(sent) + 1
      BY <2>2, <2>3, <3>1
    <3>2. CASE k # Len(sent) + 1
      <4>1. k \in Len(sent) - repeats + 1 .. Len(sent) /\ k \in 1 .. Len(sent)
        BY <1>1, <2>1, <2>3, <3>2
      <4> QED
        BY <2>3, <4>1
    <3> QED
      BY <3>1, <3>2
  <2> QED
    BY <1>1, <2>1, <2>3, <2>4
<1>10. CASE Finish
  <2>1. /\ UNCHANGED <<sent, repeats>> /\ phase' = "ok"
        /\ ~(repeats < EndOfSessionRepeats)
    BY <1>10 DEF Finish, RepeatsLeft
  <2> QED
    BY <1>1, <2>1, RepeatAssumption
<1>11. CASE SendFails
  BY <1>2, <1>11 DEF SendFails
<1>12. CASE Terminated
  BY <1>1, <1>12 DEF Terminated, vars
<1> QED
  BY <1>4, <1>5, <1>6, <1>7, <1>8, <1>9, <1>10, <1>11, <1>12 DEF Next

\* The invariant of the session.
THEOREM SessionInvariant == SessionSpec => []SessionInv
<1>1. SessionInit => SessionInv
  <2> SUFFICES ASSUME SessionInit PROVE SessionInv
    OBVIOUS
  <2>1. sent = <<>> /\ repeats = 0 /\ phase = "packing"
    BY DEF SessionInit, Init
  <2>2. network = <<>> /\ lost = <<>>
    BY DEF SessionInit
  <2>3. \A S : <<>> \in Seq(S)
    OBVIOUS
  <2>4. Len(sent) = 0
    BY <2>1
  <2> QED
    BY <2>1, <2>2, <2>3, <2>4 DEF SessionInv, ClosingInv, NoneHasDisappeared
<1>2. SessionInv /\ [SessionNext]_sessionVars => SessionInv'
  <2> SUFFICES ASSUME SessionInv, [SessionNext]_sessionVars PROVE SessionInv'
    OBVIOUS
  <2>0. /\ ClosingInv /\ NoneHasDisappeared
        /\ network \in Seq(Nat) /\ lost \in Seq(Nat)
    BY DEF SessionInv
  <2>1. /\ Len(sent) \in Nat
        /\ Range(network) \subseteq Nat /\ Range(lost) \subseteq Nat
    BY <2>0, RangeOfSeq DEF ClosingInv
  <2>2. UNCHANGED senderVars => ClosingInv'
    BY <2>0 DEF ClosingInv, senderVars, vars
  \* Steps that leave the sender alone and lose no index.
  <2>3. ASSUME UNCHANGED senderVars, UNCHANGED receiver,
               network' \in Seq(Nat), lost' \in Seq(Nat),
               Range(network) \cup Range(lost) \subseteq Range(network') \cup Range(lost')
        PROVE  SessionInv'
    <3>1. NoneHasDisappeared'
      BY <2>0, <2>3 DEF NoneHasDisappeared, senderVars, vars
    <3> QED
      BY <2>2, <2>3, <3>1 DEF SessionInv
  <2>4. CASE SenderMoves
    <3> DEFINE n == Len(sent)
               added == [k \in 1 .. Len(sent') - n |-> n + k]
    <3>1. /\ Next /\ network' = network \o added
          /\ UNCHANGED <<lost, receiver>>
      BY <2>4 DEF SenderMoves, faults
    <3>2. /\ ClosingInv' /\ Len(sent') \in {n, n + 1}
          /\ \A k \in 1 .. n : sent'[k] = sent[k]
      BY <2>0, <3>1, SenderStep
    <3>3. /\ added \in Seq(Nat)
          /\ \A k \in n + 1 .. Len(sent') : k \in Range(added)
      <4>1. PICK d \in {0, 1} : Len(sent') = n + d /\ Len(sent') - n = d
        BY <2>1, <3>2
      <4>2. added = [k \in 1 .. d |-> n + k]
        BY <4>1
      <4>3. added \in Seq(Nat)
        BY <2>1, <4>1, <4>2
      <4>4. ASSUME NEW k \in n + 1 .. Len(sent') PROVE k \in Range(added)
        <5>1. d = 1 /\ k = n + 1
          BY <2>1, <4>1
        <5>2. 1 \in DOMAIN added /\ added[1] = k
          BY <4>2, <5>1
        <5> QED
          BY <5>2 DEF Range
      <4> QED
        BY <4>3, <4>4
    <3> HIDE DEF added
    <3>4. network' \in Seq(Nat) /\ Range(network') = Range(network) \cup Range(added)
      <4>1. network' \in Seq(Nat)
        BY <2>0, <3>1, <3>3, ConcatProperties
      <4>2. Range(network') = Range(network) \cup Range(added)
        BY <2>0, <3>1, <3>3, RangeConcatenation
      <4> QED
        BY <4>1, <4>2
    <3>5. ASSUME receiver' = "listening", NEW k \in 1 .. Len(sent'), IsEndOfSession(sent'[k])
          PROVE  k \in Range(network') \cup Range(lost')
      <4>1. CASE k \in 1 .. n
        BY <2>0, <3>1, <3>2, <3>4, <3>5, <4>1 DEF NoneHasDisappeared
      <4>2. CASE k \in n + 1 .. Len(sent')
        BY <3>3, <3>4, <4>2
      <4> QED
        BY <2>1, <3>2, <4>1, <4>2
    <3> QED
      BY <2>0, <3>1, <3>2, <3>4, <3>5 DEF SessionInv, NoneHasDisappeared
  <2>5. CASE Lose
    <3>1. /\ network # <<>> /\ lost' = Append(lost, Head(network)) /\ network' = Tail(network)
          /\ UNCHANGED <<senderVars, receiver>>
      BY <2>5 DEF Lose, MayFail
    <3>2. /\ network' \in Seq(Nat) /\ Head(network) \in Nat
          /\ Range(network) \subseteq Range(network') \cup {Head(network)}
      BY <2>0, <3>1, RangeOfTail
    <3>3. lost' \in Seq(Nat) /\ Range(lost') = Range(lost) \cup {Head(network)}
      <4> DEFINE one == <<Head(network)>>
      <4>1. one \in Seq(Nat) /\ Range(one) = {Head(network)}
        BY <3>2 DEF Range
      <4>2. lost' = lost \o one
        BY <2>0, <3>1, <3>2, AppendIsConcat
      <4> HIDE DEF one
      <4>3. lost' \in Seq(Nat)
        BY <2>0, <4>1, <4>2, ConcatProperties
      <4>4. Range(lost') = Range(lost) \cup Range(one)
        BY <2>0, <4>1, <4>2, RangeConcatenation
      <4> QED
        BY <4>1, <4>3, <4>4
    <3> QED
      BY <2>3, <3>1, <3>2, <3>3
  <2>6. CASE Duplicate
    <3> DEFINE one == <<Head(network)>>
    <3>1. /\ network # <<>> /\ network' = one \o network
          /\ UNCHANGED <<senderVars, receiver, lost>>
      BY <2>6 DEF Duplicate, MayFail
    <3>2. one \in Seq(Nat)
      BY <2>0, <3>1, RangeOfTail
    <3> HIDE DEF one
    <3>3. network' \in Seq(Nat)
      BY <2>0, <3>1, <3>2, ConcatProperties
    <3>4. Range(network') = Range(one) \cup Range(network)
      BY <2>0, <3>1, <3>2, RangeConcatenation
    <3> QED
      BY <2>0, <2>3, <3>1, <3>3, <3>4
  <2>7. CASE Delay
    <3>1. /\ network # <<>> /\ UNCHANGED <<senderVars, receiver, lost>>
      BY <2>7 DEF Delay, MayFail
    <3>2. network' \in Seq(Nat) /\ Range(network') = Range(network)
      BY <2>0, <2>7, DelayLosesNothing
    <3> QED
      BY <2>0, <2>3, <3>1, <3>2
  <2>8. CASE ParseEndOfSession
    <3>1. /\ network # <<>> /\ network' = Tail(network) /\ receiver' = "ended"
          /\ UNCHANGED <<senderVars, lost>>
      BY <2>8 DEF ParseEndOfSession, Listening, faults
    <3>2. network' \in Seq(Nat)
      BY <2>0, <3>1, RangeOfTail
    <3> QED
      BY <2>0, <2>2, <3>1, <3>2 DEF SessionInv, NoneHasDisappeared
  <2>9. CASE ParsePacket
    <3>1. /\ network # <<>> /\ network' = Tail(network) /\ ~IsEndOfSession(sent[Head(network)])
          /\ receiver = "listening" /\ UNCHANGED <<senderVars, lost>>
      BY <2>9 DEF ParsePacket, Listening, Packet, faults
    <3>2. /\ network' \in Seq(Nat)
          /\ Range(network) \subseteq Range(network') \cup {Head(network)}
      BY <2>0, <3>1, RangeOfTail
    <3>3. UNCHANGED <<sent, lost>>
      BY <3>1 DEF senderVars, vars
    <3>4. ASSUME NEW k \in 1 .. Len(sent), IsEndOfSession(sent[k])
          PROVE  k \in Range(network') \cup Range(lost)
      <4>1. k # Head(network)
        BY <3>1, <3>4
      <4> QED
        BY <2>0, <3>1, <3>2, <3>4, <4>1 DEF NoneHasDisappeared
    <3>5. NoneHasDisappeared'
      BY <3>3, <3>4 DEF NoneHasDisappeared
    <3> QED
      BY <2>0, <2>2, <3>1, <3>2, <3>3, <3>5 DEF SessionInv
  <2>10. CASE UNCHANGED sessionVars
    BY <2>0, <2>2, <2>10 DEF sessionVars, senderVars, vars, faults, SessionInv, NoneHasDisappeared
  <2> QED
    BY <2>4, <2>5, <2>6, <2>7, <2>8, <2>9, <2>10 DEF SessionNext
<1> QED
  BY <1>1, <1>2, PTL DEF SessionSpec

\* While the network loses fewer packets than the session is closed with, a listening
\* receiver still has a closing packet to come when the sender is done.
THEOREM TheEndArrives == SessionSpec => []AnEndIsOnItsWay
<1>1. ASSUME SessionInv PROVE AnEndIsOnItsWay
  <2> SUFFICES ASSUME phase = "ok", receiver = "listening", Len(lost) < EndOfSessionRepeats,
                      \A k \in DOMAIN network : ~IsEndOfSession(sent[network[k]])
               PROVE  FALSE
    BY DEF AnEndIsOnItsWay
  <2>0. /\ ClosingInv /\ NoneHasDisappeared
        /\ network \in Seq(Nat) /\ lost \in Seq(Nat)
    BY <1>1 DEF SessionInv
  <2>1. /\ Len(sent) \in Nat /\ repeats \in 0 .. Len(sent) /\ repeats >= EndOfSessionRepeats
        /\ EndOfSessionRepeats \in Nat /\ Len(lost) \in Nat
    BY <2>0, RepeatAssumption DEF ClosingInv
  <2> DEFINE ends == Len(sent) - repeats + 1 .. Len(sent)
  <2>2. ends \subseteq Range(lost)
    <3> SUFFICES ASSUME NEW k \in ends PROVE k \in Range(lost)
      OBVIOUS
    <3>1. k \in 1 .. Len(sent) /\ IsEndOfSession(sent[k])
      BY <2>0, <2>1 DEF ClosingInv
    <3>2. k \in Range(network) \cup Range(lost)
      BY <2>0, <3>1 DEF NoneHasDisappeared
    <3>3. k \notin Range(network)
      BY <3>1 DEF Range
    <3> QED
      BY <3>2, <3>3
  <2>3. Cardinality(ends) = repeats
    <3>1. PICK n \in Nat, r \in Nat : n = Len(sent) /\ r = repeats
      BY <2>1
    <3>2. n - r + 1 \in Int /\ n \in Int
      BY <3>1
    <3>3. Cardinality(n - r + 1 .. n) = IF n - r + 1 > n THEN 0 ELSE n - (n - r + 1) + 1
      BY <3>2, FS_Interval
    <3> QED
      BY <3>1, <3>3
  <2> HIDE DEF ends
  <2>4. IsFiniteSet(Range(lost)) /\ Cardinality(Range(lost)) <= Len(lost)
    BY <2>0, RangeIsNoLonger
  <2>5. /\ Cardinality(ends) <= Cardinality(Range(lost))
        /\ Cardinality(Range(lost)) \in Nat
    BY <2>2, <2>4, FS_Subset, FS_CardinalityType
  <2> QED
    BY <2>1, <2>3, <2>4, <2>5
<1> QED
  BY <1>1, SessionInvariant, PTL

----
(* The message loop                                                         *)

\* What the loop makes of the run r.
Passed(r, messages) == FoldLeft(ParseNext, r, messages)

\* f says what the loop makes of each choice of the messages, the last one last.
Folds(f, r, messages) ==
    f = [s \in SUBSET DOMAIN messages |->
            IF s = {} THEN r ELSE ParseNext(f[s \ {Max(s)}], messages[Max(s)])]

\* The library's fold is one of these functions, where there is one.
LEMMA PassedIsAFold ==
    ASSUME NEW r, NEW messages, \E f : Folds(f, r, messages)
    PROVE  \E f : Folds(f, r, messages) /\ Passed(r, messages) = f[DOMAIN messages]
<1> DEFINE Step(f) == [s \in SUBSET DOMAIN messages |->
                          IF s = {} THEN r ELSE ParseNext(f[s \ {Max(s)}], messages[Max(s)])]
           iter == CHOOSE f : f = Step(f)
<1>1. iter = Step(iter)
  BY Zenon DEF Folds
<1>2. Passed(r, messages) = iter[DOMAIN messages]
  BY Zenon DEF Passed, FoldLeft, MapThenFoldSet
<1> QED
  BY Zenon, <1>1, <1>2 DEF Folds

\* Receiver and replay run the same loop: both are warmed up after the same message.
LEMMA ReplayIsTheSame == ASSUME NEW c PROVE Replayed(c) = Passed(NewRun, c)
  BY Zenon DEF Replayed, Passed, FoldLeft, MapThenFoldSet, ReplayNext, ParseNext, WarmedUp

\* What the fold takes last is the largest position of those chosen.
LEMMA LastOf ==
    ASSUME NEW n \in Nat, NEW s \in SUBSET (1 .. n), s # {}
    PROVE  /\ Max(s) \in s /\ \A k \in s : k <= Max(s)
           /\ s \ {Max(s)} \in SUBSET (1 .. Max(s) - 1)
<1> DEFINE bounds == {b \in 0 .. n : \A k \in s : k <= b}
<1>1. n \in bounds /\ bounds \in SUBSET Nat
  OBVIOUS
<1>2. PICK b \in bounds : \A c \in bounds : b <= c
  BY <1>1, LeastOf, Zenon
<1>3. b \in s
  <2> SUFFICES ASSUME b \notin s PROVE FALSE
    OBVIOUS
  <2>1. PICK k \in s : TRUE
    OBVIOUS
  <2>2. \A m \in s : m <= b - 1
    OBVIOUS
  <2>3. b - 1 \in bounds
    BY <2>1, <2>2
  <2> QED
    BY <1>2, <2>3
<1>4. \A k \in s : b >= k
  OBVIOUS
<1>5. Max(s) \in s /\ \A k \in s : Max(s) >= k
  BY <1>3, <1>4, Zenon DEF Max
<1> HIDE DEF bounds
<1> DEFINE m == Max(s)
<1>6. m \in s /\ \A k \in s : m >= k
  BY <1>5
<1> HIDE DEF m
<1>7. m \in s /\ (\A k \in s : k <= m) /\ s \ {m} \in SUBSET (1 .. m - 1)
  BY <1>6
<1> QED
  BY <1>7 DEF m

\* Whatever the messages, there is such a function.
LEMMA SomethingFolds ==
    ASSUME NEW r, NEW S, NEW messages \in Seq(S)
    PROVE  \E f : Folds(f, r, messages)
<1> DEFINE OnFirst(f, n) ==
               f = [s \in SUBSET (1 .. n) |->
                       IF s = {} THEN r ELSE ParseNext(f[s \ {Max(s)}], messages[Max(s)])]
           bad == {n \in 0 .. Len(messages) : ~\E f : OnFirst(f, n)}
<1>1. ASSUME NEW n \in Nat, NEW f, OnFirst(f, n)
      PROVE  \E g : OnFirst(g, n + 1)
  <2> DEFINE g == [s \in SUBSET (1 .. n + 1) |->
                      IF n + 1 \in s THEN ParseNext(f[s \ {n + 1}], messages[n + 1]) ELSE f[s]]
  <2>1. ASSUME NEW s \in SUBSET (1 .. n + 1)
        PROVE  g[s] = IF s = {} THEN r ELSE ParseNext(g[s \ {Max(s)}], messages[Max(s)])
    <3>1. CASE n + 1 \in s
      <4>1. Max(s) = n + 1
        <5>1. n + 1 \in Nat /\ s # {}
          BY <3>1
        <5>2. Max(s) \in s /\ n + 1 <= Max(s)
          BY <3>1, <5>1, LastOf
        <5>3. \A k \in s : n + 1 <= k => k = n + 1
          OBVIOUS
        <5> QED
          BY <5>2, <5>3
      <4>2. s \ {n + 1} \in SUBSET (1 .. n) /\ s \ {n + 1} \in SUBSET (1 .. n + 1)
            /\ n + 1 \notin s \ {n + 1}
        OBVIOUS
      <4>3. g[s \ {n + 1}] = f[s \ {n + 1}]
        BY <4>2
      <4>4. g[s] = ParseNext(f[s \ {n + 1}], messages[n + 1])
        BY <3>1
      <4> QED
        BY <3>1, <4>1, <4>3, <4>4
    <3>2. CASE n + 1 \notin s
      <4>1. s \in SUBSET (1 .. n)
        BY <3>2
      <4>2. f[s] = IF s = {} THEN r ELSE ParseNext(f[s \ {Max(s)}], messages[Max(s)])
        BY <1>1, <4>1, Zenon
      <4>3. g[s] = f[s]
        BY <3>2
      <4>4. g[s \ {Max(s)}] = f[s \ {Max(s)}]
        <5>1. s \ {Max(s)} \in SUBSET (1 .. n + 1) /\ n + 1 \notin s \ {Max(s)}
          BY <3>2
        <5> QED
          BY <5>1
      <4> QED
        BY <4>2, <4>3, <4>4
    <3> QED
      BY <3>1, <3>2
  <2>2. OnFirst(g, n + 1)
    <3>1. g = [s \in SUBSET (1 .. n + 1) |-> g[s]]
      OBVIOUS
    <3> HIDE DEF g
    <3> QED
      BY <2>1, <3>1, Zenon
  <2> QED
    BY <2>2
<1>2. \E f : OnFirst(f, 0)
  <2> DEFINE f == [s \in SUBSET (1 .. 0) |-> r]
  <2>1. ASSUME NEW s \in SUBSET (1 .. 0) PROVE s = {}
    OBVIOUS
  <2>2. OnFirst(f, 0)
    BY <2>1, Zenon
  <2> QED
    BY <2>2
<1> HIDE DEF OnFirst
<1>3. Len(messages) \in Nat /\ DOMAIN messages = 1 .. Len(messages)
  OBVIOUS
<1>4. bad = {}
  <2> SUFFICES ASSUME bad # {} PROVE FALSE
    OBVIOUS
  <2>1. bad \in SUBSET Nat
    BY <1>3
  <2>2. PICK n \in bad : \A m \in bad : n <= m
    BY <2>1, LeastOf
  <2>3. n # 0
    BY <1>2, <2>2
  <2>4. n - 1 \in Nat /\ n - 1 \in 0 .. Len(messages) /\ ~(n <= n - 1) /\ (n - 1) + 1 = n
    BY <1>3, <2>2, <2>3
  <2>5. PICK f : OnFirst(f, n - 1)
    BY <2>2, <2>4
  <2>6. \E g : OnFirst(g, (n - 1) + 1)
    BY <1>1, <2>4, <2>5, Zenon
  <2> QED
    BY <2>2, <2>4, <2>6
<1>5. PICK f : OnFirst(f, Len(messages))
  BY <1>3, <1>4
<1> QED
  BY <1>3, <1>5, Zenon DEF OnFirst, Folds

\* The loop over the first messages does not look at those behind them.
LEMMA FoldsAgree ==
    ASSUME NEW r, NEW S, NEW short \in Seq(S), NEW long \in Seq(S),
           Len(short) <= Len(long), \A k \in 1 .. Len(short) : long[k] = short[k],
           NEW f, Folds(f, r, short), NEW g, Folds(g, r, long)
    PROVE  g[DOMAIN short] = f[DOMAIN short]
<1> DEFINE n == Len(short)
           Differ(k) == \E s \in SUBSET (1 .. k) : g[s] # f[s]
           bad == {k \in 0 .. n : Differ(k)}
<1>1. n \in Nat /\ DOMAIN short = 1 .. n /\ DOMAIN long = 1 .. Len(long) /\ Len(long) \in Nat
  OBVIOUS
<1>2. ASSUME NEW s \in SUBSET (1 .. n)
      PROVE  /\ f[s] = IF s = {} THEN r ELSE ParseNext(f[s \ {Max(s)}], short[Max(s)])
             /\ g[s] = IF s = {} THEN r ELSE ParseNext(g[s \ {Max(s)}], long[Max(s)])
  <2>1. s \in SUBSET DOMAIN short /\ s \in SUBSET DOMAIN long
    BY <1>1
  <2> QED
    BY <2>1, Zenon DEF Folds
<1>3. bad = {}
  <2> SUFFICES ASSUME bad # {} PROVE FALSE
    OBVIOUS
  <2>1. bad \in SUBSET Nat
    BY <1>1
  <2>2. PICK k \in bad : \A m \in bad : k <= m
    BY <2>1, LeastOf
  <2>3. PICK s \in SUBSET (1 .. k) : g[s] # f[s]
    BY <2>2
  <2>4. k \in 0 .. n /\ s \in SUBSET (1 .. n)
    BY <1>1, <2>2
  <2>5. s # {}
    BY <1>2, <2>3, <2>4
  <2> DEFINE m == Max(s)
  <2>6. m \in s /\ s \ {m} \in SUBSET (1 .. m - 1)
    BY <1>1, <2>4, <2>5, LastOf
  <2>7. g[s] = ParseNext(g[s \ {m}], long[m]) /\ f[s] = ParseNext(f[s \ {m}], short[m])
    BY <1>2, <2>4, <2>5
  <2> HIDE DEF m
  <2>8. m \in 1 .. n /\ m - 1 \in 0 .. n /\ ~(k <= m - 1)
    BY <1>1, <2>2, <2>4, <2>6
  <2>9. ~Differ(m - 1)
    BY <2>2, <2>8
  <2>10. g[s \ {m}] = f[s \ {m}]
    BY <2>6, <2>9
  <2> QED
    BY <2>3, <2>7, <2>8, <2>10
<1>4. ~Differ(n)
  BY <1>1, <1>3
<1> QED
  BY <1>1, <1>4

\* Without messages the loop does nothing.
LEMMA PassedNothing == ASSUME NEW r PROVE Passed(r, <<>>) = r
<1>1. DOMAIN <<>> = {} /\ <<>> \in Seq({})
  OBVIOUS
<1>2. \E f : Folds(f, r, <<>>)
  BY <1>1, SomethingFolds
<1>3. PICK f : Folds(f, r, <<>>) /\ Passed(r, <<>>) = f[DOMAIN <<>>]
  BY <1>2, PassedIsAFold
<1>4. {} \in SUBSET DOMAIN <<>>
  OBVIOUS
<1>5. f[{}] = r
  BY <1>3, <1>4, Zenon DEF Folds
<1> QED
  BY <1>1, <1>3, <1>5

\* The loop takes one message after the other.
LEMMA PassedOneMore ==
    ASSUME NEW r, NEW S, NEW messages \in Seq(S), NEW msg \in S
    PROVE  Passed(r, Append(messages, msg)) = ParseNext(Passed(r, messages), msg)
<1> DEFINE more == Append(messages, msg)
           n == Len(messages)
<1>1. /\ n \in Nat /\ more \in Seq(S) /\ Len(more) = n + 1 /\ more[n + 1] = msg
      /\ \A k \in 1 .. n : more[k] = messages[k]
      /\ DOMAIN messages = 1 .. n /\ DOMAIN more = 1 .. n + 1
  BY AppendProperties
<1> HIDE DEF more
<1>2. PICK f : Folds(f, r, messages) /\ Passed(r, messages) = f[DOMAIN messages]
  BY SomethingFolds, PassedIsAFold
<1>3. PICK g : Folds(g, r, more) /\ Passed(r, more) = g[DOMAIN more]
  BY <1>1, SomethingFolds, PassedIsAFold
<1>4. g[DOMAIN messages] = f[DOMAIN messages]
  BY <1>1, <1>2, <1>3, FoldsAgree
<1> DEFINE all == 1 .. n + 1
<1>5. Max(all) = n + 1 /\ all \ {Max(all)} = 1 .. n /\ all # {}
  <2>1. all # {} /\ n + 1 \in all /\ all \in SUBSET (1 .. n + 1)
    BY <1>1
  <2>2. Max(all) \in all /\ n + 1 <= Max(all)
    <3>1. n + 1 \in Nat
      BY <1>1
    <3> HIDE DEF all
    <3> QED
      BY <2>1, <3>1, LastOf
  <2>3. Max(all) = n + 1
    BY <1>1, <2>2
  <2> QED
    BY <1>1, <2>1, <2>3
<1>6. g[all] = ParseNext(g[all \ {Max(all)}], more[Max(all)])
  <2>1. all \in SUBSET DOMAIN more
    BY <1>1
  <2> QED
    BY <1>3, <1>5, <2>1, Zenon DEF Folds
<1> QED
  BY <1>1, <1>2, <1>3, <1>4, <1>5, <1>6 DEF more

\* The counts of a run are numbers; its book is whatever the book makes of it.
IsRun(r) == r \in [book : {r.book}, messages : Nat, recorded : Nat, packets : Nat]

\* A run without its count of packets, which the replay does not have.
Uncounted(r) == [r EXCEPT !.packets = 0]

\* A message is counted if the book takes it, and changes nothing after one it did not take.
LEMMA OneMessage ==
    ASSUME NEW r, IsRun(r), NEW msg
    PROVE  LET q == ParseNext(r, msg)
           IN  /\ IsRun(q) /\ q.packets = r.packets
               /\ Running(q) => Running(r) /\ q.messages = r.messages + 1
               /\ ~Running(r) => q = r
               /\ Uncounted(q) = ParseNext(Uncounted(r), msg)
<1> DEFINE b == ParseMessage(r.book, msg)
<1>1. /\ Uncounted(r).book = r.book /\ Uncounted(r).messages = r.messages
      /\ Running(Uncounted(r)) <=> Running(r)
      /\ WarmedUp(Uncounted(r)) <=> WarmedUp(r)
  BY DEF IsRun, Uncounted, Running, WarmedUp
<1>2. /\ ParseNext(r, msg) =
             IF ~Running(r) THEN r
             ELSE IF b.status # "running" THEN [r EXCEPT !.book = b]
             ELSE [r EXCEPT !.book = b, !.messages = @ + 1,
                            !.recorded = IF WarmedUp(r) THEN @ + 1 ELSE @]
      /\ ParseNext(Uncounted(r), msg) =
             IF ~Running(r) THEN Uncounted(r)
             ELSE IF b.status # "running" THEN [Uncounted(r) EXCEPT !.book = b]
             ELSE [Uncounted(r) EXCEPT !.book = b, !.messages = @ + 1,
                                       !.recorded = IF WarmedUp(r) THEN @ + 1 ELSE @]
  BY <1>1, Zenon DEF ParseNext, Pass
<1> HIDE DEF b
<1>3. CASE ~Running(r)
  BY <1>2, <1>3
<1>4. CASE Running(r) /\ b.status # "running"
  <2>1. ParseNext(r, msg) = [r EXCEPT !.book = b]
    BY <1>2, <1>4
  <2>2. ParseNext(Uncounted(r), msg) = [Uncounted(r) EXCEPT !.book = b]
    BY <1>2, <1>4
  <2> QED
    BY <1>4, <2>1, <2>2 DEF IsRun, Uncounted, Running
<1>5. CASE Running(r) /\ ~(b.status # "running")
  <2> DEFINE c == IF WarmedUp(r) THEN r.recorded + 1 ELSE r.recorded
  <2>1. c \in Nat /\ r.messages + 1 \in Nat
    BY DEF IsRun
  <2>2. /\ ParseNext(r, msg) = [r EXCEPT !.book = b, !.messages = r.messages + 1, !.recorded = c]
        /\ ParseNext(Uncounted(r), msg) =
              [Uncounted(r) EXCEPT !.book = b, !.messages = r.messages + 1, !.recorded = c]
    BY <1>2, <1>5 DEF IsRun, Uncounted
  <2> HIDE DEF c
  <2> QED
    BY <1>5, <2>1, <2>2 DEF IsRun, Uncounted, Running
<1> QED
  BY <1>3, <1>4, <1>5

\* The messages one after the other, whatever they are.
LEMMA AllMessages ==
    ASSUME NEW r, IsRun(r), NEW S, NEW messages \in Seq(S)
    PROVE  LET q == Passed(r, messages)
           IN  /\ IsRun(q) /\ q.packets = r.packets
               /\ Running(q) => q.messages = r.messages + Len(messages)
               /\ ~Running(r) => q = r
               /\ Uncounted(q) = Passed(Uncounted(r), messages)
<1> DEFINE P(s) == /\ IsRun(Passed(r, s)) /\ Passed(r, s).packets = r.packets
                   /\ Running(Passed(r, s)) => Passed(r, s).messages = r.messages + Len(s)
                   /\ ~Running(r) => Passed(r, s) = r
                   /\ Uncounted(Passed(r, s)) = Passed(Uncounted(r), s)
           bad == {k \in 0 .. Len(messages) : ~P(SubSeq(messages, 1, k))}
<1>1. Len(messages) \in Nat
  OBVIOUS
<1>2. P(<<>>)
  <2>1. Len(<<>>) = 0 /\ r.messages + 0 = r.messages
    BY DEF IsRun
  <2> QED
    BY <2>1, PassedNothing
<1>3. ASSUME NEW s \in Seq(S), NEW msg \in S, P(s) PROVE P(Append(s, msg))
  <2> DEFINE q == Passed(r, s)
  <2>1. /\ IsRun(q) /\ Uncounted(q) = Passed(Uncounted(r), s) /\ (~Running(r) => q = r)
        /\ q.packets = r.packets
        /\ Running(q) => q.messages = r.messages + Len(s)
    BY <1>3
  <2>2. /\ Passed(r, Append(s, msg)) = ParseNext(q, msg)
        /\ Passed(Uncounted(r), Append(s, msg)) = ParseNext(Uncounted(q), msg)
    BY <2>1, PassedOneMore
  <2>3. Len(Append(s, msg)) = Len(s) + 1 /\ Len(s) \in Nat /\ r.messages \in Nat
    BY AppendProperties DEF IsRun
  <2> HIDE DEF q
  <2> DEFINE t == ParseNext(q, msg)
  <2>4. /\ IsRun(t) /\ (Running(t) => Running(q) /\ t.messages = q.messages + 1)
        /\ (~Running(q) => t = q) /\ Uncounted(t) = ParseNext(Uncounted(q), msg)
        /\ t.packets = q.packets
    BY <2>1, OneMessage
  <2> HIDE DEF t
  <2>5. ASSUME Running(t) PROVE t.messages = r.messages + (Len(s) + 1)
    <3>1. Running(q) /\ t.messages = q.messages + 1
      BY <2>4, <2>5
    <3>2. q.messages = r.messages + Len(s)
      BY <2>1, <3>1
    <3>3. Len(s) \in Nat /\ r.messages \in Nat
      BY <2>3
    <3> QED
      BY <3>1, <3>2, <3>3
  <2>6. Passed(r, Append(s, msg)) = t
    BY <2>2 DEF t
  <2> QED
    BY <2>1, <2>2, <2>3, <2>4, <2>5, <2>6
<1> HIDE DEF P
<1>4. bad = {}
  <2> SUFFICES ASSUME bad # {} PROVE FALSE
    OBVIOUS
  <2>1. bad \in SUBSET Nat
    BY <1>1
  <2>2. PICK k \in bad : \A m \in bad : k <= m
    BY <2>1, LeastOf
  <2>3. CASE k = 0
    <3>1. SubSeq(messages, 1, 0) = <<>>
      OBVIOUS
    <3> QED
      BY <1>2, <2>2, <2>3, <3>1
  <2>4. CASE k # 0
    <3>1. k \in 1 .. Len(messages) /\ k - 1 \in 0 .. Len(messages) /\ ~(k <= k - 1)
      BY <1>1, <2>2, <2>4
    <3>2. P(SubSeq(messages, 1, k - 1))
      BY <2>2, <3>1
    <3>3. Append(SubSeq(messages, 1, k - 1), messages[k]) = SubSeq(messages, 1, k)
      <4>1. 1 \in 1 .. k
        BY <3>1
      <4> QED
        BY <3>1, <4>1, SubSeqGrows
    <3>4. SubSeq(messages, 1, k - 1) \in Seq(S) /\ messages[k] \in S
      BY <1>1, <3>1, SubSeqProperties
    <3>5. P(Append(SubSeq(messages, 1, k - 1), messages[k]))
      BY <1>3, <3>2, <3>4, Zenon
    <3> QED
      BY <2>2, <3>3, <3>5
  <2> QED
    BY <2>3, <2>4
<1>5. P(SubSeq(messages, 1, Len(messages)))
  BY <1>1, <1>4
<1>6. SubSeq(messages, 1, Len(messages)) = messages
  BY SubSeqFull
<1> QED
  BY <1>5, <1>6 DEF P

\* The loop over a stretch goes on from where the loop up to it ended.
LEMMA PassedOn ==
    ASSUME NEW r, NEW S, NEW messages \in Seq(S),
           NEW a \in 0 .. Len(messages), NEW b \in a .. Len(messages)
    PROVE  Passed(Passed(r, SubSeq(messages, 1, a)), SubSeq(messages, a + 1, b)) =
               Passed(r, SubSeq(messages, 1, b))
<1> DEFINE so_far == Passed(r, SubSeq(messages, 1, a))
           P(k) == Passed(so_far, SubSeq(messages, a + 1, k)) = Passed(r, SubSeq(messages, 1, k))
           bad == {k \in a .. Len(messages) : ~P(k)}
<1>1. Len(messages) \in Nat /\ a \in Nat /\ a <= Len(messages)
  OBVIOUS
<1>2. P(a)
  <2>1. SubSeq(messages, a + 1, a) = <<>>
    BY <1>1, SubSeqEmpty
  <2> QED
    BY <2>1, PassedNothing
<1> HIDE DEF so_far
<1>3. ASSUME NEW k \in a + 1 .. Len(messages), P(k - 1) PROVE P(k)
  <2>1. k \in 1 .. Len(messages) /\ 1 \in 1 .. k /\ a + 1 \in 1 .. k
    BY <1>1
  <2>2. /\ Append(SubSeq(messages, 1, k - 1), messages[k]) = SubSeq(messages, 1, k)
        /\ Append(SubSeq(messages, a + 1, k - 1), messages[k]) = SubSeq(messages, a + 1, k)
    BY <2>1, SubSeqGrows
  <2>3. /\ SubSeq(messages, 1, k - 1) \in Seq(S) /\ SubSeq(messages, a + 1, k - 1) \in Seq(S)
        /\ messages[k] \in S
    <3>1. \A i \in 1 .. Len(messages) : messages[i] \in S
      OBVIOUS
    <3>2. (\A i \in 1 .. k - 1 : messages[i] \in S) /\ (\A i \in a + 1 .. k - 1 : messages[i] \in S)
      BY <1>1, <2>1, <3>1
    <3>3. a + 1 \in Int /\ k - 1 \in Int /\ 1 \in Int
      BY <1>1, <2>1
    <3> QED
      BY <2>1, <3>1, <3>2, <3>3, SubSeqProperties
  <2>4. /\ Passed(so_far, SubSeq(messages, a + 1, k)) =
               ParseNext(Passed(so_far, SubSeq(messages, a + 1, k - 1)), messages[k])
        /\ Passed(r, SubSeq(messages, 1, k)) =
               ParseNext(Passed(r, SubSeq(messages, 1, k - 1)), messages[k])
    <3> DEFINE s == SubSeq(messages, 1, k - 1)
               t == SubSeq(messages, a + 1, k - 1)
               msg == messages[k]
    <3>1. s \in Seq(S) /\ t \in Seq(S) /\ msg \in S
      BY <2>3
    <3>2. /\ SubSeq(messages, 1, k) = Append(s, msg)
          /\ SubSeq(messages, a + 1, k) = Append(t, msg)
      BY <2>2
    <3> HIDE DEF s, t, msg
    <3>3. /\ Passed(so_far, Append(t, msg)) = ParseNext(Passed(so_far, t), msg)
          /\ Passed(r, Append(s, msg)) = ParseNext(Passed(r, s), msg)
      BY <3>1, PassedOneMore
    <3> QED
      BY <3>2, <3>3 DEF s, t, msg
  <2> QED
    BY <1>3, <2>4
<1> HIDE DEF P
<1>4. bad = {}
  <2> SUFFICES ASSUME bad # {} PROVE FALSE
    OBVIOUS
  <2>1. bad \in SUBSET Nat
    BY <1>1
  <2>2. PICK k \in bad : \A m \in bad : k <= m
    BY <2>1, LeastOf
  <2>3. k # a
    BY <1>2, <2>2
  <2>4. k \in a + 1 .. Len(messages) /\ k - 1 \in a .. Len(messages) /\ ~(k <= k - 1)
    BY <1>1, <2>2, <2>3
  <2> QED
    BY <1>3, <2>2, <2>4
<1>5. P(b)
  BY <1>4
<1> QED
  BY <1>5 DEF P, so_far

----
(* The receiver of an undisturbed session                                   *)

\* The file's messages in order; what the sender's invariants say of them and its packets.
FeedInv ==
    /\ content \in Seq(Feed)
    /\ Len(content) = Len(file)
    /\ \A k \in 1 .. Len(file) : file[k].id = k

PackingInv == SenderInv /\ FileInv /\ PositionInv /\ FeedInv

\* The file is the one the sender packs, and none of its messages is too long.
LEMMA PackingStarts == SessionInit => PackingInv
<1> SUFFICES ASSUME SessionInit PROVE PackingInv
  OBVIOUS
<1>1. /\ content \in SeqOf(Feed, MaxMessages)
      /\ file = [k \in DOMAIN content |-> Message(k, LengthOf[content[k].type])]
      /\ Init
  BY DEF SessionInit
<1>2. content \in Seq(Feed) /\ DOMAIN content = 1 .. Len(content) /\ Len(content) \in Nat
  <2>1. PICK n \in 0 .. MaxMessages : content \in [1 .. n -> Feed]
    BY <1>1 DEF SeqOf
  <2> QED
    BY <2>1, RepeatAssumption
<1>3. /\ Len(file) = Len(content)
      /\ \A k \in 1 .. Len(file) : file[k].id = k /\ file[k].length = LengthOf[content[k].type]
  <2>1. file = [k \in 1 .. Len(content) |-> Message(k, LengthOf[content[k].type])]
    BY <1>1, <1>2
  <2> QED
    BY <1>2, <2>1 DEF Message
<1>4. NothingIsTooLong
  <2>1. \A k \in 1 .. Len(file) : content[k] \in Feed
    BY <1>2, <1>3
  <2> QED
    BY <1>3, <2>1, FeedAssumption DEF NothingIsTooLong
<1> QED
  BY <1>1, <1>2, <1>3, <1>4, SenderStarts, FileStarts, PositionsStart DEF PackingInv, FeedInv

\* Only the sender touches what its invariants are about.
LEMMA PackingKeeps == PackingInv /\ [SessionNext]_sessionVars => PackingInv'
<1> SUFFICES ASSUME PackingInv, [SessionNext]_sessionVars PROVE PackingInv'
  OBVIOUS
<1>1. [Next]_vars /\ UNCHANGED content
  <2>1. CASE SenderMoves
    BY <2>1 DEF SenderMoves
  <2>2. CASE Lose
    BY <2>2 DEF Lose, senderVars
  <2>3. CASE Duplicate
    BY <2>3 DEF Duplicate, senderVars
  <2>4. CASE Delay
    BY <2>4 DEF Delay, senderVars
  <2>5. CASE ParseEndOfSession
    BY <2>5 DEF ParseEndOfSession, senderVars
  <2>6. CASE ParsePacket
    BY <2>6 DEF ParsePacket, senderVars
  <2>7. CASE UNCHANGED sessionVars
    BY <2>7 DEF sessionVars, senderVars
  <2> QED
    BY <2>1, <2>2, <2>3, <2>4, <2>5, <2>6, <2>7 DEF SessionNext
<1>2. UNCHANGED file
  BY <1>1 DEF Next, vars, PackMessage, SendFullPacket, FlushLastPacket, NothingToFlush, EndSession,
              SendEndOfSession, Finish, SendFails, Terminated
<1>3. SenderInv' /\ FileInv' /\ PositionInv'
  BY <1>1, SenderKeeps, FileKeeps, PositionsKeep DEF PackingInv
<1> QED
  BY <1>1, <1>2, <1>3 DEF PackingInv, FeedInv

\* The messages of a packet are a stretch of the file.
MessagesOf(k) == [j \in DOMAIN View(sent[k]) |-> content[View(sent[k])[j].id]]

\* It starts at the packet's number and is as long as the packet counts.
LEMMA PacketIsAStretch ==
    ASSUME PackingInv, NEW k \in 1 .. Len(sent), ~IsEndOfSession(sent[k])
    PROVE  LET p == sent[k]
           IN  /\ k <= moldudp64_msg_count
               /\ BlockCount(p) \in Nat
               /\ p.sequence_number \in 1 .. Len(content)
               /\ p.sequence_number + BlockCount(p) - 1 \in p.sequence_number - 1 .. Len(content)
               /\ MessagesOf(k) =
                     SubSeq(content, p.sequence_number, p.sequence_number + BlockCount(p) - 1)
               /\ MessagesOf(k) \in Seq(Feed) /\ Len(MessagesOf(k)) = BlockCount(p)
<1> DEFINE p == sent[k]
           a == p.sequence_number
           b == a + BlockCount(p) - 1
<1>1. /\ p \in Packets /\ Len(content) = Len(file) /\ content \in Seq(Feed) /\ file \in Seq(Cells)
      /\ moldudp64_msg_count \in Nat
  BY DEF PackingInv, FeedInv, SenderInv, SenderType
<1>2. BlockCount(p) \in Nat /\ a \in Nat
  BY <1>1 DEF Packets, BlockCount
<1>3. k <= moldudp64_msg_count
  <2> SUFFICES ASSUME ~(k <= moldudp64_msg_count) PROVE FALSE
    OBVIOUS
  <2>1. sent[k] = PacketOf(builder, EndOfSessionCount)
    BY DEF PackingInv, SenderInv, PacketsInv
  <2> QED
    BY <2>1 DEF PacketOf, IsEndOfSession
<1>4. CarriesTheFile(p)
  BY <1>1, <1>3 DEF PackingInv, PositionInv
<1>5. /\ a \in 1 .. Len(content) /\ a + BlockCount(p) <= Len(content) + 1
      /\ View(p) = SubSeq(file, a, b)
  BY <1>1, <1>4 DEF CarriesTheFile
<1>6. MessagesOf(k) = [j \in DOMAIN View(p) |-> content[View(p)[j].id]]
  BY DEF MessagesOf
<1> HIDE DEF p
<1>7. b \in a - 1 .. Len(content) /\ a + BlockCount(p) - 1 = b
  <2>1. Len(content) \in Nat
    BY <1>1
  <2> HIDE DEF a
  <2>2. b = a + BlockCount(p) - 1
    OBVIOUS
  <2> HIDE DEF b
  <2> QED
    BY <1>2, <1>5, <2>1, <2>2
<1> HIDE DEF a
<1>8. /\ b \in Int /\ a \in Int /\ Len(file) \in Nat /\ b - a + 1 = BlockCount(p)
      /\ (a <= b \/ BlockCount(p) = 0)
  BY <1>1, <1>2
<1> HIDE DEF b
<1>9. /\ \A i \in a .. b : file[i] \in Cells /\ content[i] \in Feed
  BY <1>1, <1>5, <1>7
<1>10. /\ Len(SubSeq(file, a, b)) = BlockCount(p) /\ SubSeq(file, a, b) \in Seq(Cells)
       /\ \A i \in 1 .. BlockCount(p) : SubSeq(file, a, b)[i] = file[a + i - 1]
       /\ Len(SubSeq(content, a, b)) = BlockCount(p) /\ SubSeq(content, a, b) \in Seq(Feed)
       /\ \A i \in 1 .. BlockCount(p) : SubSeq(content, a, b)[i] = content[a + i - 1]
  BY <1>8, <1>9, SubSeqProperties
<1>11. DOMAIN View(p) = 1 .. BlockCount(p)
  BY <1>5, <1>10
<1>12. ASSUME NEW j \in 1 .. BlockCount(p)
       PROVE  content[View(p)[j].id] = SubSeq(content, a, b)[j]
  <2>1. a + j - 1 \in 1 .. Len(file)
    BY <1>1, <1>2, <1>5
  <2>2. file[a + j - 1].id = a + j - 1
    BY <2>1 DEF PackingInv, FeedInv
  <2> QED
    BY <1>5, <1>10, <2>2
<1>13. MessagesOf(k) = [j \in 1 .. BlockCount(p) |-> SubSeq(content, a, b)[j]]
  BY <1>6, <1>11, <1>12
<1>14. MessagesOf(k) = SubSeq(content, a, b)
  BY <1>2, <1>10, <1>13
<1> QED
  BY <1>2, <1>3, <1>5, <1>7, <1>10, <1>14 DEF a, b, p

\* A packet that closes the session comes behind the whole file.
LEMMA TheEndIsTheEnd ==
    ASSUME PackingInv, NEW k \in 1 .. Len(sent), IsEndOfSession(sent[k])
    PROVE  sent[k].sequence_number = Len(content) + 1 /\ k > moldudp64_msg_count
<1>1. /\ Len(sent) = moldudp64_msg_count + repeats /\ Len(sent) \in Nat
      /\ moldudp64_msg_count \in Nat /\ repeats \in Nat
      /\ IF k <= moldudp64_msg_count THEN ~IsEndOfSession(sent[k])
         ELSE sent[k] = PacketOf(builder, EndOfSessionCount)
  BY DEF PackingInv, SenderInv, PacketsInv, SenderType
<1>2. k > moldudp64_msg_count /\ repeats > 0
  BY <1>1
<1>3. builder.sequence_number = Len(file) + 1
  BY <1>2 DEF PackingInv, PositionInv
<1>4. sent[k].sequence_number = builder.sequence_number
  BY <1>1, <1>2 DEF PacketOf
<1> QED
  BY <1>2, <1>3, <1>4 DEF PackingInv, FeedInv

\* What the replay has made of the first k messages.
After(k) == Passed(NewRun, SubSeq(content, 1, k))

\* The receiver has read the first n packets, and has the others to come.
InOrder(n) ==
    /\ n \in 0 .. Len(sent)
    /\ network = [j \in 1 .. Len(sent) - n |-> n + j]
    /\ Uncounted(run) = IF receiver = "listening" THEN After(SequenceAfter(n) - 1)
                        ELSE After(Len(content))

Undisturbed == lost = <<>> /\ duplicated = <<>> /\ delayed = <<>>

\* While the network has done nothing, what arrives is what was sent, in order.
ReceiverInv ==
    /\ duplicated \in Seq(Nat) /\ delayed \in Seq(Nat)
    /\ Range(network) \subseteq 1 .. Len(sent)
    /\ IsRun(run)
    /\ Undisturbed => \E n : InOrder(n)

\* The histories of the network's faults never become empty again.
LEMMA AFaultIsRemembered ==
    ASSUME NEW s \in Seq(Nat), NEW k \in Nat
    PROVE  Append(s, k) \in Seq(Nat) /\ Append(s, k) # <<>>
<1>1. Append(s, k) \in Seq(Nat) /\ Len(Append(s, k)) = Len(s) + 1 /\ Len(s) \in Nat
  BY AppendProperties
<1> QED
  BY <1>1

\* A step puts nothing on the way that was not sent.
LEMMA OnlyWhatWasSent ==
    ASSUME SessionInv, Range(network) \subseteq 1 .. Len(sent), [SessionNext]_sessionVars
    PROVE  Range(network') \subseteq 1 .. Len(sent')
<1>1. network \in Seq(Nat) /\ ClosingInv /\ Len(sent) \in Nat
  BY DEF SessionInv, ClosingInv
<1>2. CASE SenderMoves
  <2> DEFINE n == Len(sent)
             added == [k \in 1 .. Len(sent') - n |-> n + k]
  <2>1. Next /\ network' = network \o added
    BY <1>2 DEF SenderMoves
  <2>2. PICK d \in {0, 1} : Len(sent') = n + d /\ Len(sent') - n = d
    BY <1>1, <2>1, SenderStep
  <2>3. added = [k \in 1 .. d |-> n + k]
    BY <2>2
  <2>4. added \in Seq(Nat) /\ Range(added) \subseteq 1 .. n + d
    <3>0. added \in Seq(Nat)
      BY <1>1, <2>2, <2>3
    <3>1. Len(added) = d
      <4>1. d \in Nat
        OBVIOUS
      <4> HIDE DEF added, n
      <4> QED
        BY <2>3, <4>1
    <3>2. \A k \in 1 .. d : added[k] \in 1 .. n + d
      BY <1>1, <2>3
    <3> HIDE DEF added, n
    <3>3. Range(added) = {added[k] : k \in 1 .. d}
      BY <3>0, <3>1, RangeEquality
    <3> QED
      BY <3>0, <3>2, <3>3
  <2> HIDE DEF added
  <2>5. Range(network') = Range(network) \cup Range(added)
    BY <1>1, <2>1, <2>4, RangeConcatenation
  <2> QED
    BY <1>1, <2>2, <2>4, <2>5
<1>3. CASE Delay
  BY <1>1, <1>3, DelayLosesNothing DEF Delay, senderVars, vars
<1>4. CASE Duplicate
  <2> DEFINE one == <<Head(network)>>
  <2>1. /\ network # <<>> /\ network' = one \o network /\ UNCHANGED sent
    BY <1>4 DEF Duplicate, MayFail, senderVars, vars
  <2>2. one \in Seq(Nat) /\ Range(one) = {Head(network)} /\ Head(network) \in Range(network)
    BY <1>1, <2>1, RangeOfTail DEF Range
  <2> HIDE DEF one
  <2>3. Range(network') = Range(one) \cup Range(network)
    BY <1>1, <2>1, <2>2, RangeConcatenation
  <2> QED
    BY <2>1, <2>2, <2>3
<1>5. CASE Lose \/ ParseEndOfSession \/ ParsePacket
  <2>1. network # <<>> /\ network' = Tail(network) /\ UNCHANGED sent
    BY <1>5 DEF Lose, MayFail, ParseEndOfSession, ParsePacket, Listening, senderVars, vars
  <2> QED
    BY <1>1, <2>1, FrontIsTaken
<1>6. CASE UNCHANGED sessionVars
  BY <1>6 DEF sessionVars, senderVars, vars
<1> QED
  BY <1>2, <1>3, <1>4, <1>5, <1>6 DEF SessionNext

\* What a packet in its turn makes of the run.
LEMMA NextPacket ==
    ASSUME PackingInv, IsRun(run), NEW n \in Nat, n + 1 <= Len(sent), ~IsEndOfSession(sent[n + 1]),
           Uncounted(run) = After(SequenceAfter(n) - 1)
    PROVE  LET r == Passed(run, MessagesOf(n + 1))
           IN  /\ IsRun(r)
               /\ Uncounted(r) = After(SequenceAfter(n + 1) - 1)
               /\ ~Running(r) => Uncounted(r) = After(Len(content))
<1> DEFINE p == sent[n + 1]
           a == p.sequence_number
           b == a + BlockCount(p) - 1
           r == Passed(run, MessagesOf(n + 1))
<1>0. content \in Seq(Feed) /\ Len(content) \in Nat /\ n + 1 \in 1 .. Len(sent) /\ n + 1 # 0
      /\ (n + 1) - 1 = n
  BY DEF PackingInv, FeedInv, SenderInv, SenderType
<1>1. /\ a \in 1 .. Len(content) /\ b \in a - 1 .. Len(content)
      /\ MessagesOf(n + 1) = SubSeq(content, a, b) /\ MessagesOf(n + 1) \in Seq(Feed)
      /\ BlockCount(p) \in Nat
  BY <1>0, PacketIsAStretch
<1>2. SequenceAfter(n) = a /\ SequenceAfter(n + 1) = a + BlockCount(p)
  <2>1. sent[n + 1].sequence_number = SequenceAfter((n + 1) - 1)
    BY <1>0 DEF PackingInv, SenderInv, NumberInv, SequencesAreContiguous
  <2> QED
    BY <1>0, <2>1 DEF SequenceAfter
<1>3. /\ IsRun(r) /\ Uncounted(r) = Passed(Uncounted(run), MessagesOf(n + 1))
  BY <1>1, AllMessages
<1> HIDE DEF p, r
<1>4. SequenceAfter(n + 1) - 1 = b
  <2> DEFINE next == SequenceAfter(n + 1)
             c == BlockCount(p)
  <2>1. next = a + c /\ b = a + c - 1 /\ a \in Nat /\ c \in Nat
    BY <1>0, <1>1, <1>2
  <2> HIDE DEF a, b, c, next
  <2>2. next - 1 = b
    BY <2>1
  <2> QED
    BY <2>2 DEF next
<1> HIDE DEF b
<1>5. Uncounted(r) = After(b)
  <2>1. PICK k \in 0 .. Len(content) : k = a - 1 /\ k + 1 = a /\ b \in k .. Len(content)
    BY <1>0, <1>1
  <2>2. Passed(Passed(NewRun, SubSeq(content, 1, k)), SubSeq(content, k + 1, b)) =
            Passed(NewRun, SubSeq(content, 1, b))
    BY <1>0, <2>1, PassedOn
  <2> QED
    BY <1>1, <1>2, <1>3, <2>1, <2>2 DEF After
<1>6. ASSUME ~Running(r) PROVE After(Len(content)) = After(b)
  <2>1. ~Running(Uncounted(r)) /\ IsRun(Uncounted(r))
    BY <1>3, <1>6 DEF IsRun, Uncounted, Running
  <2>2. b \in 0 .. Len(content) /\ b \in Int /\ Len(content) \in b .. Len(content)
    BY <1>0, <1>1
  <2>3. Passed(Passed(NewRun, SubSeq(content, 1, b)), SubSeq(content, b + 1, Len(content))) =
            Passed(NewRun, SubSeq(content, 1, Len(content)))
    BY <1>0, <2>2, PassedOn
  <2>4. SubSeq(content, b + 1, Len(content)) \in Seq(Feed)
    BY <1>0, <2>2, SubSeqProperties
  <2>5. Passed(After(b), SubSeq(content, b + 1, Len(content))) = After(b)
    BY <1>5, <2>1, <2>4, AllMessages
  <2> QED
    BY <2>3, <2>5 DEF After
<1> QED
  BY <1>3, <1>4, <1>5, <1>6 DEF r

\* Before the first packet the run is the replay's before its first message.
LEMMA ReceiverStarts == SessionInit => ReceiverInv
<1> SUFFICES ASSUME SessionInit PROVE ReceiverInv
  OBVIOUS
<1>1. /\ network = <<>> /\ duplicated = <<>> /\ delayed = <<>> /\ run = NewRun
      /\ receiver = "listening" /\ sent = <<>>
  BY DEF SessionInit, Init
<1>2. IsRun(NewRun) /\ Uncounted(NewRun) = NewRun
  BY DEF IsRun, NewRun, Uncounted
<1>3. After(SequenceAfter(0) - 1) = NewRun
  <2>1. SequenceAfter(0) - 1 = 0
    BY DEF SequenceAfter
  <2>2. content \in Seq(Feed)
    BY PackingStarts DEF PackingInv, FeedInv
  <2>3. SubSeq(content, 1, 0) = <<>>
    BY <2>2
  <2> QED
    BY <2>1, <2>3, PassedNothing DEF After
<1>4. InOrder(0)
  <2>1. Len(sent) = 0 /\ network = [j \in 1 .. 0 |-> 0 + j]
    BY <1>1
  <2> QED
    BY <1>1, <1>2, <1>3, <2>1 DEF InOrder
<1> QED
  BY <1>1, <1>2, <1>4 DEF ReceiverInv, Range

\* A packet in its turn takes the run to where the replay is behind the packet's messages.
LEMMA ReceiverKeeps ==
    SessionInv /\ PackingInv /\ ReceiverInv /\ [SessionNext]_sessionVars => ReceiverInv'
<1> SUFFICES ASSUME SessionInv, PackingInv, ReceiverInv, [SessionNext]_sessionVars
             PROVE  ReceiverInv'
  OBVIOUS
<1>0. /\ network \in Seq(Nat) /\ lost \in Seq(Nat) /\ duplicated \in Seq(Nat) /\ delayed \in Seq(Nat)
      /\ Len(sent) \in Nat /\ IsRun(run) /\ ClosingInv
      /\ network # <<>> => Head(network) \in Nat
      /\ Range(network) \subseteq 1 .. Len(sent) /\ Range(network') \subseteq 1 .. Len(sent')
  BY OnlyWhatWasSent, HeadTailProperties DEF SessionInv, ClosingInv, ReceiverInv
\* The receiver's state and the packets sent stay as they are.
<1>1. ASSUME UNCHANGED <<sent, content, run, receiver, network>>
      PROVE  \A n : InOrder(n) => InOrder(n)'
  BY <1>1 DEF InOrder, After, SequenceAfter
<1>2. CASE SenderMoves
  <2> DEFINE d == Len(sent') - Len(sent)
             added == [k \in 1 .. d |-> Len(sent) + k]
  <2>1. /\ Next /\ network' = network \o added /\ UNCHANGED <<content, run, receiver>>
        /\ UNCHANGED <<lost, duplicated, delayed>>
    BY <1>2 DEF SenderMoves, faults
  <2>2. Len(sent') \in {Len(sent), Len(sent) + 1} /\ \A k \in 1 .. Len(sent) : sent'[k] = sent[k]
    BY <1>0, <2>1, SenderStep
  <2>3. d \in Nat /\ Len(sent') = Len(sent) + d /\ Len(sent') \in Nat
    BY <1>0, <2>2
  <2>4. ASSUME NEW n, InOrder(n) PROVE InOrder(n)'
    <3>1. n \in 0 .. Len(sent) /\ n \in 0 .. Len(sent')
      BY <1>0, <2>3, <2>4 DEF InOrder
    <3>2. SequenceAfter(n)' = SequenceAfter(n)
      BY <2>2, <3>1 DEF SequenceAfter
    <3>3. network' = [j \in 1 .. Len(sent') - n |-> n + j]
      <4> HIDE DEF d
      <4>1. PICK m \in Nat : m = Len(sent)
        BY <1>0
      <4>2. Len(sent') - n = (m - n) + d /\ m - n \in Nat
        BY <2>3, <3>1, <4>1
      <4>3. network = [j \in 1 .. m - n |-> n + j] /\ added = [k \in 1 .. d |-> m + k]
        BY <2>4, <4>1 DEF InOrder
      <4>4. network \o added = [j \in 1 .. (m - n) + d |-> n + j]
        BY <2>3, <3>1, <4>1, <4>2, <4>3
      <4> QED
        BY <2>1, <4>2, <4>4
    <3> QED
      BY <2>1, <2>4, <3>1, <3>2, <3>3 DEF InOrder, After
  <2> QED
    BY <1>0, <2>1, <2>4 DEF ReceiverInv, Undisturbed
<1>3. CASE Lose
  <2>1. lost' # <<>> /\ UNCHANGED <<duplicated, delayed, run>>
    BY <1>0, <1>3, AFaultIsRemembered DEF Lose, MayFail
  <2> QED
    BY <1>0, <2>1 DEF ReceiverInv, Undisturbed
<1>4. CASE Duplicate
  <2>1. duplicated' # <<>> /\ duplicated' \in Seq(Nat) /\ UNCHANGED <<delayed, run>>
    BY <1>0, <1>4, AFaultIsRemembered DEF Duplicate, MayFail
  <2> QED
    BY <1>0, <2>1 DEF ReceiverInv, Undisturbed
<1>5. CASE Delay
  <2>1. delayed' # <<>> /\ delayed' \in Seq(Nat) /\ UNCHANGED <<duplicated, run>>
    BY <1>0, <1>5, AFaultIsRemembered DEF Delay, MayFail
  <2> QED
    BY <1>0, <2>1 DEF ReceiverInv, Undisturbed
\* The receiver takes the packet whose turn it is.
<1>6. ASSUME network # <<>>, network' = Tail(network), UNCHANGED sent, NEW n, InOrder(n)
      PROVE  /\ Head(network) = n + 1 /\ n \in Nat /\ n + 1 \in 1 .. Len(sent)
             /\ n + 1 \in 0 .. Len(sent')
             /\ network' = [j \in 1 .. Len(sent') - (n + 1) |-> (n + 1) + j]
  <2>1. n \in 0 .. Len(sent) /\ network = [j \in 1 .. Len(sent) - n |-> n + j]
    BY <1>6 DEF InOrder
  <2>2. PICK m \in Nat : m = Len(sent) - n /\ Len(sent) = n + m /\ Len(sent) - (n + 1) = m - 1
    <3>1. Len(sent) \in Nat /\ n \in Nat /\ n <= Len(sent)
      BY <1>0, <2>1
    <3>2. Len(sent) - n \in Nat /\ Len(sent) = n + (Len(sent) - n)
          /\ Len(sent) - (n + 1) = (Len(sent) - n) - 1
      BY <3>1
    <3> QED
      BY <3>2
  <2>3. network = [j \in 1 .. m |-> n + j]
    BY <2>1, <2>2
  <2>4. m # 0
    <3> SUFFICES ASSUME m = 0 PROVE FALSE
      OBVIOUS
    <3>1. Len(network) = 0
      BY <2>3
    <3> QED
      BY <1>0, <1>6, <3>1
  <2>5. /\ Head(network) = n + 1 /\ n \in Nat /\ n + 1 \in 1 .. Len(sent)
        /\ Tail(network) = [j \in 1 .. m - 1 |-> (n + 1) + j]
    <3>1. n \in Nat /\ m \in Nat \ {0} /\ n + 1 \in 1 .. Len(sent)
      BY <1>0, <2>1, <2>2, <2>4
    <3>2. network[1] = n + 1
      BY <2>3, <3>1
    <3>3. Len(network) = m
      BY <2>3, <3>1
    <3>4. /\ Head(network) = network[1] /\ Tail(network) \in Seq(Nat) /\ Len(Tail(network)) = m - 1
          /\ \A j \in 1 .. Len(Tail(network)) : Tail(network)[j] = network[j + 1]
      BY <1>0, <1>6, <3>3, HeadTailProperties
    <3>5. \A j \in 1 .. m - 1 : network[j + 1] = (n + 1) + j
      BY <2>3, <3>1
    <3>6. Tail(network) = [j \in 1 .. m - 1 |-> (n + 1) + j]
      <4> DEFINE rest == Tail(network)
                 l == m - 1
      <4>1. rest \in Seq(Nat) /\ Len(rest) = l /\ \A j \in 1 .. l : rest[j] = (n + 1) + j
        BY <3>4, <3>5
      <4> HIDE DEF rest, l
      <4>2. rest = [j \in 1 .. l |-> rest[j]]
        BY <4>1
      <4>3. rest = [j \in 1 .. l |-> (n + 1) + j]
        BY <4>1, <4>2, Zenon
      <4> QED
        BY <4>3 DEF rest, l
    <3> QED
      BY <3>1, <3>2, <3>4, <3>6
  <2>6. Len(sent') - (n + 1) = m - 1 /\ n + 1 \in 0 .. Len(sent')
    BY <1>6, <2>2, <2>5
  <2> QED
    BY <1>6, <2>5, <2>6
<1>7. CASE ParseEndOfSession
  <2>1. /\ network # <<>> /\ network' = Tail(network) /\ receiver = "listening" /\ receiver' = "ended"
        /\ UNCHANGED <<sent, content, lost, duplicated, delayed, run>>
        /\ IsEndOfSession(sent[Head(network)])
    BY <1>7 DEF ParseEndOfSession, Listening, Packet, senderVars, vars, faults
  <2>2. ASSUME NEW n, InOrder(n) PROVE InOrder(n + 1)'
    <3>1. /\ Head(network) = n + 1 /\ n \in Nat /\ n + 1 \in 1 .. Len(sent)
          /\ n + 1 \in 0 .. Len(sent')
          /\ network' = [j \in 1 .. Len(sent') - (n + 1) |-> (n + 1) + j]
      BY <1>6, <2>1, <2>2
    <3>2. sent[n + 1].sequence_number = Len(content) + 1
      BY <2>1, <3>1, TheEndIsTheEnd
    <3>3. sent[n + 1].sequence_number = SequenceAfter((n + 1) - 1) /\ (n + 1) - 1 = n
      BY <3>1 DEF PackingInv, SenderInv, NumberInv, SequencesAreContiguous
    <3>4. SequenceAfter(n) - 1 = Len(content)
      <4>1. Len(content) \in Nat
        BY DEF PackingInv, FeedInv
      <4> QED
        BY <3>2, <3>3, <4>1
    <3>5. Uncounted(run) = After(Len(content))
      BY <2>1, <2>2, <3>4 DEF InOrder
    <3> QED
      BY <2>1, <3>1, <3>5 DEF InOrder, After
  <2> QED
    BY <1>0, <2>1, <2>2 DEF ReceiverInv, Undisturbed
<1>8. CASE ParsePacket
  <2> DEFINE k == Head(network)
             r == Passed(run, MessagesOf(k))
  <2>1. /\ network # <<>> /\ network' = Tail(network) /\ receiver = "listening"
        /\ UNCHANGED <<sent, content, lost, duplicated, delayed>>
        /\ ~IsEndOfSession(sent[k])
    BY <1>8 DEF ParsePacket, Listening, Packet, senderVars, vars, faults
  <2>2. IF Running(r) THEN run' = [r EXCEPT !.packets = @ + 1] /\ UNCHANGED receiver
        ELSE run' = r /\ receiver' = "aborted"
    BY <1>8 DEF ParsePacket, Packet, MessagesOf, Passed
  <2>3. ASSUME NEW n, InOrder(n) PROVE InOrder(n + 1)'
    <3>1. /\ k = n + 1 /\ n \in Nat /\ n + 1 \in 1 .. Len(sent)
          /\ n + 1 \in 0 .. Len(sent')
          /\ network' = [j \in 1 .. Len(sent') - (n + 1) |-> (n + 1) + j]
      BY <1>6, <2>1, <2>3
    <3>2. Uncounted(run) = After(SequenceAfter(n) - 1)
      BY <2>1, <2>3 DEF InOrder
    <3>3. /\ IsRun(r) /\ Uncounted(r) = After(SequenceAfter(n + 1) - 1)
          /\ ~Running(r) => Uncounted(r) = After(Len(content))
      BY <1>0, <2>1, <3>1, <3>2, NextPacket
    <3> HIDE DEF r, k
    <3>4. Uncounted(run') = Uncounted(r)
      BY <2>2, <3>3 DEF IsRun, Uncounted
    <3>5. Uncounted(run') = IF receiver' = "listening" THEN After(SequenceAfter(n + 1) - 1)
                            ELSE After(Len(content))
      BY <2>1, <2>2, <3>3, <3>4
    <3> QED
      BY <2>1, <3>1, <3>5 DEF InOrder, After, SequenceAfter
  <2>4. IsRun(run')
    <3>1. k \in 1 .. Len(sent)
      BY <1>0, <2>1, RangeOfTail
    <3>2. MessagesOf(k) \in Seq(Feed)
      BY <2>1, <3>1, PacketIsAStretch
    <3>3. IsRun(r)
      BY <1>0, <3>2, AllMessages
    <3> HIDE DEF r, k
    <3> QED
      BY <2>2, <3>3 DEF IsRun
  <2> QED
    BY <1>0, <2>1, <2>3, <2>4 DEF ReceiverInv, Undisturbed
<1>9. CASE UNCHANGED sessionVars
  <2>1. UNCHANGED <<sent, content, run, receiver, network, lost, duplicated, delayed>>
    BY <1>9 DEF sessionVars, senderVars, vars, faults
  <2> QED
    BY <1>0, <1>1, <2>1 DEF ReceiverInv, Undisturbed
<1> QED
  BY <1>2, <1>3, <1>4, <1>5, <1>7, <1>8, <1>9 DEF SessionNext

----
(* What is counted                                                          *)

\* The packets sent that the receiver has not read, and the others.
Missed == Range(network) \cup Range(lost)
Received == (1 .. Len(sent)) \ Missed

\* Without duplicates every packet sent is on its way, lost or counted, in one place only.
CountInv ==
    /\ Range(lost) \subseteq 1 .. Len(sent)
    /\ duplicated = <<>> =>
          /\ Cardinality(Range(network)) = Len(network)
          /\ Range(network) \cap Range(lost) = {}
          /\ receiver # "aborted" =>
                /\ run.packets = Cardinality(DataIn(Received))
                /\ IsFiniteSet(MessagesIn(Received))
                /\ run.messages = Cardinality(MessagesIn(Received))

\* A packet more has its messages more.
LEMMA OnePacketMore ==
    ASSUME NEW S, NEW k, k \notin S, IsFiniteSet(MessagesIn(S)), BlockCount(sent[k]) \in Nat
    PROVE  /\ IsFiniteSet(MessagesIn(S \cup {k}))
           /\ Cardinality(MessagesIn(S \cup {k})) =
                  Cardinality(MessagesIn(S)) + BlockCount(sent[k])
<1> DEFINE old == MessagesIn(S)
           c == BlockCount(sent[k])
           new == {k} \X (1 .. c)
<1>1. MessagesIn(S \cup {k}) = old \cup new /\ old \cap new = {}
  BY DEF MessagesIn
<1>2. IsFiniteSet({k}) /\ Cardinality({k}) = 1 /\ IsFiniteSet(1 .. c) /\ Cardinality(1 .. c) = c
  <2>1. c \in Int /\ 1 \in Int /\ c \in Nat
    OBVIOUS
  <2> HIDE DEF c
  <2>2. IsFiniteSet(1 .. c) /\ Cardinality(1 .. c) = IF 1 > c THEN 0 ELSE c - 1 + 1
    BY <2>1, FS_Interval
  <2>3. (IF 1 > c THEN 0 ELSE c - 1 + 1) = c
    BY <2>1
  <2> QED
    BY <2>2, <2>3, FS_Singleton
<1>3. c \in Nat /\ IsFiniteSet(old)
  OBVIOUS
<1> HIDE DEF old, c
<1>4. IsFiniteSet(new) /\ Cardinality(new) = 1 * c
  <2>1. IsFiniteSet(new) /\ Cardinality(new) = Cardinality({k}) * Cardinality(1 .. c)
    BY <1>2, FS_Product
  <2> QED
    BY <1>2, <2>1
<1> HIDE DEF new
<1>5. /\ IsFiniteSet(old \cup new)
      /\ Cardinality(old \cup new) = Cardinality(old) + Cardinality(new) - Cardinality(old \cap new)
  BY <1>3, <1>4, FS_Union
<1>6. Cardinality(old \cap new) = 0 /\ Cardinality(old) \in Nat
  BY <1>1, <1>3, FS_EmptySet, FS_CardinalityType
<1>7. Cardinality(old \cup new) = Cardinality(old) + c
  BY <1>3, <1>4, <1>5, <1>6
<1> QED
  BY <1>1, <1>5, <1>7 DEF old, c

\* The packets sent so far hold as many messages as their numbers say.
LEMMA NumbersCount ==
    ASSUME SenderInv, NEW n \in 0 .. Len(sent)
    PROVE  /\ IsFiniteSet(MessagesIn(1 .. n))
           /\ Cardinality(MessagesIn(1 .. n)) = SequenceAfter(n) - 1
<1> DEFINE P(k) == /\ IsFiniteSet(MessagesIn(1 .. k))
                   /\ Cardinality(MessagesIn(1 .. k)) = SequenceAfter(k) - 1
           bad == {k \in 0 .. Len(sent) : ~P(k)}
<1>1. Len(sent) \in Nat /\ sent \in Seq(Packets)
  BY DEF SenderInv, SenderType
<1>2. P(0)
  <2>1. MessagesIn(1 .. 0) = {}
    BY DEF MessagesIn
  <2>2. SequenceAfter(0) - 1 = 0
    BY DEF SequenceAfter
  <2> QED
    BY <2>1, <2>2, FS_EmptySet
<1>3. ASSUME NEW k \in 1 .. Len(sent), P(k - 1) PROVE P(k)
  <2>1. sent[k] \in Packets
    BY <1>1
  <2>2. BlockCount(sent[k]) \in Nat /\ sent[k].sequence_number \in Nat
    BY <2>1 DEF Packets, BlockCount
  <2>3. 1 .. k = (1 .. k - 1) \cup {k} /\ k \notin 1 .. k - 1
    BY <1>1
  <2>4. /\ IsFiniteSet(MessagesIn(1 .. k))
        /\ Cardinality(MessagesIn(1 .. k)) =
              Cardinality(MessagesIn(1 .. k - 1)) + BlockCount(sent[k])
    <3> DEFINE S == 1 .. k - 1
    <3>1. k \notin S /\ IsFiniteSet(MessagesIn(S))
      BY <1>3, <2>3
    <3> HIDE DEF S
    <3>2. /\ IsFiniteSet(MessagesIn(S \cup {k}))
          /\ Cardinality(MessagesIn(S \cup {k})) = Cardinality(MessagesIn(S)) + BlockCount(sent[k])
      BY <2>2, <3>1, OnePacketMore
    <3> QED
      BY <2>3, <3>2 DEF S
  <2>5. sent[k].sequence_number = SequenceAfter(k - 1)
    BY DEF SenderInv, NumberInv, SequencesAreContiguous
  <2>6. SequenceAfter(k) = sent[k].sequence_number + BlockCount(sent[k])
    BY DEF SequenceAfter
  <2> DEFINE before == SequenceAfter(k - 1)
             card == Cardinality(MessagesIn(1 .. k))
  <2>7. card = (before - 1) + BlockCount(sent[k]) /\ before \in Nat
        /\ SequenceAfter(k) = before + BlockCount(sent[k])
    BY <1>3, <2>2, <2>4, <2>5, <2>6
  <2> HIDE DEF before
  <2>8. card = SequenceAfter(k) - 1
    <3> HIDE DEF card
    <3> QED
      BY <2>2, <2>7
  <2> QED
    BY <2>4, <2>8
<1> HIDE DEF P
<1>4. bad = {}
  <2> SUFFICES ASSUME bad # {} PROVE FALSE
    OBVIOUS
  <2>1. bad \in SUBSET Nat
    BY <1>1
  <2>2. PICK k \in bad : \A m \in bad : k <= m
    BY <2>1, LeastOf
  <2>3. k # 0
    BY <1>2, <2>2
  <2>4. k \in 1 .. Len(sent) /\ k - 1 \in 0 .. Len(sent) /\ ~(k <= k - 1)
    BY <1>1, <2>2, <2>3
  <2> QED
    BY <1>3, <2>2, <2>4
<1>5. P(n)
  BY <1>4
<1> QED
  BY <1>5 DEF P

\* Nothing is sent yet and nothing counted.
LEMMA CountStarts == SessionInit => CountInv
<1> SUFFICES ASSUME SessionInit PROVE CountInv
  OBVIOUS
<1>1. network = <<>> /\ lost = <<>> /\ sent = <<>> /\ run = NewRun
  BY DEF SessionInit, Init
<1>2. Range(network) = {} /\ Range(lost) = {} /\ Received = {} /\ Len(network) = 0
  BY <1>1 DEF Range, Received, Missed
<1>3. DataIn(Received) = {} /\ MessagesIn(Received) = {}
  BY <1>2 DEF DataIn, MessagesIn
<1>4. run.packets = 0 /\ run.messages = 0
  BY <1>1 DEF NewRun
<1> QED
  BY <1>2, <1>3, <1>4, FS_EmptySet DEF CountInv

\* The one in front is not behind itself.
LEMMA FrontIsAlone ==
    ASSUME network \in Seq(Nat), network # <<>>, network' = Tail(network),
           Cardinality(Range(network)) = Len(network)
    PROVE  Head(network) \notin Range(network') /\ Cardinality(Range(network')) = Len(network')
<1>1. /\ network' \in Seq(Nat) /\ Range(network) = Range(network') \cup {Head(network)}
      /\ Len(network') = Len(network) - 1
  BY FrontIsTaken
<1>2. IsFiniteSet(Range(network')) /\ Cardinality(Range(network')) <= Len(network')
  BY <1>1, RangeIsNoLonger
<1>3. Cardinality(Range(network')) \in Nat
  BY <1>2, FS_CardinalityType
<1>4. Cardinality(Range(network)) =
          IF Head(network) \in Range(network') THEN Cardinality(Range(network'))
          ELSE Cardinality(Range(network')) + 1
  <2> DEFINE rest == Range(network')
             first == Head(network)
  <2>1. IsFiniteSet(rest) /\ Range(network) = rest \cup {first}
    BY <1>1, <1>2
  <2> HIDE DEF rest, first
  <2>2. Cardinality(Range(network)) =
            IF first \in rest THEN Cardinality(rest) ELSE Cardinality(rest) + 1
    BY <2>1, FS_AddElement
  <2> QED
    BY <2>2 DEF rest, first
<1>5. Len(network) \in Nat
  OBVIOUS
<1> QED
  BY <1>1, <1>2, <1>3, <1>4, <1>5

\* A packet read moves from the missed to the counted, with its messages.
LEMMA CountKeeps ==
    SessionInv /\ PackingInv /\ ReceiverInv /\ CountInv /\ [SessionNext]_sessionVars => CountInv'
<1> SUFFICES ASSUME SessionInv, PackingInv, ReceiverInv, CountInv, [SessionNext]_sessionVars
             PROVE  CountInv'
  OBVIOUS
<1>0. /\ network \in Seq(Nat) /\ lost \in Seq(Nat) /\ duplicated \in Seq(Nat)
      /\ Len(sent) \in Nat /\ IsRun(run) /\ ClosingInv /\ sent \in Seq(Packets)
      /\ Range(network) \subseteq 1 .. Len(sent) /\ Range(lost) \subseteq 1 .. Len(sent)
  BY DEF SessionInv, ClosingInv, ReceiverInv, CountInv, PackingInv, SenderInv, SenderType
\* The same packets are missed.
<1>1. ASSUME UNCHANGED <<run, receiver, duplicated>>, Received' = Received,
             \A k \in Received : sent'[k] = sent[k]
      PROVE  receiver' # "aborted" /\ duplicated' = <<>> =>
                /\ run'.packets = Cardinality(DataIn(Received)')
                /\ IsFiniteSet(MessagesIn(Received)')
                /\ run'.messages = Cardinality(MessagesIn(Received)')
  <2>1. DataIn(Received)' = DataIn(Received)
    BY <1>1 DEF DataIn
  <2>2. MessagesIn(Received)' = MessagesIn(Received)
    BY <1>1 DEF MessagesIn
  <2> QED
    BY <1>1, <2>1, <2>2 DEF CountInv
<1>2. CASE SenderMoves
  <2> DEFINE n == Len(sent)
             added == [k \in 1 .. Len(sent') - n |-> n + k]
  <2>1. /\ Next /\ network' = network \o added /\ UNCHANGED <<run, receiver, lost, duplicated>>
    BY <1>2 DEF SenderMoves, faults
  <2>2. /\ Len(sent') \in {n, n + 1}
        /\ \A k \in 1 .. n : sent'[k] = sent[k]
    BY <1>0, <2>1, SenderStep
  <2>3. PICK d \in {0, 1} : Len(sent') = n + d /\ Len(sent') - n = d
    BY <1>0, <2>2
  <2>4. added = [k \in 1 .. d |-> n + k]
    BY <2>3
  <2> HIDE DEF added
  <2>5. added \in Seq(Nat) /\ Len(added) = d
        /\ Range(added) = n + 1 .. Len(sent')
    <3>1. CASE d = 0
      <4>1. added = <<>>
        BY <2>4, <3>1
      <4>2. n + 1 .. Len(sent') = {}
        BY <1>0, <2>3, <3>1
      <4> QED
        BY <3>1, <4>1, <4>2 DEF Range
    <3>2. CASE d = 1
      <4>1. added = <<n + 1>>
        BY <1>0, <2>4, <3>2
      <4>2. n + 1 .. Len(sent') = {n + 1}
        BY <1>0, <2>3, <3>2
      <4>3. n + 1 \in Nat
        BY <1>0
      <4> HIDE DEF n
      <4> QED
        BY <3>2, <4>1, <4>2, <4>3 DEF Range
    <3> QED
      BY <3>1, <3>2
  <2>6. /\ Range(network') = Range(network) \cup (n + 1 .. Len(sent'))
        /\ Len(network') = Len(network) + d
    BY <1>0, <2>1, <2>5, RangeConcatenation, ConcatProperties
  <2>7. Received' = Received
    BY <1>0, <2>1, <2>3, <2>6 DEF Received, Missed
  <2>8. \A k \in Received : sent'[k] = sent[k]
    BY <2>2 DEF Received
  <2>9. Range(lost') \subseteq 1 .. Len(sent')
    BY <1>0, <2>1, <2>3
  <2>10. ASSUME duplicated = <<>>
         PROVE  /\ Cardinality(Range(network')) = Len(network')
                /\ Range(network') \cap Range(lost') = {}
    <3>1. /\ Cardinality(Range(network)) = Len(network)
          /\ Range(network) \cap Range(lost) = {}
      BY <2>10 DEF CountInv
    <3>2. Range(network') \cap Range(lost') = {}
      BY <1>0, <2>1, <2>6, <3>1
    <3>3. IsFiniteSet(Range(network))
      BY <1>0, RangeIsNoLonger
    <3>4. Cardinality(Range(network')) = Cardinality(Range(network)) + d
      <4>1. CASE d = 0
        <5>1. Range(network') = Range(network)
          BY <1>0, <2>3, <2>6, <4>1
        <5> QED
          BY <1>0, <3>1, <4>1, <5>1
      <4>2. CASE d = 1
        <5>1. Range(network') = Range(network) \cup {n + 1} /\ n + 1 \notin Range(network)
          BY <1>0, <2>3, <2>6, <4>2
        <5> QED
          BY <3>3, <4>2, <5>1, FS_AddElement
      <4> QED
        BY <4>1, <4>2
    <3> QED
      BY <2>6, <3>1, <3>2, <3>4
  <2> QED
    BY <1>1, <2>1, <2>7, <2>8, <2>9, <2>10 DEF CountInv
<1>3. CASE Lose
  <2>1. /\ network # <<>> /\ network' = Tail(network) /\ lost' = Append(lost, Head(network))
        /\ UNCHANGED <<sent, run, receiver, duplicated>>
    BY <1>3 DEF Lose, MayFail, senderVars, vars
  <2>2. Range(network) = Range(network') \cup {Head(network)} /\ Head(network) \in Nat
    BY <1>0, <2>1, FrontIsTaken
  <2>3. Range(lost') = Range(lost) \cup {Head(network)}
    <3> DEFINE one == <<Head(network)>>
    <3>1. one \in Seq(Nat) /\ Range(one) = {Head(network)}
      BY <2>2 DEF Range
    <3>2. lost' = lost \o one
      BY <1>0, <2>1, <2>2, AppendIsConcat
    <3> HIDE DEF one
    <3> QED
      BY <1>0, <3>1, <3>2, RangeConcatenation
  <2>4. Received' = Received
    BY <2>1, <2>2, <2>3 DEF Received, Missed
  <2>5. ASSUME duplicated = <<>>
        PROVE  /\ Cardinality(Range(network')) = Len(network')
               /\ Range(network') \cap Range(lost') = {}
    BY <1>0, <2>1, <2>2, <2>3, <2>5, FrontIsAlone DEF CountInv
  <2>6. Range(lost') \subseteq 1 .. Len(sent')
    BY <1>0, <2>1, <2>2, <2>3
  <2> QED
    BY <1>1, <2>1, <2>4, <2>5, <2>6 DEF CountInv
<1>4. CASE Duplicate
  <2>1. duplicated' # <<>> /\ UNCHANGED <<lost, sent>>
    <3>1. Head(network) \in Nat
      BY <1>0, <1>4, RangeOfTail DEF Duplicate, MayFail
    <3> QED
      BY <1>0, <1>4, <3>1, AFaultIsRemembered DEF Duplicate, senderVars, vars
  <2> QED
    BY <1>0, <2>1 DEF CountInv
<1>5. CASE Delay
  <2>1. UNCHANGED <<sent, run, receiver, lost, duplicated>>
    BY <1>5 DEF Delay, senderVars, vars
  <2>2. Range(network') = Range(network) /\ Len(network') = Len(network)
    BY <1>0, <1>5, DelayLosesNothing
  <2>3. Received' = Received
    BY <2>1, <2>2 DEF Received, Missed
  <2> QED
    BY <1>1, <2>1, <2>2, <2>3 DEF CountInv
\* A packet is received.
<1>6. ASSUME network # <<>>, network' = Tail(network), UNCHANGED <<sent, lost>>, duplicated = <<>>
      PROVE  /\ Received' = Received \cup {Head(network)}
             /\ Head(network) \notin Received /\ Head(network) \in 1 .. Len(sent)
             /\ Cardinality(Range(network')) = Len(network')
             /\ Range(network') \cap Range(lost') = {}
  <2>1. /\ Cardinality(Range(network)) = Len(network)
        /\ Range(network) \cap Range(lost) = {}
    BY <1>6 DEF CountInv
  <2>2. /\ Range(network) = Range(network') \cup {Head(network)}
        /\ Head(network) \notin Range(network') /\ Cardinality(Range(network')) = Len(network')
    BY <1>0, <1>6, <2>1, FrontIsTaken, FrontIsAlone
  <2> QED
    BY <1>0, <1>6, <2>1, <2>2 DEF Received, Missed
<1>7. CASE ParseEndOfSession
  <2>1. /\ network # <<>> /\ network' = Tail(network) /\ UNCHANGED <<sent, lost, duplicated, run>>
        /\ receiver = "listening" /\ receiver' = "ended" /\ IsEndOfSession(sent[Head(network)])
    BY <1>7 DEF ParseEndOfSession, Listening, Packet, senderVars, vars, faults
  <2>2. ASSUME duplicated = <<>>
        PROVE  /\ Cardinality(Range(network')) = Len(network')
               /\ Range(network') \cap Range(lost') = {}
               /\ run'.packets = Cardinality(DataIn(Received)')
               /\ IsFiniteSet(MessagesIn(Received)')
               /\ run'.messages = Cardinality(MessagesIn(Received)')
    <3>1. /\ Received' = Received \cup {Head(network)}
          /\ Cardinality(Range(network')) = Len(network')
          /\ Range(network') \cap Range(lost') = {}
      BY <1>6, <2>1, <2>2
    <3>2. DataIn(Received)' = DataIn(Received)
      BY <2>1, <3>1 DEF DataIn
    <3>3. MessagesIn(Received)' = MessagesIn(Received)
      <4>1. 1 .. BlockCount(sent[Head(network)]) = {}
        BY <2>1 DEF BlockCount
      <4> QED
        BY <2>1, <3>1, <4>1 DEF MessagesIn
    <3> QED
      BY <2>1, <2>2, <3>1, <3>2, <3>3 DEF CountInv
  <2> QED
    BY <1>0, <2>1, <2>2 DEF CountInv
<1>8. CASE ParsePacket
  <2> DEFINE k == Head(network)
             r == Passed(run, MessagesOf(k))
  <2>1. /\ network # <<>> /\ network' = Tail(network) /\ receiver = "listening"
        /\ UNCHANGED <<sent, content, lost, duplicated>>
        /\ ~IsEndOfSession(sent[k])
    BY <1>8 DEF ParsePacket, Listening, Packet, senderVars, vars, faults
  <2>2. IF Running(r) THEN run' = [r EXCEPT !.packets = @ + 1] /\ UNCHANGED receiver
        ELSE run' = r /\ receiver' = "aborted"
    BY <1>8 DEF ParsePacket, Packet, MessagesOf, Passed
  <2>3. k \in 1 .. Len(sent)
    BY <1>0, <2>1, RangeOfTail
  <2>4. /\ MessagesOf(k) \in Seq(Feed) /\ Len(MessagesOf(k)) = BlockCount(sent[k])
        /\ BlockCount(sent[k]) \in Nat
    BY <2>1, <2>3, PacketIsAStretch
  <2>5. /\ IsRun(r) /\ r.packets = run.packets
        /\ Running(r) => r.messages = run.messages + BlockCount(sent[k])
    <3>1. /\ IsRun(r) /\ r.packets = run.packets
          /\ Running(r) => r.messages = run.messages + Len(MessagesOf(k))
      BY <1>0, <2>4, AllMessages
    <3> HIDE DEF r
    <3> QED
      BY <2>4, <3>1
  <2>6. ASSUME duplicated = <<>>
        PROVE  /\ Received' = Received \cup {k} /\ k \notin Received
               /\ Cardinality(Range(network')) = Len(network')
               /\ Range(network') \cap Range(lost') = {}
    BY <1>6, <2>1, <2>6
  <2>7. ASSUME duplicated = <<>>, Running(r)
        PROVE  /\ run'.packets = Cardinality(DataIn(Received)')
               /\ IsFiniteSet(MessagesIn(Received)')
               /\ run'.messages = Cardinality(MessagesIn(Received)')
    <3>1. /\ run.packets = Cardinality(DataIn(Received))
          /\ IsFiniteSet(MessagesIn(Received))
          /\ run.messages = Cardinality(MessagesIn(Received))
      BY <2>1, <2>7 DEF CountInv
    <3>2. /\ Received' = Received \cup {k} /\ k \notin Received
      BY <2>6, <2>7
    <3> HIDE DEF k, r
    <3>3. DataIn(Received)' = DataIn(Received) \cup {k} /\ k \notin DataIn(Received)
      BY <2>1, <3>2 DEF DataIn
    <3>4. MessagesIn(Received)' = MessagesIn(Received \cup {k})
      BY <2>1, <3>2 DEF MessagesIn
    <3>5. IsFiniteSet(DataIn(Received))
      <4>1. IsFiniteSet(1 .. Len(sent))
        <5>1. Len(sent) \in Int /\ 1 \in Int
          BY <1>0
        <5> QED
          BY <5>1, FS_Interval
      <4>2. DataIn(Received) \in SUBSET (1 .. Len(sent))
        BY DEF DataIn, Received
      <4> QED
        BY <4>1, <4>2, FS_Subset
    <3>6. /\ Cardinality(DataIn(Received)') = run.packets + 1
          /\ IsFiniteSet(MessagesIn(Received)')
          /\ Cardinality(MessagesIn(Received)') = run.messages + BlockCount(sent[k])
      <4>1. Cardinality(DataIn(Received)') = run.packets + 1
        BY <3>1, <3>3, <3>5, FS_AddElement
      <4>2. /\ IsFiniteSet(MessagesIn(Received \cup {k}))
            /\ Cardinality(MessagesIn(Received \cup {k})) =
                  Cardinality(MessagesIn(Received)) + BlockCount(sent[k])
        BY <2>4, <3>1, <3>2, OnePacketMore
      <4> QED
        BY <3>1, <3>4, <4>1, <4>2
    <3>7. run'.packets = run.packets + 1 /\ run'.messages = run.messages + BlockCount(sent[k])
      BY <2>2, <2>5, <2>7 DEF IsRun
    <3> QED
      BY <3>6, <3>7
  <2> HIDE DEF k, r
  <2> QED
    BY <1>0, <2>1, <2>2, <2>6, <2>7 DEF CountInv
<1>9. CASE UNCHANGED sessionVars
  <2>1. UNCHANGED <<sent, content, run, receiver, network, lost, duplicated, delayed>>
    BY <1>9 DEF sessionVars, senderVars, vars, faults
  <2>2. Received' = Received
    BY <2>1 DEF Received, Missed
  <2> QED
    BY <1>1, <2>1, <2>2 DEF CountInv
<1> QED
  BY <1>2, <1>3, <1>4, <1>5, <1>7, <1>8, <1>9 DEF SessionNext

\* The inductive invariant of a session, receiver and counts included: where in the file each
\* packet belongs, what an undisturbed receiver has made of it, what was counted of it.
THEOREM ReceiverInvariant ==
    SessionSpec => [](SessionInv /\ PackingInv /\ ReceiverInv /\ CountInv)
<1>1. SessionInit => PackingInv /\ ReceiverInv /\ CountInv
  BY PackingStarts, ReceiverStarts, CountStarts
<1>2. SessionInv /\ PackingInv /\ ReceiverInv /\ CountInv /\ [SessionNext]_sessionVars
          => PackingInv' /\ ReceiverInv' /\ CountInv'
  BY PackingKeeps, ReceiverKeeps, CountKeeps
<1> QED
  BY <1>1, <1>2, SessionInvariant, PTL DEF SessionSpec

\* A session on which the network did nothing builds the book of the replay of its file.
THEOREM OnlineIsOffline == SessionSpec => []OnlineBookIsTheReplayedBook
<1>1. SessionInv /\ PackingInv /\ ReceiverInv => OnlineBookIsTheReplayedBook
  <2> SUFFICES ASSUME SessionInv, PackingInv, ReceiverInv,
                      receiver # "listening", lost \o duplicated \o delayed = <<>>
               PROVE  Uncounted(run) = Replayed(content)
    BY DEF OnlineBookIsTheReplayedBook, Uncounted
  <2>1. Undisturbed
    <3> DEFINE two == lost \o duplicated
    <3>1. lost \in Seq(Nat) /\ duplicated \in Seq(Nat) /\ delayed \in Seq(Nat)
      BY DEF SessionInv, ReceiverInv
    <3>2. two \in Seq(Nat) /\ Len(two) = Len(lost) + Len(duplicated)
      BY <3>1
    <3>3. two \o delayed = <<>>
      OBVIOUS
    <3> HIDE DEF two
    <3>4. Len(two) + Len(delayed) = 0
      BY <3>1, <3>2, <3>3, ConcatProperties
    <3>5. Len(lost) = 0 /\ Len(duplicated) = 0 /\ Len(delayed) = 0
      BY <3>1, <3>2, <3>4
    <3> QED
      BY <3>1, <3>5 DEF Undisturbed
  <2>2. Uncounted(run) = After(Len(content))
    BY <2>1 DEF ReceiverInv, InOrder
  <2>3. SubSeq(content, 1, Len(content)) = content
    BY SubSeqFull DEF PackingInv, FeedInv
  <2> QED
    BY <2>2, <2>3, ReplayIsTheSame DEF After
<1> QED
  BY <1>1, ReceiverInvariant, PTL

\* What the reported counts leave is what the network did not deliver.
THEOREM DropRatesAreRight == SessionSpec => []DropRatesAreTheNetworks
<1>1. SessionInv /\ PackingInv /\ ReceiverInv /\ CountInv => DropRatesAreTheNetworks
  <2> SUFFICES ASSUME SessionInv, PackingInv, ReceiverInv, CountInv,
                      receiver = "ended", phase = "ok", duplicated = <<>>
               PROVE  /\ moldudp64_msg_count - run.packets =
                            Cardinality(DataIn(Range(lost \o network)))
                      /\ msg_count - run.messages =
                            Cardinality(MessagesIn(Range(lost \o network)))
    BY DEF DropRatesAreTheNetworks
  <2> DEFINE all == 1 .. Len(sent)
  <2>1. /\ Len(sent) \in Nat /\ moldudp64_msg_count \in Nat /\ repeats \in Nat
        /\ Len(sent) = moldudp64_msg_count + repeats
        /\ builder.sequence_number \in Nat
        /\ \A k \in 1 .. Len(sent) : ~IsEndOfSession(sent[k]) <=> k <= moldudp64_msg_count
    <3>1. SenderType /\ PacketsInv
      BY DEF PackingInv, SenderInv
    <3>2. IsEndOfSession(PacketOf(builder, EndOfSessionCount))
      BY DEF IsEndOfSession, PacketOf
    <3> QED
      BY <3>1, <3>2 DEF SenderType, PacketsInv, IsBuilder, Builders
  <2>2. /\ Missed \subseteq all /\ Received = all \ Missed
        /\ Range(lost \o network) = Missed
    <3>1. lost \in Seq(Nat) /\ network \in Seq(Nat)
      BY DEF SessionInv
    <3>2. Range(lost \o network) = Range(lost) \cup Range(network)
      BY <3>1, RangeConcatenation
    <3> QED
      BY <3>2 DEF Missed, Received, ReceiverInv, CountInv
  <2>3. /\ run.packets = Cardinality(DataIn(Received))
        /\ run.messages = Cardinality(MessagesIn(Received))
    BY DEF CountInv
  <2>4. DataIn(all) = 1 .. moldudp64_msg_count
    BY <2>1 DEF DataIn
  <2>5. IsFiniteSet(DataIn(all)) /\ Cardinality(DataIn(all)) = moldudp64_msg_count
    <3>1. PICK m \in Nat : m = moldudp64_msg_count
      BY <2>1
    <3>2. IsFiniteSet(1 .. m) /\ Cardinality(1 .. m) = IF 1 > m THEN 0 ELSE m - 1 + 1
      BY FS_Interval
    <3>3. Cardinality(1 .. m) = m
      BY <3>2
    <3> QED
      BY <2>4, <3>1, <3>2, <3>3
  <2>6. IsFiniteSet(MessagesIn(all)) /\ Cardinality(MessagesIn(all)) = msg_count
    <3>1. /\ IsFiniteSet(MessagesIn(all))
          /\ Cardinality(MessagesIn(all)) = SequenceAfter(Len(sent)) - 1
      <4>1. Len(sent) \in 0 .. Len(sent) /\ SenderInv
        BY <2>1 DEF PackingInv
      <4> QED
        BY <4>1, NumbersCount
    <3>2. SequenceAfter(Len(sent)) = builder.sequence_number
      BY DEF PackingInv, SenderInv, NumberInv
    <3>3. builder.sequence_number = Len(file) + 1 /\ msg_count = cursor - 1 /\ cursor = Len(file) + 1
      BY DEF PackingInv, PositionInv
    <3> QED
      BY <3>1, <3>2, <3>3
  \* What is not received is what is missed.
  <2>7. ASSUME NEW whole, NEW part, NEW rest, IsFiniteSet(whole),
               whole = part \cup rest, part \cap rest = {}
        PROVE  Cardinality(whole) - Cardinality(part) = Cardinality(rest)
    <3>1. /\ IsFiniteSet(part) /\ IsFiniteSet(rest)
      BY <2>7, FS_Subset
    <3>2. Cardinality(whole) = Cardinality(part) + Cardinality(rest) - Cardinality(part \cap rest)
      BY <2>7, <3>1, FS_Union
    <3>3. Cardinality(part \cap rest) = 0 /\ Cardinality(part) \in Nat /\ Cardinality(rest) \in Nat
      BY <2>7, <3>1, FS_EmptySet, FS_CardinalityType
    <3> QED
      BY <3>2, <3>3
  <2>8. /\ DataIn(all) = DataIn(Received) \cup DataIn(Missed)
        /\ DataIn(Received) \cap DataIn(Missed) = {}
    BY <2>2 DEF DataIn
  <2>9. /\ MessagesIn(all) = MessagesIn(Received) \cup MessagesIn(Missed)
        /\ MessagesIn(Received) \cap MessagesIn(Missed) = {}
    BY <2>2 DEF MessagesIn
  <2> HIDE DEF all
  <2>10. Cardinality(DataIn(all)) - Cardinality(DataIn(Received)) = Cardinality(DataIn(Missed))
    BY <2>5, <2>7, <2>8
  <2>11. Cardinality(MessagesIn(all)) - Cardinality(MessagesIn(Received)) =
             Cardinality(MessagesIn(Missed))
    BY <2>6, <2>7, <2>9
  <2> QED
    BY <2>2, <2>3, <2>5, <2>6, <2>10, <2>11
<1> QED
  BY <1>1, ReceiverInvariant, PTL
===============================================================================
