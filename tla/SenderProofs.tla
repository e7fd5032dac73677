----------------------------- MODULE SenderProofs -----------------------------
(***************************************************************************)
(* What the sender promises for every input file, every size of packet and  *)
(* header that keeps the sentinel out of reach, and every number of closing *)
(* packets: sequence numbers are contiguous on the wire, only a closing     *)
(* packet reads as the end of the session, and the receiver's view reads    *)
(* the file back, although what it reads of a message tells it where the    *)
(* next one is.                                                             *)
(***************************************************************************)
EXTENDS Sender, SequenceTheorems, WellFoundedInduction, TLAPS

Cells == [id : Int, length : Nat]

Builders ==
    [buffer : [0 .. MaxPacketSize - 1 -> Cells],
     write_index : HeaderSize .. MaxPacketSize,
     sequence_number : Nat,
     message_count : Nat]

\* Every message takes its prefix at least, so the write index bounds the count, and the
\* count stays below the sentinel.
IsBuilder(b) ==
    /\ b \in Builders
    /\ PrefixSize * b.message_count <= b.write_index - HeaderSize

Packets ==
    UNION {[sequence_number : Nat, message_count : Nat, size : {n},
            cells : [HeaderSize .. n - 1 -> Cells]] : n \in HeaderSize .. MaxPacketSize}

SenderType ==
    /\ file \in Seq(Cells)
    /\ cursor \in Nat \ {0}
    /\ IsBuilder(builder)
    /\ msg_count \in Nat /\ moldudp64_msg_count \in Nat /\ repeats \in Nat
    /\ sent \in Seq(Packets)
    /\ phase \in {"packing", "closing", "repeating", "ok", "error"}

\* The builder's header is all there is in it.
Closed == builder.message_count = 0 /\ builder.write_index = HeaderSize

\* Data packets first, then the closing ones, all of them what the builder still holds.
PacketsInv ==
    /\ Len(sent) = moldudp64_msg_count + repeats
    /\ phase \in {"packing", "closing"} => repeats = 0
    /\ (phase = "repeating" \/ repeats > 0) => Closed
    /\ \A k \in 1 .. Len(sent) :
          IF k <= moldudp64_msg_count THEN ~IsEndOfSession(sent[k])
          ELSE sent[k] = PacketOf(builder, EndOfSessionCount)

\* The builder stands where the packets sent end; after the last flush it still holds the
\* messages that are on the wire already.
NumberInv ==
    /\ SequencesAreContiguous
    /\ phase \in {"packing", "repeating", "ok"} =>
          builder.sequence_number = SequenceAfter(Len(sent))
    /\ phase = "closing" =>
          builder.sequence_number + builder.message_count = SequenceAfter(Len(sent))

SenderInv == SenderType /\ PacketsInv /\ NumberInv

----
(* Sequences of sequences                                                   *)

\* A set of naturals that is not empty has a least member.
LEMMA LeastOf ==
    ASSUME NEW S \in SUBSET Nat, S # {}
    PROVE  \E n \in S : \A m \in S : n <= m
<1> DEFINE R == OpToRel(<, Nat)
<1>1. IsWellFoundedOn(R, Nat)
  BY NatLessThanWellFounded, Zenon
<1>2. \A m, n \in Nat : <<m, n>> \in R <=> m < n
  BY Zenon DEF OpToRel
<1> HIDE DEF R
<1>3. PICK n \in S : \A m \in S : ~(<<m, n>> \in R)
  BY <1>1, WFMin
<1>4. \A m \in S : ~(m < n)
  BY <1>2, <1>3
<1> QED
  BY <1>4

\* A stretch of a sequence grows by what comes behind it.
LEMMA SubSeqGrows ==
    ASSUME NEW S, NEW s \in Seq(S), NEW b \in 1 .. Len(s), NEW a \in 1 .. b
    PROVE  Append(SubSeq(s, a, b - 1), s[b]) = SubSeq(s, a, b)
<1> DEFINE less == SubSeq(s, a, b - 1)
<1>1. /\ Len(s) \in Nat /\ a \in 1 .. Len(s) /\ b \in a .. Len(s)
      /\ a \in Int /\ b - 1 \in Int /\ \A i \in a .. b - 1 : s[i] \in S
  OBVIOUS
<1>2. less \in Seq(S) /\ s[b] \in S
  BY <1>1, SubSeqProperties
<1>3. SubSeq(s, a, b) = less \o <<s[b]>>
  BY <1>1, SubSeqRecursiveSecond
<1> HIDE DEF less
<1>4. Append(less, s[b]) = less \o <<s[b]>>
  BY <1>2, AppendIsConcat
<1> QED
  BY <1>3, <1>4 DEF less

\* f joins the first n of the sequences ss, from the first one on.
Joins(f, ss, n, S) ==
    /\ f \in [1 .. n -> Seq(S)]
    /\ \A i \in 1 .. n : f[i] = IF i = 1 THEN ss[i] ELSE f[i - 1] \o ss[i]

LEMMA JoinOneMore ==
    ASSUME NEW S, NEW ss \in Seq(Seq(S)), NEW n \in Nat, n + 1 <= Len(ss),
           NEW f, Joins(f, ss, n, S)
    PROVE  \E g : Joins(g, ss, n + 1, S)
<1> DEFINE next == IF n = 0 THEN ss[n + 1] ELSE f[n] \o ss[n + 1]
           g == [i \in 1 .. n + 1 |-> IF i = n + 1 THEN next ELSE f[i]]
<1>1. ss[n + 1] \in Seq(S)
  OBVIOUS
<1>2. next \in Seq(S)
  <2>1. CASE n = 0
    BY <1>1, <2>1
  <2>2. CASE n # 0
    <3>1. f[n] \in Seq(S)
      BY <2>2 DEF Joins
    <3> QED
      BY <1>1, <2>2, <3>1
  <2> QED
    BY <2>1, <2>2
<1>3. next = IF n + 1 = 1 THEN ss[n + 1] ELSE f[n] \o ss[n + 1]
  OBVIOUS
<1> HIDE DEF next
<1>4. g \in [1 .. n + 1 -> Seq(S)] /\ g[n + 1] = next /\ \A i \in 1 .. n : g[i] = f[i]
  BY <1>2 DEF Joins
<1> HIDE DEF g
<1>5. ASSUME NEW i \in 1 .. n + 1
      PROVE  g[i] = IF i = 1 THEN ss[i] ELSE g[i - 1] \o ss[i]
  <2>1. CASE i = n + 1
    <3>1. i # 1 => g[i - 1] = f[n]
      BY <1>4, <2>1
    <3> QED
      BY <1>3, <1>4, <2>1, <3>1
  <2>2. CASE i \in 1 .. n
    <3>1. i # 1 => g[i - 1] = f[i - 1]
      BY <1>4, <2>2
    <3> QED
      BY <1>4, <2>2, <3>1 DEF Joins
  <2> QED
    BY <2>1, <2>2
<1> QED
  BY <1>4, <1>5 DEF Joins

LEMMA SomethingJoins ==
    ASSUME NEW S, NEW ss \in Seq(Seq(S))
    PROVE  \E f : Joins(f, ss, Len(ss), S)
<1> DEFINE bad == {n \in 0 .. Len(ss) : ~\E f : Joins(f, ss, n, S)}
<1>1. bad = {}
  <2>1. SUFFICES ASSUME bad # {} PROVE FALSE
    OBVIOUS
  <2> bad \in SUBSET Nat
    OBVIOUS
  <2>2. PICK n \in bad : \A m \in bad : n <= m
    BY <2>1, LeastOf
  <2>3. n # 0
    <3>1. Joins([i \in 1 .. 0 |-> <<>>], ss, 0, S)
      BY DEF Joins
    <3> QED
      BY <2>2, <3>1
  <2>4. n \in 0 .. Len(ss) /\ n - 1 \in 0 .. Len(ss) /\ ~(n <= n - 1)
    BY <2>2, <2>3
  <2>5. PICK f : Joins(f, ss, n - 1, S)
    BY <2>2, <2>4
  <2>6. n - 1 \in Nat /\ (n - 1) + 1 = n /\ n <= Len(ss)
    BY <2>3, <2>4
  <2>7. \E g : Joins(g, ss, (n - 1) + 1, S)
    BY <2>5, <2>6, JoinOneMore
  <2> QED
    BY <2>2, <2>6, <2>7
<1>2. Len(ss) \in 0 .. Len(ss)
  OBVIOUS
<1> QED
  BY <1>1, <1>2

\* What the library's FlattenSeq is: the last of those joins.
LEMMA FlattenJoins ==
    ASSUME NEW S, NEW ss \in Seq(Seq(S)), Len(ss) # 0, NEW f, Joins(f, ss, Len(ss), S)
    PROVE  FlattenSeq(ss) = f[Len(ss)]
<1> DEFINE Step(s) == [i \in 1 .. Len(ss) |-> IF i = 1 THEN ss[i] ELSE s[i - 1] \o ss[i]]
           joined == CHOOSE s : s = Step(s)
<1>1. f = Step(f)
  BY DEF Joins
<1>2. joined = Step(joined)
  BY <1>1, Zenon
<1>3. FlattenSeq(ss) = joined[Len(ss)]
  BY Zenon DEF FlattenSeq
<1>4. \A i \in 1 .. Len(ss) : joined[i] = IF i = 1 THEN ss[i] ELSE joined[i - 1] \o ss[i]
  BY <1>2
<1> HIDE DEF joined
<1> DEFINE bad == {n \in 1 .. Len(ss) : joined[n] # f[n]}
<1>5. bad = {}
  <2>1. SUFFICES ASSUME bad # {} PROVE FALSE
    OBVIOUS
  <2> bad \in SUBSET Nat
    OBVIOUS
  <2>2. PICK n \in bad : \A m \in bad : n <= m
    BY <2>1, LeastOf
  <2>3. CASE n = 1
    BY <1>4, <2>2, <2>3 DEF Joins
  <2>4. CASE n # 1
    <3>1. n \in 1 .. Len(ss) /\ n - 1 \in 1 .. Len(ss) /\ ~(n <= n - 1)
      BY <2>2, <2>4
    <3>2. joined[n - 1] = f[n - 1]
      BY <2>2, <3>1
    <3>3. joined[n] = joined[n - 1] \o ss[n]
      BY <1>4, <2>4, <3>1
    <3>4. f[n] = f[n - 1] \o ss[n]
      BY <2>4, <3>1 DEF Joins
    <3> QED
      BY <2>2, <3>2, <3>3, <3>4
  <2> QED
    BY <2>3, <2>4
<1>6. Len(ss) \in 1 .. Len(ss)
  OBVIOUS
<1> QED
  BY <1>3, <1>5, <1>6

LEMMA FlattenNothing == FlattenSeq(<<>>) = <<>>
  BY DEF FlattenSeq

\* One sequence more at the end comes behind what the others join to.
LEMMA FlattenAppend ==
    ASSUME NEW S, NEW ss \in Seq(Seq(S)), NEW s \in Seq(S)
    PROVE  /\ FlattenSeq(ss) \in Seq(S)
           /\ FlattenSeq(Append(ss, s)) = FlattenSeq(ss) \o s
<1> DEFINE n == Len(ss)
           more == Append(ss, s)
<1>1. n \in Nat /\ more \in Seq(Seq(S)) /\ Len(more) = n + 1 /\ more[n + 1] = s
      /\ \A i \in 1 .. n : more[i] = ss[i]
  OBVIOUS
<1> HIDE DEF more
<1>2. PICK g : Joins(g, more, n + 1, S)
  BY <1>1, SomethingJoins
<1>3. FlattenSeq(more) = g[n + 1] /\ g[n + 1] \in Seq(S)
  <2>1. Len(more) # 0 /\ Joins(g, more, Len(more), S)
    BY <1>1, <1>2
  <2>2. n + 1 \in 1 .. n + 1
    BY <1>1
  <2>3. FlattenSeq(more) = g[Len(more)]
    BY <1>1, <2>1, FlattenJoins
  <2>4. g[n + 1] \in Seq(S)
    BY <1>2, <2>2 DEF Joins
  <2> QED
    BY <1>1, <2>3, <2>4
<1>4. CASE n = 0
  <2>1. ss = <<>> /\ FlattenSeq(ss) = <<>>
    BY <1>4, FlattenNothing
  <2>2. g[n + 1] = s
    BY <1>1, <1>2, <1>4 DEF Joins
  <2>3. FlattenSeq(more) = s
    BY <1>3, <2>2
  <2>4. <<>> \o s = s /\ <<>> \in Seq(S)
    OBVIOUS
  <2>5. FlattenSeq(more) = FlattenSeq(ss) \o s /\ FlattenSeq(ss) \in Seq(S)
    BY <2>1, <2>3, <2>4
  <2> QED
    BY <2>5 DEF more
<1>5. CASE n # 0
  <2> DEFINE f == [i \in 1 .. n |-> g[i]]
  <2>1. Joins(f, ss, n, S)
    <3>1. f \in [1 .. n -> Seq(S)] /\ \A i \in 1 .. n : f[i] = g[i]
      BY <1>1, <1>2 DEF Joins
    <3> HIDE DEF f
    <3>2. ASSUME NEW i \in 1 .. n PROVE f[i] = IF i = 1 THEN ss[i] ELSE f[i - 1] \o ss[i]
      <4>1. i # 1 => f[i - 1] = g[i - 1]
        <5>1. i # 1 => i - 1 \in 1 .. n
          BY <1>1
        <5> QED
          BY <3>1, <5>1
      <4>2. i \in 1 .. n + 1 /\ more[i] = ss[i] /\ f[i] = g[i]
        BY <1>1, <3>1
      <4>3. g[i] = IF i = 1 THEN more[i] ELSE g[i - 1] \o more[i]
        BY <1>2, <4>2 DEF Joins
      <4> QED
        BY <4>1, <4>2, <4>3
    <3> QED
      BY <3>1, <3>2 DEF Joins
  <2>2. FlattenSeq(ss) = f[n] /\ f[n] \in Seq(S) /\ f[n] = g[n]
    <3>1. f[n] \in Seq(S) /\ f[n] = g[n]
      <4>1. n \in 1 .. n
        BY <1>1, <1>5
      <4> QED
        BY <2>1, <4>1 DEF Joins
    <3> HIDE DEF f
    <3> QED
      BY <1>5, <2>1, <3>1, FlattenJoins
  <2>3. g[n + 1] = g[n] \o s
    <3>1. n + 1 \in 1 .. n + 1 /\ n + 1 # 1 /\ (n + 1) - 1 = n
      BY <1>1, <1>5
    <3>2. g[n + 1] = g[(n + 1) - 1] \o more[n + 1]
      BY <1>2, <3>1 DEF Joins
    <3> QED
      BY <1>1, <3>1, <3>2
  <2> QED
    BY <1>3, <2>2, <2>3 DEF more
<1> QED
  BY <1>4, <1>5

----
(* The builder                                                              *)

\* The sizes without the product.
LEMMA Sizes ==
    /\ MaxPacketSize \in Nat /\ HeaderSize \in Nat /\ PrefixSize \in Nat \ {0}
    /\ EndOfSessionCount \in Nat
    /\ HeaderSize <= MaxPacketSize
  BY SizeAssumption

\* The sentinel is out of a builder's reach, and is not the count of an empty packet.
LEMMA CountStaysBelowTheSentinel ==
    ASSUME NEW b, IsBuilder(b)
    PROVE  b.message_count # EndOfSessionCount
<1>1. b.write_index - HeaderSize <= MaxPacketSize - HeaderSize
  BY SizeAssumption DEF IsBuilder, Builders
<1>2. SUFFICES ASSUME b.message_count = EndOfSessionCount PROVE FALSE
  OBVIOUS
<1>3. PrefixSize * EndOfSessionCount <= b.write_index - HeaderSize
  BY <1>2 DEF IsBuilder
<1>4. PICK product \in Int : product = PrefixSize * EndOfSessionCount
  BY SizeAssumption
<1> QED
  BY <1>1, <1>3, <1>4, SizeAssumption DEF IsBuilder, Builders

\* The constructor's builder.
LEMMA NewBuilderIsOne ==
    /\ IsBuilder(NewBuilder(1))
    /\ NewBuilder(1).sequence_number = 1
<1>1. NewBuilder(1) \in Builders
  BY SizeAssumption DEF NewBuilder, Builders, Unset, Message, Cells
<1>2. PrefixSize * 0 = 0
  BY SizeAssumption
<1> QED
  BY <1>1, <1>2, SizeAssumption DEF IsBuilder, NewBuilder

\* TryAppend keeps a builder one, and its sequence number, whether the message fits or not.
LEMMA TryAppendKeeps ==
    ASSUME NEW b, IsBuilder(b), NEW msg \in Cells
    PROVE  /\ IsBuilder(TryAppend(b, msg))
           /\ TryAppend(b, msg).sequence_number = b.sequence_number
<1>1. CASE ~Fits(b, msg.length)
  BY <1>1 DEF TryAppend
<1>2. CASE Fits(b, msg.length)
  <2> DEFINE first == b.write_index
             last == first + PrefixSize + msg.length - 1
             cells == [offset \in DOMAIN b.buffer |->
                          IF offset = first THEN msg
                          ELSE IF offset \in first + 1 .. last THEN Payload
                          ELSE b.buffer[offset]]
             u == [b EXCEPT !.buffer = cells]
             i == [u EXCEPT !.write_index = last + 1]
             w == [i EXCEPT !.message_count = i.message_count + 1]
             n == b.message_count
  <2>1. /\ n \in Nat /\ first \in HeaderSize .. MaxPacketSize /\ b.sequence_number \in Nat
        /\ msg.length \in Nat
        /\ PrefixSize * n <= first - HeaderSize
    BY DEF IsBuilder, Builders, Cells
  <2>2. last + 1 = first + PrefixSize + msg.length /\ last + 1 \in HeaderSize .. MaxPacketSize
    BY <1>2, <2>1, Sizes DEF Fits
  <2>3. cells \in [0 .. MaxPacketSize - 1 -> Cells]
    <3>1. b.buffer \in [0 .. MaxPacketSize - 1 -> Cells]
      BY DEF IsBuilder, Builders
    <3>2. Payload \in Cells
      BY DEF Payload, Message, Cells
    <3> QED
      BY <3>1, <3>2
  <2>4. Written(b, msg) = w
    BY DEF Written
  <2> HIDE DEF cells, last
  <2>5. /\ u \in Builders /\ u.write_index = first /\ u.message_count = n
        /\ u.sequence_number = b.sequence_number
    BY <2>3 DEF IsBuilder, Builders
  <2> HIDE DEF u
  <2>6. /\ i \in Builders /\ i.write_index = last + 1 /\ i.message_count = n
        /\ i.sequence_number = b.sequence_number
    BY <2>2, <2>5 DEF Builders
  <2> HIDE DEF i
  <2>7. /\ w \in Builders /\ w.write_index = last + 1 /\ w.message_count = n + 1
        /\ w.sequence_number = b.sequence_number
    BY <2>1, <2>6 DEF Builders
  <2> HIDE DEF w
  <2>8. PrefixSize * (n + 1) = PrefixSize * n + PrefixSize
    BY <2>1, Sizes
  <2>9. PICK product \in Int : product = PrefixSize * n
    BY <2>1, Sizes
  <2>10. PrefixSize * (n + 1) <= w.write_index - HeaderSize
    BY <2>1, <2>2, <2>7, <2>8, <2>9, Sizes
  <2> QED
    BY <1>2, <2>4, <2>7, <2>10 DEF IsBuilder, TryAppend
<1> QED
  BY <1>1, <1>2

\* Reset takes the sequence number past the blocks and leaves the bare header.
LEMMA ResetKeeps ==
    ASSUME NEW b, IsBuilder(b)
    PROVE  /\ IsBuilder(Reset(b))
           /\ Reset(b).sequence_number = b.sequence_number + b.message_count
           /\ Reset(b).message_count = 0
           /\ Reset(b).write_index = HeaderSize
           /\ (b.message_count = 0 /\ b.write_index = HeaderSize) => Reset(b) = b
<1> DEFINE s == [b EXCEPT !.sequence_number = b.sequence_number + b.message_count]
           c == [s EXCEPT !.message_count = 0]
           r == [c EXCEPT !.write_index = HeaderSize]
<1>1. /\ s \in Builders
      /\ s.sequence_number = b.sequence_number + b.message_count
      /\ b.message_count = 0 => s = b
  BY DEF IsBuilder, Builders
<1> HIDE DEF s
<1>2. /\ c \in Builders
      /\ c.sequence_number = s.sequence_number /\ c.message_count = 0
      /\ b.message_count = 0 => c = b
  BY <1>1 DEF Builders
<1> HIDE DEF c
<1>3. /\ r \in Builders
      /\ r.sequence_number = c.sequence_number /\ r.message_count = 0
      /\ r.write_index = HeaderSize
      /\ (b.message_count = 0 /\ b.write_index = HeaderSize) => r = b
  BY <1>2, Sizes DEF Builders
<1>4. Reset(b) = r
  BY DEF Reset, r, c, s
<1>5. PrefixSize * 0 = 0
  BY Sizes
<1> QED
  BY <1>1, <1>2, <1>3, <1>4, <1>5, Sizes DEF IsBuilder

\* What Finalize puts on the wire.
LEMMA PacketOfIsOne ==
    ASSUME NEW b, IsBuilder(b), NEW count \in Nat
    PROVE  /\ PacketOf(b, count) \in Packets
           /\ PacketOf(b, count).sequence_number = b.sequence_number
           /\ PacketOf(b, count).message_count = count
           /\ PacketOf(b, count).size = b.write_index
<1>1. /\ b.write_index \in HeaderSize .. MaxPacketSize
      /\ b.sequence_number \in Nat
      /\ b.buffer \in [0 .. MaxPacketSize - 1 -> Cells]
  BY DEF IsBuilder, Builders
<1>2. HeaderSize .. b.write_index - 1 \subseteq 0 .. MaxPacketSize - 1
  BY <1>1, SizeAssumption
<1>3. PacketOf(b, count) \in
          [sequence_number : Nat, message_count : Nat, size : {b.write_index},
           cells : [HeaderSize .. b.write_index - 1 -> Cells]]
  BY <1>1, <1>2 DEF PacketOf
<1> QED
  BY <1>1, <1>3 DEF PacketOf, Packets

----
(* What the view reads                                                      *)

\* The builder holds the messages msgs, one behind the other, the k-th with its prefix at
\* at[k], and the write index is where the next one would go.
Packed(b, msgs, at) ==
    /\ msgs \in Seq(Cells) /\ Len(msgs) = b.message_count
    /\ at \in [1 .. Len(msgs) + 1 -> Nat]
    /\ at[1] = HeaderSize /\ at[Len(msgs) + 1] = b.write_index
    /\ \A k \in 1 .. Len(msgs) :
          /\ at[k] \in HeaderSize .. b.write_index - 1
          /\ at[k + 1] = at[k] + PrefixSize + msgs[k].length
          /\ b.buffer[at[k]] = msgs[k] /\ msgs[k].id > 0

\* Whatever a packet holds, the view yields as many messages as the packet counts.
LEMMA ViewYieldsMessages ==
    ASSUME NEW p \in Packets
    PROVE  View(p) \in Seq(Cells) /\ Len(View(p)) = BlockCount(p)
<1> DEFINE At(offset) == IF IsBlockAt(p, offset) THEN p.cells[offset] ELSE NoMessage
           Step(s) == [k \in 1 .. BlockCount(p) + 1 |->
                          IF k = 1 THEN HeaderSize
                          ELSE s[k - 1] + PrefixSize + At(s[k - 1]).length]
           cursors == CHOOSE s : s = Step(s)
<1>1. View(p) = [k \in 1 .. BlockCount(p) |-> At(cursors[k])]
  BY Zenon DEF View
<1> HIDE DEF cursors
<1>2. PICK n \in HeaderSize .. MaxPacketSize : p.cells \in [HeaderSize .. n - 1 -> Cells]
  BY DEF Packets
<1>3. NoMessage \in Cells
  BY DEF NoMessage, Message, Cells
<1>4. ASSUME NEW offset PROVE At(offset) \in Cells
  BY <1>2, <1>3 DEF IsBlockAt
<1> HIDE DEF At
<1>5. BlockCount(p) \in Nat
  BY DEF Packets, BlockCount
<1> QED
  BY <1>1, <1>4, <1>5

\* The view reads back what was packed, although what it reads of a block tells it where
\* the next one is.
LEMMA ViewReadsWhatIsPacked ==
    ASSUME NEW b, IsBuilder(b), NEW msgs, NEW at, Packed(b, msgs, at)
    PROVE  View(Finalize(b)) = msgs
<1> DEFINE p == Finalize(b)
           n == Len(msgs)
           At(offset) == IF IsBlockAt(p, offset) THEN p.cells[offset] ELSE NoMessage
           Step(s) == [k \in 1 .. BlockCount(p) + 1 |->
                          IF k = 1 THEN HeaderSize
                          ELSE s[k - 1] + PrefixSize + At(s[k - 1]).length]
           cursors == CHOOSE s : s = Step(s)
<1>0. View(p) = [k \in 1 .. BlockCount(p) |-> At(cursors[k])]
  BY Zenon DEF View
<1> HIDE DEF cursors
<1>1. BlockCount(p) = n /\ n \in Nat
  BY CountStaysBelowTheSentinel
     DEF BlockCount, IsEndOfSession, Finalize, PacketOf, Packed, IsBuilder, Builders
<1>2. p.cells = [offset \in HeaderSize .. b.write_index - 1 |-> b.buffer[offset]]
  BY DEF Finalize, PacketOf
<1> HIDE DEF p
<1>3. View(p) = [k \in 1 .. n |-> At(cursors[k])]
  BY <1>0, <1>1
<1>4. ASSUME NEW k \in 1 .. n PROVE At(at[k]) = msgs[k]
  BY <1>2 DEF Packed, IsBlockAt
<1> HIDE DEF At
<1>5. at = Step(at)
  <2>1. ASSUME NEW k \in 1 .. n + 1
        PROVE  at[k] = IF k = 1 THEN HeaderSize
                       ELSE at[k - 1] + PrefixSize + At(at[k - 1]).length
    <3>1. CASE k = 1
      BY <3>1 DEF Packed
    <3>2. CASE k # 1
      <4>1. k - 1 \in 1 .. n /\ (k - 1) + 1 = k
        BY <1>1, <3>2
      <4>2. at[k] = at[k - 1] + PrefixSize + msgs[k - 1].length
        BY <4>1 DEF Packed
      <4> QED
        BY <1>4, <3>2, <4>1, <4>2
    <3> QED
      BY <3>1, <3>2
  <2> QED
    BY <1>1, <2>1 DEF Packed
<1>6. cursors = Step(cursors)
  BY <1>5, Zenon DEF cursors
<1>7. \A k \in 1 .. n + 1 :
          cursors[k] = IF k = 1 THEN HeaderSize
                       ELSE cursors[k - 1] + PrefixSize + At(cursors[k - 1]).length
  BY <1>1, <1>6
<1>8. \A k \in 1 .. n + 1 :
          at[k] = IF k = 1 THEN HeaderSize
                  ELSE at[k - 1] + PrefixSize + At(at[k - 1]).length
  BY <1>1, <1>5
<1> DEFINE bad == {k \in 1 .. n + 1 : cursors[k] # at[k]}
<1>9. bad = {}
  <2>1. SUFFICES ASSUME bad # {} PROVE FALSE
    OBVIOUS
  <2> bad \in SUBSET Nat
    OBVIOUS
  <2>2. PICK k \in bad : \A m \in bad : k <= m
    BY <2>1, LeastOf
  <2>3. k # 1
    BY <1>7, <1>8, <2>2
  <2>4. k \in 1 .. n + 1 /\ k - 1 \in 1 .. n + 1 /\ ~(k <= k - 1)
    BY <1>1, <2>2, <2>3
  <2>5. cursors[k - 1] = at[k - 1]
    BY <2>2, <2>4
  <2> QED
    BY <1>7, <1>8, <2>2, <2>3, <2>4, <2>5
<1>10. ASSUME NEW k \in 1 .. n PROVE At(cursors[k]) = msgs[k]
  <2>1. k \in 1 .. n + 1
    BY <1>1
  <2> QED
    BY <1>4, <1>9, <2>1
<1>11. msgs = [k \in 1 .. n |-> msgs[k]]
  BY DEF Packed
<1> QED
  BY <1>3, <1>10, <1>11 DEF p

\* The bare header holds nothing.
LEMMA NothingIsPacked ==
    ASSUME NEW b, b.message_count = 0, b.write_index = HeaderSize
    PROVE  Packed(b, <<>>, [k \in 1 .. 1 |-> HeaderSize])
  BY Sizes DEF Packed

\* A message that fits comes behind those the builder holds, which stay as they are.
LEMMA OneMoreIsPacked ==
    ASSUME NEW b, IsBuilder(b), NEW msgs, NEW at, Packed(b, msgs, at),
           NEW msg \in Cells, msg.id > 0, Fits(b, msg.length)
    PROVE  \E at2 : Packed(TryAppend(b, msg), Append(msgs, msg), at2)
<1> DEFINE n == Len(msgs)
           first == b.write_index
           last == first + PrefixSize + msg.length - 1
           c == TryAppend(b, msg)
           more == Append(msgs, msg)
           at2 == [k \in 1 .. n + 2 |-> IF k = n + 2 THEN last + 1 ELSE at[k]]
<1>1. /\ n \in Nat /\ msgs \in Seq(Cells) /\ first \in HeaderSize .. MaxPacketSize
      /\ msg.length \in Nat /\ b.buffer \in [0 .. MaxPacketSize - 1 -> Cells]
      /\ b.message_count = n
  BY DEF Packed, IsBuilder, Builders, Cells
<1>2. /\ last \in Int /\ first \in Nat /\ first < MaxPacketSize
      /\ last + 1 = first + PrefixSize + msg.length
      /\ HeaderSize <= last + 1 /\ last + 1 <= MaxPacketSize /\ first < last + 1
  <2>1. first + PrefixSize + msg.length <= MaxPacketSize
    BY DEF Fits
  <2>2. first \in Nat /\ HeaderSize <= first /\ msg.length \in Nat
    BY <1>1, Sizes
  <2> HIDE DEF first
  <2> QED
    BY <2>1, <2>2, Sizes
<1>3. /\ c.write_index = last + 1 /\ c.message_count = n + 1
      /\ c.buffer = [offset \in 0 .. MaxPacketSize - 1 |->
                        IF offset = first THEN msg
                        ELSE IF offset \in first + 1 .. last THEN Payload
                        ELSE b.buffer[offset]]
  BY <1>1 DEF TryAppend, Written, IsBuilder, Builders
<1>4. /\ more \in Seq(Cells) /\ Len(more) = n + 1 /\ more[n + 1] = msg
      /\ \A k \in 1 .. n : more[k] = msgs[k]
  BY <1>1
<1> HIDE DEF c, more, last
<1>5. /\ at2 \in [1 .. n + 2 -> Nat] /\ at2[n + 2] = last + 1
      /\ \A k \in 1 .. n + 1 : at2[k] = at[k]
  <2>1. at \in [1 .. n + 1 -> Nat] /\ n \in Nat
    BY <1>1 DEF Packed
  <2>2. last + 1 \in Nat
    BY <1>2, Sizes
  <2>3. \A k \in 1 .. n + 2 : k = n + 2 \/ k \in 1 .. n + 1
    BY <2>1
  <2> QED
    BY <2>1, <2>2, <2>3
<1> HIDE DEF at2
<1>6. at2[1] = HeaderSize /\ at[n + 1] = first
  BY <1>1, <1>5 DEF Packed
<1>7. ASSUME NEW k \in 1 .. n + 1
      PROVE  /\ at2[k] \in HeaderSize .. c.write_index - 1
             /\ at2[k + 1] = at2[k] + PrefixSize + more[k].length
             /\ c.buffer[at2[k]] = more[k] /\ more[k].id > 0
  <2>1. CASE k = n + 1
    <3>1. at2[k] = first /\ at2[k + 1] = last + 1 /\ more[k] = msg
      BY <1>1, <1>4, <1>5, <1>6, <2>1
    <3>2. c.buffer[first] = msg
      <4>1. first \in 0 .. MaxPacketSize - 1
        BY <1>2, Sizes
      <4> QED
        BY <1>3, <4>1
    <3> QED
      BY <1>1, <1>2, <1>3, <3>1, <3>2
  <2>2. CASE k \in 1 .. n
    <3>1. at2[k] = at[k] /\ at2[k + 1] = at[k + 1] /\ more[k] = msgs[k]
      <4>1. k \in 1 .. n + 1 /\ k + 1 \in 1 .. n + 1
        BY <1>1, <2>2
      <4> QED
        BY <1>4, <1>5, <2>2, <4>1
    <3>2. /\ at[k] \in HeaderSize .. first - 1
          /\ at[k + 1] = at[k] + PrefixSize + msgs[k].length
          /\ b.buffer[at[k]] = msgs[k] /\ msgs[k].id > 0
      BY <2>2 DEF Packed
    <3>3. at[k] \in 0 .. MaxPacketSize - 1 /\ at[k] # first /\ ~(at[k] \in first + 1 .. last)
      <4>1. at[k] \in Int /\ HeaderSize <= at[k] /\ at[k] <= first - 1
        BY <1>2, <3>2, Sizes
      <4> HIDE DEF first
      <4> QED
        BY <1>2, <4>1, Sizes
    <3>4. c.buffer[at[k]] = b.buffer[at[k]]
      BY <1>3, <3>3
    <3>5. at[k] \in HeaderSize .. c.write_index - 1
      <4>1. at[k] \in Int /\ HeaderSize <= at[k] /\ at[k] <= first - 1
        BY <1>2, <3>2, Sizes
      <4>2. at[k] <= last
        BY <1>2, <4>1
      <4>3. c.write_index - 1 = last
        BY <1>2, <1>3
      <4> HIDE DEF first
      <4> QED
        BY <1>2, <4>1, <4>2, <4>3, Sizes
    <3> QED
      BY <3>1, <3>2, <3>4, <3>5
  <2> QED
    BY <1>1, <2>1, <2>2
<1>8. Packed(c, more, at2)
  <2>1. Len(more) + 1 = n + 2 /\ 1 .. Len(more) = 1 .. n + 1
    BY <1>1, <1>4
  <2>2. Len(more) = c.message_count /\ at2[Len(more) + 1] = c.write_index
    BY <1>3, <1>4, <1>5, <2>1
  <2> QED
    BY <1>4, <1>5, <1>6, <1>7, <2>1, <2>2 DEF Packed
<1> QED
  BY <1>8 DEF c, more

----
(* The sender                                                               *)

\* A packet that is not a closing one ends behind its blocks, a closing one has none.
LEMMA SequenceAfterOne ==
    ASSUME NEW s \in Seq(Packets), NEW k \in 1 .. Len(s)
    PROVE  /\ BlockCount(s[k]) \in Nat /\ s[k].sequence_number \in Nat
           /\ IsEndOfSession(s[k]) => BlockCount(s[k]) = 0
           /\ ~IsEndOfSession(s[k]) => BlockCount(s[k]) = s[k].message_count
<1>1. s[k] \in Packets
  OBVIOUS
<1>2. s[k].message_count \in Nat /\ s[k].sequence_number \in Nat
  BY <1>1 DEF Packets
<1> QED
  BY <1>2 DEF BlockCount

\* One packet more at the end of the sequence leaves the earlier ones where they are.
LEMMA Appended ==
    ASSUME NEW s \in Seq(Packets), NEW p \in Packets
    PROVE  /\ Append(s, p) \in Seq(Packets)
           /\ Len(Append(s, p)) = Len(s) + 1
           /\ Append(s, p)[Len(s) + 1] = p
           /\ \A k \in 1 .. Len(s) : Append(s, p)[k] = s[k]
           /\ Len(s) \in Nat
  OBVIOUS

\* Sending a packet that starts where the ones before it end keeps the numbers contiguous,
\* and the next packet starts behind its blocks.
LEMMA SendKeepsNumbers ==
    ASSUME SenderType, SequencesAreContiguous, NEW p \in Packets, Send(p),
           p.sequence_number = SequenceAfter(Len(sent))
    PROVE  /\ SequencesAreContiguous'
           /\ SequenceAfter(Len(sent))' = p.sequence_number + BlockCount(p)
<1> DEFINE n == Len(sent)
<1>1. /\ n \in Nat /\ sent' \in Seq(Packets) /\ Len(sent') = n + 1 /\ sent'[n + 1] = p
      /\ \A k \in 1 .. n : sent'[k] = sent[k]
  BY Appended DEF SenderType, Send
<1>2. SequenceAfter(Len(sent))' = p.sequence_number + BlockCount(p)
  BY <1>1 DEF SequenceAfter
<1>3. ASSUME NEW k \in 0 .. n PROVE SequenceAfter(k)' = SequenceAfter(k)
  BY <1>1, <1>3 DEF SequenceAfter
<1>4. ASSUME NEW k \in 1 .. n + 1 PROVE sent'[k].sequence_number = SequenceAfter(k - 1)'
  <2>1. SequenceAfter(k - 1)' = SequenceAfter(k - 1)
    BY <1>1, <1>3
  <2>2. CASE k \in 1 .. n
    BY <1>1, <2>1, <2>2 DEF SequencesAreContiguous, SenderType
  <2>3. CASE k = n + 1
    BY <1>1, <2>1, <2>3
  <2> QED
    BY <1>1, <2>2, <2>3
<1>5. DOMAIN sent' = 1 .. n + 1
  BY <1>1
<1> QED
  BY <1>2, <1>4, <1>5 DEF SequencesAreContiguous

\* The sender starts in the inductive invariant.
LEMMA SenderStarts == Init => SenderInv
<1> SUFFICES ASSUME Init PROVE SenderInv
  OBVIOUS
<1>1. PICK n \in 0 .. MaxMessages : \E lengths \in [1 .. n -> Lengths] :
          file = [k \in 1 .. n |-> Message(k, lengths[k])]
  BY DEF Init
<1>2. file \in Seq(Cells)
  <2>0. PICK lengths \in [1 .. n -> Lengths] :
            file = [k \in 1 .. n |-> Message(k, lengths[k])]
    BY <1>1
  <2>1. \A k \in 1 .. n : Message(k, lengths[k]) \in Cells
    <3>1. ASSUME NEW k \in 1 .. n PROVE k \in Int /\ lengths[k] \in Nat
      <4>1. lengths[k] \in Lengths
        BY <2>0
      <4>2. k \in Int
        OBVIOUS
      <4>3. \A length \in Lengths : length \in Nat
        BY LengthAssumption
      <4> QED
        BY <4>1, <4>2, <4>3
    <3> QED
      BY <3>1 DEF Message, Cells
  <2> QED
    BY <2>0, <2>1, RepeatAssumption
<1>3. SenderType
  BY <1>2, NewBuilderIsOne DEF Init, SenderType
<1>4. Len(sent) = 0 /\ builder.sequence_number = 1
  BY NewBuilderIsOne DEF Init
<1> QED
  BY <1>3, <1>4 DEF Init, SenderInv, PacketsInv, NumberInv, SequencesAreContiguous, SequenceAfter

\* Every step keeps the inductive invariant.
LEMMA SenderKeeps == SenderInv /\ [Next]_vars => SenderInv'
<1> SUFFICES ASSUME SenderInv, [Next]_vars PROVE SenderInv'
  OBVIOUS
<1>0. SenderType /\ PacketsInv /\ NumberInv
  BY DEF SenderInv
<1>1. /\ Len(sent) \in Nat /\ Len(file) \in Nat /\ IsBuilder(builder)
      /\ DOMAIN sent = 1 .. Len(sent) /\ DOMAIN file = 1 .. Len(file)
      /\ builder.message_count \in Nat /\ builder.sequence_number \in Nat
      /\ moldudp64_msg_count \in Nat /\ repeats \in Nat
  BY <1>0 DEF SenderType, IsBuilder, Builders
<1>2. ASSUME cursor <= Len(file) PROVE file[cursor] \in Cells
  BY <1>0, <1>2 DEF SenderType
\* What Finalize sends next is numbered behind what is sent and is no closing packet.
<1>3. /\ Finalize(builder) \in Packets
      /\ ~IsEndOfSession(Finalize(builder))
      /\ Finalize(builder).sequence_number = builder.sequence_number
      /\ BlockCount(Finalize(builder)) = builder.message_count
  BY <1>1, PacketOfIsOne, CountStaysBelowTheSentinel DEF Finalize, IsEndOfSession, BlockCount
\* A data packet is sent: it is the first that is not among the earlier data packets.
<1>4. ASSUME phase = "packing", Send(Finalize(builder)),
             moldudp64_msg_count' = moldudp64_msg_count + 1, UNCHANGED repeats
      PROVE  /\ sent' \in Seq(Packets)
             /\ SequencesAreContiguous'
             /\ SequenceAfter(Len(sent))' = builder.sequence_number + builder.message_count
             /\ Len(sent') = moldudp64_msg_count' + repeats' /\ repeats' = 0
             /\ \A k \in 1 .. Len(sent') :
                   k <= moldudp64_msg_count' /\ ~IsEndOfSession(sent'[k])
  <2>1. SequencesAreContiguous /\ builder.sequence_number = SequenceAfter(Len(sent))
    BY <1>0, <1>4 DEF NumberInv
  <2>2. /\ SequencesAreContiguous'
        /\ SequenceAfter(Len(sent))' = builder.sequence_number + builder.message_count
    BY <1>0, <1>3, <1>4, <2>1, SendKeepsNumbers
  <2>3. /\ sent' \in Seq(Packets) /\ Len(sent') = Len(sent) + 1
        /\ sent'[Len(sent) + 1] = Finalize(builder)
        /\ \A k \in 1 .. Len(sent) : sent'[k] = sent[k]
    BY <1>0, <1>3, <1>4, Appended DEF SenderType, Send
  <2>4. repeats = 0 /\ Len(sent) = moldudp64_msg_count
    BY <1>0, <1>1, <1>4 DEF PacketsInv
  <2>5. \A k \in 1 .. Len(sent) : ~IsEndOfSession(sent[k])
    BY <1>0, <1>1, <2>4 DEF PacketsInv
  <2>6. ASSUME NEW k \in 1 .. Len(sent')
        PROVE  k <= moldudp64_msg_count' /\ ~IsEndOfSession(sent'[k])
    BY <1>1, <1>3, <1>4, <2>3, <2>4, <2>5
  <2> QED
    BY <1>1, <1>4, <2>2, <2>3, <2>4, <2>6
<1>5. CASE PackMessage
  <2>1. IsBuilder(builder') /\ builder'.sequence_number = builder.sequence_number
    BY <1>1, <1>2, <1>5, TryAppendKeeps DEF PackMessage
  <2>2. SenderType'
    BY <1>0, <1>5, <2>1 DEF PackMessage, Consume, SenderType
  <2>3. PacketsInv'
    <3>1. repeats = 0 /\ Len(sent) = moldudp64_msg_count
      BY <1>0, <1>1, <1>5 DEF PackMessage, PacketsInv
    <3>2. \A k \in 1 .. Len(sent) : k <= moldudp64_msg_count /\ ~IsEndOfSession(sent[k])
      BY <1>0, <1>1, <3>1 DEF PacketsInv
    <3> QED
      BY <1>1, <1>5, <3>1, <3>2 DEF PackMessage, PacketsInv
  <2>4. NumberInv'
    BY <1>0, <1>5, <2>1 DEF PackMessage, NumberInv, SequencesAreContiguous, SequenceAfter
  <2> QED
    BY <2>2, <2>3, <2>4 DEF SenderInv
<1>6. CASE SendFullPacket
  <2>1. /\ IsBuilder(builder')
        /\ builder'.sequence_number = builder.sequence_number + builder.message_count
    BY <1>1, <1>2, <1>6, ResetKeeps, TryAppendKeeps DEF SendFullPacket, Retry
  <2>2. /\ phase = "packing" /\ Send(Finalize(builder)) /\ UNCHANGED repeats
        /\ moldudp64_msg_count' = moldudp64_msg_count + 1 /\ UNCHANGED <<file, phase>>
        /\ cursor' = cursor + 1 /\ msg_count' = msg_count + 1
    BY <1>6 DEF SendFullPacket, Consume
  <2>3. SenderType'
    BY <1>0, <1>1, <1>4, <2>1, <2>2 DEF SenderType
  <2>4. PacketsInv'
    BY <1>4, <2>2 DEF PacketsInv
  <2>5. NumberInv'
    BY <1>4, <2>1, <2>2 DEF NumberInv
  <2> QED
    BY <2>3, <2>4, <2>5 DEF SenderInv
<1>7. CASE FlushLastPacket
  <2>2. /\ phase = "packing" /\ Send(Finalize(builder))
        /\ moldudp64_msg_count' = moldudp64_msg_count + 1 /\ phase' = "closing"
        /\ UNCHANGED <<file, cursor, builder, msg_count, repeats>>
    BY <1>7 DEF FlushLastPacket
  <2>3. SenderType'
    BY <1>0, <1>1, <1>4, <2>2 DEF SenderType
  <2>4. PacketsInv'
    BY <1>4, <2>2 DEF PacketsInv
  <2>5. NumberInv'
    BY <1>4, <2>2 DEF NumberInv
  <2> QED
    BY <2>3, <2>4, <2>5 DEF SenderInv
<1>8. CASE NothingToFlush
  <2>1. builder.sequence_number + builder.message_count = builder.sequence_number
    BY <1>1, <1>8 DEF NothingToFlush, Empty
  <2>2. SenderType'
    BY <1>0, <1>8 DEF NothingToFlush, SenderType
  <2>3. PacketsInv'
    BY <1>0, <1>8 DEF NothingToFlush, PacketsInv
  <2>4. NumberInv'
    BY <1>0, <1>8, <2>1 DEF NothingToFlush, NumberInv, SequencesAreContiguous, SequenceAfter
  <2> QED
    BY <2>2, <2>3, <2>4 DEF SenderInv
<1>9. CASE EndSession
  <2>1. /\ IsBuilder(builder') /\ Closed'
        /\ builder'.sequence_number = builder.sequence_number + builder.message_count
    BY <1>1, <1>9, ResetKeeps DEF EndSession, EndOfSessionBuilder, Closed
  <2>2. SenderType'
    BY <1>0, <1>9, <2>1 DEF EndSession, SenderType
  <2>3. PacketsInv'
    <3>1. repeats = 0 /\ Len(sent) = moldudp64_msg_count
      BY <1>0, <1>1, <1>9 DEF EndSession, PacketsInv
    <3>2. \A k \in 1 .. Len(sent) : k <= moldudp64_msg_count /\ ~IsEndOfSession(sent[k])
      BY <1>0, <1>1, <3>1 DEF PacketsInv
    <3> QED
      BY <1>1, <1>9, <2>1, <3>1, <3>2 DEF EndSession, PacketsInv
  <2>4. NumberInv'
    BY <1>0, <1>9, <2>1 DEF EndSession, NumberInv, SequencesAreContiguous, SequenceAfter
  <2> QED
    BY <2>2, <2>3, <2>4 DEF SenderInv
<1>10. CASE SendEndOfSession
  <2> DEFINE p == PacketOf(builder, EndOfSessionCount)
  <2>1. /\ p \in Packets /\ IsEndOfSession(p) /\ BlockCount(p) = 0
        /\ p.sequence_number = builder.sequence_number
    BY <1>1, PacketOfIsOne, Sizes DEF IsEndOfSession, BlockCount
  <2>2. /\ phase = "repeating" /\ Closed /\ SequencesAreContiguous
        /\ builder.sequence_number = SequenceAfter(Len(sent))
    BY <1>0, <1>10 DEF SendEndOfSession, PacketsInv, NumberInv
  <2>3. Send(p) /\ UNCHANGED <<file, cursor, builder, msg_count, moldudp64_msg_count, phase>>
        /\ repeats' = repeats + 1
    BY <1>10 DEF SendEndOfSession
  <2> HIDE DEF p
  <2>4. /\ sent' \in Seq(Packets) /\ Len(sent') = Len(sent) + 1 /\ sent'[Len(sent) + 1] = p
        /\ \A k \in 1 .. Len(sent) : sent'[k] = sent[k]
    BY <1>0, <2>1, <2>3, Appended DEF SenderType, Send
  <2>5. /\ SequencesAreContiguous'
        /\ SequenceAfter(Len(sent))' = builder.sequence_number
    BY <1>0, <1>1, <2>1, <2>2, <2>3, SendKeepsNumbers
  <2>6. SenderType'
    BY <1>0, <1>1, <2>3, <2>4 DEF SenderType
  <2>7. PacketsInv'
    <3>1. Len(sent) = moldudp64_msg_count + repeats
      BY <1>0 DEF PacketsInv
    <3>2. ASSUME NEW k \in 1 .. Len(sent')
          PROVE  IF k <= moldudp64_msg_count THEN ~IsEndOfSession(sent'[k])
                 ELSE sent'[k] = p
      <4>1. CASE k \in 1 .. Len(sent)
        BY <1>0, <2>4, <4>1 DEF PacketsInv, p
      <4>2. CASE k = Len(sent) + 1
        BY <1>1, <2>4, <3>1, <4>2
      <4> QED
        BY <1>1, <2>4, <4>1, <4>2
    <3>3. p' = p
      BY <2>3 DEF p
    <3> QED
      BY <1>1, <2>2, <2>3, <2>4, <3>1, <3>2, <3>3 DEF PacketsInv, Closed, p
  <2>8. NumberInv'
    BY <2>2, <2>3, <2>5 DEF NumberInv
  <2> QED
    BY <2>6, <2>7, <2>8 DEF SenderInv
<1>11. CASE Finish
  <2>1. SenderType'
    BY <1>0, <1>11 DEF Finish, SenderType
  <2>2. PacketsInv'
    BY <1>0, <1>11 DEF Finish, PacketsInv, Closed
  <2>3. NumberInv'
    BY <1>0, <1>11 DEF Finish, NumberInv, SequencesAreContiguous, SequenceAfter
  <2> QED
    BY <2>1, <2>2, <2>3 DEF SenderInv
<1>12. CASE SendFails
  <2>1. SenderType'
    BY <1>0, <1>12 DEF SendFails, SenderType
  <2>2. PacketsInv'
    BY <1>0, <1>12 DEF SendFails, PacketsInv, Closed
  <2>3. NumberInv'
    BY <1>0, <1>12 DEF SendFails, NumberInv, SequencesAreContiguous, SequenceAfter
  <2> QED
    BY <2>1, <2>2, <2>3 DEF SenderInv
<1>13. CASE UNCHANGED vars
  BY <1>0, <1>13 DEF vars, SenderInv, SenderType, PacketsInv, NumberInv, Closed,
     SequencesAreContiguous, SequenceAfter
<1> QED
  BY <1>5, <1>6, <1>7, <1>8, <1>9, <1>10, <1>11, <1>12, <1>13 DEF Next, Terminated

\* The inductive invariant of the sender.
THEOREM SenderInvariant == Spec => []SenderInv
  BY SenderStarts, SenderKeeps, PTL DEF Spec

\* A receiver that counts messages finds no gap and no overlap, from the first packet to the
\* last closing one, whatever was packed where and whether or not a sendto failed.
THEOREM NumbersAreContiguous == Spec => []SequencesAreContiguous
<1>1. SenderInv => SequencesAreContiguous
  BY DEF SenderInv, NumberInv
<1> QED
  BY <1>1, SenderInvariant, PTL

\* However many empty messages a packet holds, it does not read as the end of the session;
\* and every closing packet is the same bare header.
THEOREM EndIsUnmistakable == Spec => []OnlyTheEndReadsAsTheEnd
<1>1. ASSUME SenderInv PROVE OnlyTheEndReadsAsTheEnd
  <2>0. SenderType /\ PacketsInv
    BY <1>1 DEF SenderInv
  <2>1. /\ Len(sent) \in Nat /\ DOMAIN sent = 1 .. Len(sent) /\ IsBuilder(builder)
        /\ moldudp64_msg_count \in Nat /\ repeats \in Nat
        /\ Len(sent) = moldudp64_msg_count + repeats
    BY <2>0 DEF SenderType, PacketsInv
  <2>2. ASSUME NEW k \in 1 .. Len(sent), k <= moldudp64_msg_count
        PROVE  ~IsEndOfSession(sent[k]) /\ sent[k].size \in HeaderSize .. MaxPacketSize
    <3>1. sent[k] \in Packets /\ ~IsEndOfSession(sent[k])
      BY <2>0, <2>2 DEF SenderType, PacketsInv
    <3> QED
      BY <3>1 DEF Packets
  <2>3. ASSUME NEW k \in 1 .. Len(sent), ~(k <= moldudp64_msg_count)
        PROVE  /\ IsEndOfSession(sent[k]) /\ k > moldudp64_msg_count
               /\ sent[k].size \in HeaderSize .. MaxPacketSize
               /\ sent[k] = FinalizeEndOfSession(builder) /\ sent[k].size = HeaderSize
    <3>1. sent[k] = PacketOf(builder, EndOfSessionCount)
      BY <2>0, <2>3 DEF PacketsInv
    <3>2. repeats > 0
      BY <2>1, <2>3
    <3>3. builder.message_count = 0 /\ builder.write_index = HeaderSize
      BY <2>0, <3>2 DEF PacketsInv, Closed
    <3>4. Reset(builder) = builder
      BY <2>1, <3>3, ResetKeeps
    <3>5. sent[k].message_count = EndOfSessionCount /\ sent[k].size = HeaderSize
      BY <2>1, <3>1, <3>3, PacketOfIsOne, Sizes
    <3> QED
      BY <2>1, <2>3, <3>1, <3>4, <3>5, Sizes
         DEF FinalizeEndOfSession, EndOfSessionBuilder, IsEndOfSession
  <2>4. ASSUME NEW k \in 1 .. Len(sent)
        PROVE  /\ IsEndOfSession(sent[k]) <=> k > moldudp64_msg_count
               /\ sent[k].size \in HeaderSize .. MaxPacketSize
               /\ IsEndOfSession(sent[k]) =>
                     sent[k] = FinalizeEndOfSession(builder) /\ sent[k].size = HeaderSize
    <3>1. CASE k <= moldudp64_msg_count
      BY <2>1, <2>2, <3>1
    <3>2. CASE ~(k <= moldudp64_msg_count)
      BY <2>3, <3>2
    <3> QED
      BY <3>1, <3>2
  <2> QED
    BY <2>1, <2>4 DEF OnlyTheEndReadsAsTheEnd
<1> QED
  BY <1>1, SenderInvariant, PTL

----
(* The file, read back                                                      *)

\* The messages of what was packed so far are in the packets sent and in the builder, in
\* order, less those too long for any packet; after the last flush, in the packets alone.
FileInv ==
    /\ \A k \in 1 .. Len(file) : file[k].id > 0
    /\ cursor <= Len(file) + 1
    /\ phase = "packing" =>
          \E msgs, at :
              /\ Packed(builder, msgs, at)
              /\ Framed(sent) \o msgs = Sendable(SubSeq(file, 1, cursor - 1))
    /\ phase \in {"closing", "repeating", "ok"} => Framed(DataPackets) = Sendable(file)

LEMMA FramedAppend ==
    ASSUME NEW packets \in Seq(Packets), NEW p \in Packets
    PROVE  /\ Framed(packets) \in Seq(Cells)
           /\ Framed(Append(packets, p)) = Framed(packets) \o View(p)
<1> DEFINE views == [k \in DOMAIN packets |-> View(packets[k])]
           more == [k \in DOMAIN Append(packets, p) |-> View(Append(packets, p)[k])]
<1>1. views \in Seq(Seq(Cells)) /\ View(p) \in Seq(Cells)
  <2>1. ASSUME NEW k \in 1 .. Len(packets) PROVE View(packets[k]) \in Seq(Cells)
    <3>1. packets[k] \in Packets
      OBVIOUS
    <3> QED
      BY <3>1, ViewYieldsMessages
  <2>2. views = [k \in 1 .. Len(packets) |-> View(packets[k])] /\ Len(packets) \in Nat
    OBVIOUS
  <2>3. views \in Seq(Seq(Cells))
    BY <2>1, <2>2
  <2> QED
    BY <2>3, ViewYieldsMessages
<1>2. more = Append(views, View(p))
  BY Appended
<1>3. Framed(packets) = FlattenSeq(views) /\ Framed(Append(packets, p)) = FlattenSeq(more)
  BY DEF Framed
<1> HIDE DEF views, more
<1> QED
  BY <1>1, <1>2, <1>3, FlattenAppend

LEMMA SendableAppend ==
    ASSUME NEW messages \in Seq(Cells), NEW msg \in Cells
    PROVE  /\ Sendable(messages) \in Seq(Cells)
           /\ Sendable(Append(messages, msg)) =
                  Sendable(messages) \o IF Fits(NewBuilder(1), msg.length) THEN <<msg>> ELSE <<>>
<1> DEFINE Kept(m) == IF Fits(NewBuilder(1), m.length) THEN <<m>> ELSE <<>>
           kept == [k \in DOMAIN messages |-> Kept(messages[k])]
           more == [k \in DOMAIN Append(messages, msg) |-> Kept(Append(messages, msg)[k])]
<1>1. ASSUME NEW m \in Cells PROVE Kept(m) \in Seq(Cells)
  OBVIOUS
<1>2. Sendable(messages) = FlattenSeq(kept) /\ Sendable(Append(messages, msg)) = FlattenSeq(more)
  BY DEF Sendable
<1>3. Kept(msg) = IF Fits(NewBuilder(1), msg.length) THEN <<msg>> ELSE <<>>
  OBVIOUS
<1> HIDE DEF Kept
<1>4. kept \in Seq(Seq(Cells))
  <2>1. \A k \in 1 .. Len(messages) : Kept(messages[k]) \in Seq(Cells)
    BY <1>1
  <2> QED
    BY <2>1
<1>5. more = Append(kept, Kept(msg))
  OBVIOUS
<1> HIDE DEF kept, more
<1> QED
  BY <1>1, <1>2, <1>3, <1>4, <1>5, FlattenAppend

\* All the packets sent while the file is being packed are data packets.
LEMMA DataIsWhatIsSent ==
    ASSUME SenderInv, phase = "packing"
    PROVE  DataPackets = sent
<1>1. sent \in Seq(Packets) /\ Len(sent) = moldudp64_msg_count
  BY DEF SenderInv, SenderType, PacketsInv
<1> QED
  BY <1>1 DEF DataPackets

LEMMA FileStarts == Init => FileInv
<1> SUFFICES ASSUME Init PROVE FileInv
  OBVIOUS
<1>1. PICK n \in 0 .. MaxMessages : \E lengths \in [1 .. n -> Lengths] :
          file = [k \in 1 .. n |-> Message(k, lengths[k])]
  BY DEF Init
<1>2. Len(file) = n /\ \A k \in 1 .. n : file[k].id > 0
  BY <1>1, RepeatAssumption DEF Message
<1>3. /\ Packed(builder, <<>>, [k \in 1 .. 1 |-> HeaderSize])
      /\ sent = <<>> /\ cursor = 1 /\ phase = "packing"
  BY NothingIsPacked DEF Init, NewBuilder
<1>4. Framed(sent) = <<>> /\ Sendable(SubSeq(file, 1, cursor - 1)) = <<>>
  <2>1. [k \in DOMAIN sent |-> View(sent[k])] = <<>>
    BY <1>3
  <2>2. SubSeq(file, 1, cursor - 1) = <<>>
    BY <1>1, <1>2, <1>3
  <2>3. \A messages : messages = <<>> =>
            [k \in DOMAIN messages |->
                IF Fits(NewBuilder(1), messages[k].length) THEN <<messages[k]>> ELSE <<>>] = <<>>
    OBVIOUS
  <2> QED
    BY <2>1, <2>2, <2>3, FlattenNothing DEF Framed, Sendable
<1>5. Framed(sent) \o <<>> = Sendable(SubSeq(file, 1, cursor - 1))
  BY <1>4
<1> QED
  <2>1. \E msgs, at : Packed(builder, msgs, at)
                      /\ Framed(sent) \o msgs = Sendable(SubSeq(file, 1, cursor - 1))
    BY <1>3, <1>5
  <2>2. cursor <= Len(file) + 1
    BY <1>2, <1>3, RepeatAssumption
  <2> QED
    BY <1>2, <1>3, <2>1, <2>2 DEF FileInv

LEMMA FileKeeps == SenderInv /\ FileInv /\ [Next]_vars => FileInv'
<1> SUFFICES ASSUME SenderInv, FileInv, [Next]_vars PROVE FileInv'
  OBVIOUS
<1>0. SenderType /\ PacketsInv
  BY DEF SenderInv
<1>1. /\ file \in Seq(Cells) /\ Len(file) \in Nat /\ IsBuilder(builder) /\ sent \in Seq(Packets)
      /\ builder.message_count \in Nat /\ builder.write_index \in HeaderSize .. MaxPacketSize
      /\ moldudp64_msg_count \in Nat /\ repeats \in Nat /\ cursor \in Nat \ {0}
  BY <1>0 DEF SenderType, IsBuilder, Builders
<1>2. ASSUME phase = "packing", cursor <= Len(file)
      PROVE  /\ file[cursor] \in Cells /\ file[cursor].id > 0
             /\ SubSeq(file, 1, cursor) = Append(SubSeq(file, 1, cursor - 1), file[cursor])
             /\ SubSeq(file, 1, cursor - 1) \in Seq(Cells)
  <2>1. cursor \in 1 .. Len(file) /\ 1 \in 1 .. cursor
    BY <1>1, <1>2
  <2>2. file[cursor] \in Cells /\ SubSeq(file, 1, cursor - 1) \in Seq(Cells)
    BY <1>1, <2>1
  <2>3. SubSeq(file, 1, cursor) = Append(SubSeq(file, 1, cursor - 1), file[cursor])
    BY <1>1, <2>1, SubSeqGrows
  <2> QED
    BY <2>1, <2>2, <2>3 DEF FileInv
<1>3. ASSUME phase = "packing"
      PROVE  \E msgs, at :
                /\ Packed(builder, msgs, at) /\ msgs \in Seq(Cells)
                /\ View(Finalize(builder)) = msgs
                /\ Framed(sent) \in Seq(Cells)
                /\ Framed(sent) \o msgs = Sendable(SubSeq(file, 1, cursor - 1))
  <2>1. PICK msgs, at :
            /\ Packed(builder, msgs, at)
            /\ Framed(sent) \o msgs = Sendable(SubSeq(file, 1, cursor - 1))
    BY <1>3 DEF FileInv
  <2>2. View(Finalize(builder)) = msgs /\ msgs \in Seq(Cells)
    BY <1>1, <2>1, ViewReadsWhatIsPacked DEF Packed
  <2>3. Framed(sent) \in Seq(Cells)
    BY <1>1, FramedAppend, PacketOfIsOne DEF Finalize
  <2> QED
    BY <2>1, <2>2, <2>3
\* The packet in the builder is sent: the packets now hold what both held before.
<1>4. ASSUME phase = "packing", Send(Finalize(builder))
      PROVE  Framed(sent') = Sendable(SubSeq(file, 1, cursor - 1))
  <2>1. Finalize(builder) \in Packets
    BY <1>1, PacketOfIsOne DEF Finalize
  <2> QED
    BY <1>1, <1>3, <1>4, <2>1, FramedAppend DEF Send
<1>5. CASE PackMessage
  <2> DEFINE m == file[cursor]
  <2>1. /\ phase = "packing" /\ phase' = "packing" /\ cursor <= Len(file) /\ Fits(builder, m.length)
        /\ builder' = TryAppend(builder, m) /\ cursor' = cursor + 1
        /\ UNCHANGED <<file, sent>>
    BY <1>5 DEF PackMessage, Consume
  <2>2. PICK msgs, at :
            /\ Packed(builder, msgs, at) /\ msgs \in Seq(Cells)
            /\ Framed(sent) \in Seq(Cells)
            /\ Framed(sent) \o msgs = Sendable(SubSeq(file, 1, cursor - 1))
    BY <1>3, <2>1
  <2>3. PICK at2 : Packed(builder', Append(msgs, m), at2)
    BY <1>1, <1>2, <2>1, <2>2, OneMoreIsPacked
  <2>4. Fits(NewBuilder(1), m.length)
    <3>1. m.length \in Nat
      BY <1>2, <2>1 DEF Cells
    <3>2. NewBuilder(1).write_index = HeaderSize
      BY DEF NewBuilder
    <3>3. builder.write_index + PrefixSize + m.length <= MaxPacketSize
      BY <2>1 DEF Fits
    <3> HIDE DEF m
    <3>4. HeaderSize + PrefixSize + m.length <= MaxPacketSize
      BY <1>1, <3>1, <3>3, Sizes
    <3> QED
      BY <3>2, <3>4 DEF Fits
  <2>5. Sendable(SubSeq(file, 1, cursor)) = Sendable(SubSeq(file, 1, cursor - 1)) \o <<m>>
    BY <1>2, <2>1, <2>4, SendableAppend
  <2>6. Framed(sent) \o Append(msgs, m) = Sendable(SubSeq(file, 1, cursor))
    <3>1. (Framed(sent) \o msgs) \o <<m>> = Framed(sent) \o Append(msgs, m)
      <4>1. m \in Cells
        BY <1>2, <2>1
      <4> DEFINE framed == Framed(sent)
      <4>2. framed \in Seq(Cells)
        BY <2>2
      <4>3. msgs \in Seq(Cells)
        BY <2>2
      <4> HIDE DEF m, framed
      <4> DEFINE one == <<m>>
      <4>4. one \in Seq(Cells)
        BY <4>1
      <4>5. Append(msgs, m) = msgs \o one
        BY <4>1, <4>3, AppendIsConcat
      <4> HIDE DEF one
      <4>6. (framed \o msgs) \o one = framed \o (msgs \o one)
        BY <4>2, <4>3, <4>4, ConcatAssociative
      <4> QED
        BY <4>5, <4>6 DEF framed, one
    <3> QED
      BY <2>2, <2>5, <3>1
  <2>7. cursor' - 1 = cursor
    BY <1>1, <2>1
  <2>8. Framed(sent)' = Framed(sent) /\ Sendable(SubSeq(file, 1, cursor - 1))' = Sendable(SubSeq(file, 1, cursor))
    BY <2>1, <2>7
  <2>9. \E s, a : /\ Packed(builder', s, a)
                  /\ Framed(sent)' \o s = Sendable(SubSeq(file, 1, cursor - 1))'
    BY <2>3, <2>6, <2>8
  <2>10. /\ \A k \in 1 .. Len(file') : file'[k].id > 0
         /\ cursor' <= Len(file') + 1
    BY <1>1, <2>1 DEF FileInv
  <2> QED
    BY <2>1, <2>9, <2>10 DEF FileInv
<1>6. CASE SendFullPacket
  <2> DEFINE m == file[cursor]
             kept == IF Fits(NewBuilder(1), m.length) THEN <<m>> ELSE <<>>
             r == Reset(builder)
  <2>1. /\ phase = "packing" /\ phase' = "packing" /\ cursor <= Len(file)
        /\ Send(Finalize(builder)) /\ builder' = TryAppend(r, m) /\ cursor' = cursor + 1
        /\ UNCHANGED file
    BY <1>6 DEF SendFullPacket, Consume, Retry
  <2>2. Framed(sent') = Sendable(SubSeq(file, 1, cursor - 1))
    BY <1>4, <2>1
  <2>3. Sendable(SubSeq(file, 1, cursor)) = Sendable(SubSeq(file, 1, cursor - 1)) \o kept
    BY <1>2, <2>1, SendableAppend
  <2>4. /\ IsBuilder(r) /\ Packed(r, <<>>, [k \in 1 .. 1 |-> HeaderSize])
        /\ r.write_index = HeaderSize
    BY <1>1, ResetKeeps, NothingIsPacked
  <2>5. Fits(r, m.length) <=> Fits(NewBuilder(1), m.length)
    BY <2>4 DEF Fits, NewBuilder
  <2> HIDE DEF r
  <2>6. \E a : Packed(builder', kept, a)
    <3>1. CASE Fits(r, m.length)
      <4>1. kept = Append(<<>>, m)
        BY <2>5, <3>1
      <4>2. \E a : Packed(TryAppend(r, m), Append(<<>>, m), a)
        BY <1>2, <2>1, <2>4, <3>1, OneMoreIsPacked
      <4> QED
        BY <2>1, <4>1, <4>2
    <3>2. CASE ~Fits(r, m.length)
      <4>1. kept = <<>> /\ builder' = r
        BY <2>1, <2>5, <3>2 DEF TryAppend
      <4> QED
        BY <2>4, <4>1
    <3> QED
      BY <3>1, <3>2
  <2>7. cursor' - 1 = cursor
    BY <1>1, <2>1
  <2>8. /\ Framed(sent)' = Framed(sent')
        /\ Sendable(SubSeq(file, 1, cursor - 1))' = Sendable(SubSeq(file, 1, cursor))
    BY <2>1, <2>7
  <2>9. \E s, a : /\ Packed(builder', s, a)
                  /\ Framed(sent)' \o s = Sendable(SubSeq(file, 1, cursor - 1))'
    BY <2>2, <2>3, <2>6, <2>8
  <2>10. /\ \A k \in 1 .. Len(file') : file'[k].id > 0
         /\ cursor' <= Len(file') + 1
    BY <1>1, <2>1 DEF FileInv
  <2> QED
    BY <2>1, <2>9, <2>10 DEF FileInv
\* Once the cursor is past the file, what was packed is the file.
<1>7. ASSUME phase = "packing", cursor > Len(file)
      PROVE  SubSeq(file, 1, cursor - 1) = file
  BY <1>1, <1>7 DEF FileInv
<1>8. CASE FlushLastPacket
  <2>1. /\ phase = "packing" /\ phase' = "closing" /\ cursor > Len(file)
        /\ Send(Finalize(builder)) /\ moldudp64_msg_count' = moldudp64_msg_count + 1
        /\ UNCHANGED <<file, cursor>>
    BY <1>8 DEF FlushLastPacket
  <2>2. Framed(sent') = Sendable(file)
    BY <1>4, <1>7, <2>1
  <2>3. DataPackets' = sent'
    <3>1. Len(sent) = moldudp64_msg_count
      BY <1>0, <1>1, <2>1 DEF PacketsInv
    <3>2. sent' \in Seq(Packets) /\ Len(sent') = Len(sent) + 1
      BY <1>1, <2>1, Appended, PacketOfIsOne DEF Send, Finalize
    <3> QED
      BY <2>1, <3>1, <3>2 DEF DataPackets
  <2>4. Framed(DataPackets)' = Framed(sent')
    BY <2>3
  <2> QED
    BY <2>1, <2>2, <2>4 DEF FileInv
<1>9. CASE NothingToFlush
  <2>1. /\ phase = "packing" /\ phase' = "closing" /\ cursor > Len(file)
        /\ builder.message_count = 0 /\ UNCHANGED <<file, cursor, sent, moldudp64_msg_count>>
    BY <1>9 DEF NothingToFlush, Empty
  <2>2. PICK msgs, at :
            /\ Packed(builder, msgs, at) /\ msgs \in Seq(Cells)
            /\ Framed(sent) \in Seq(Cells)
            /\ Framed(sent) \o msgs = Sendable(SubSeq(file, 1, cursor - 1))
    BY <1>3, <2>1
  <2>3. msgs = <<>>
    BY <2>1, <2>2 DEF Packed
  <2>4. Framed(sent) = Sendable(file)
    <3>1. SubSeq(file, 1, cursor - 1) = file
      BY <1>7, <2>1
    <3>2. Framed(sent) \o <<>> = Framed(sent)
      BY <2>2
    <3> QED
      BY <2>2, <2>3, <3>1, <3>2
  <2>5. DataPackets' = sent
    BY <2>1, DataIsWhatIsSent DEF DataPackets
  <2>6. Framed(DataPackets)' = Framed(sent)
    BY <2>5
  <2> QED
    BY <2>1, <2>4, <2>6 DEF FileInv
<1>10. CASE SendEndOfSession
  <2>1. /\ phase = "repeating" /\ phase' = "repeating"
        /\ Send(PacketOf(builder, EndOfSessionCount))
        /\ UNCHANGED <<file, cursor, moldudp64_msg_count>>
    BY <1>10 DEF SendEndOfSession
  <2>2. DataPackets' = DataPackets
    <3>1. moldudp64_msg_count <= Len(sent)
      BY <1>0, <1>1 DEF PacketsInv
    <3>2. /\ sent' \in Seq(Packets) /\ Len(sent') = Len(sent) + 1
          /\ \A k \in 1 .. Len(sent) : sent'[k] = sent[k]
      BY <1>1, <2>1, Appended, PacketOfIsOne, Sizes DEF Send
    <3> QED
      BY <1>1, <2>1, <3>1, <3>2 DEF DataPackets
  <2>3. Framed(DataPackets)' = Framed(DataPackets)
    BY <2>2
  <2> QED
    BY <2>1, <2>3 DEF FileInv
<1>11. CASE EndSession \/ Finish \/ SendFails \/ UNCHANGED vars
  <2>1. /\ UNCHANGED <<file, cursor, sent, moldudp64_msg_count>>
        /\ \/ phase' = phase /\ builder' = builder
           \/ phase' = "repeating" /\ phase = "closing"
           \/ phase' = "ok" /\ phase = "repeating"
           \/ phase' = "error"
    BY <1>11 DEF EndSession, Finish, SendFails, vars
  <2>2. Framed(DataPackets)' = Framed(DataPackets) /\ Framed(sent)' = Framed(sent)
    BY <2>1 DEF DataPackets
  <2> QED
    BY <2>1, <2>2 DEF FileInv
<1> QED
  BY <1>5, <1>6, <1>8, <1>9, <1>10, <1>11 DEF Next, Terminated

\* The inductive invariant of what the packets hold.
THEOREM FileInvariant == Spec => []FileInv
  BY FileStarts, FileKeeps, SenderInvariant, PTL DEF Spec

\* What a receiver's view reads out of the packets is the file so far, for every file, packet
\* size and split into packets, and whatever an earlier packet left in the buffer; a message
\* too long for any packet takes no neighbour with it.
THEOREM FileIsReadBack == Spec => []ViewReadsTheFileBack
<1>1. ASSUME SenderInv, FileInv, phase = "packing"
      PROVE  Framed(DataPackets) \o Pending = Sendable(SubSeq(file, 1, cursor - 1))
  <2>1. PICK msgs, at :
            /\ Packed(builder, msgs, at)
            /\ Framed(sent) \o msgs = Sendable(SubSeq(file, 1, cursor - 1))
    BY <1>1 DEF FileInv
  <2>2. Pending = msgs
    BY <1>1, <2>1, ViewReadsWhatIsPacked DEF Pending, SenderInv, SenderType
  <2> QED
    BY <1>1, <2>1, <2>2, DataIsWhatIsSent
<1>2. SenderInv /\ FileInv => ViewReadsTheFileBack
  BY <1>1 DEF ViewReadsTheFileBack
<1> QED
  BY <1>2, SenderInvariant, FileInvariant, PTL

----
(* Numbers and positions                                                    *)

\* Where no message is too long, the number of a packet is the position in the file of its
\* first message: a receiver that knew the numbers of the packets it read would know what it
\* had missed.
CarriesTheFile(p) ==
    /\ p.sequence_number \in 1 .. Len(file)
    /\ p.sequence_number + BlockCount(p) <= Len(file) + 1
    /\ View(p) = SubSeq(file, p.sequence_number, p.sequence_number + BlockCount(p) - 1)

NothingIsTooLong == \A k \in 1 .. Len(file) : Fits(NewBuilder(1), file[k].length)

\* The builder's number and count say where in the file the cursor is, until the packet after
\* the last is the closing one.
PositionInv ==
    /\ NothingIsTooLong
    /\ msg_count = cursor - 1
    /\ builder.sequence_number > 0
    /\ \A k \in 1 .. moldudp64_msg_count : CarriesTheFile(sent[k])
    /\ phase = "packing" =>
          /\ builder.sequence_number + builder.message_count = cursor
          /\ \E at : Packed(builder, SubSeq(file, builder.sequence_number, cursor - 1), at)
    /\ phase \in {"closing", "repeating", "ok"} => cursor = Len(file) + 1
    /\ phase = "closing" => builder.sequence_number + builder.message_count = cursor
    /\ phase \in {"repeating", "ok"} \/ repeats > 0 => builder.sequence_number = Len(file) + 1

LEMMA PositionsStart == Init /\ NothingIsTooLong => PositionInv
<1> SUFFICES ASSUME Init, NothingIsTooLong PROVE PositionInv
  OBVIOUS
<1>1. /\ Packed(builder, <<>>, [k \in 1 .. 1 |-> HeaderSize])
      /\ builder.sequence_number = 1 /\ builder.message_count = 0
      /\ sent = <<>> /\ cursor = 1 /\ msg_count = 0 /\ repeats = 0 /\ phase = "packing"
      /\ moldudp64_msg_count = 0
  BY NothingIsPacked DEF Init, NewBuilder
<1>2. SubSeq(file, 1, 0) = <<>>
  <2>1. file \in Seq(Cells)
    BY SenderStarts DEF SenderInv, SenderType
  <2> QED
    BY <2>1
<1>3. \E at : Packed(builder, SubSeq(file, builder.sequence_number, cursor - 1), at)
  <2>1. cursor - 1 = 0
    BY <1>1
  <2>2. SubSeq(file, builder.sequence_number, cursor - 1) = <<>>
    BY <1>1, <1>2, <2>1
  <2> QED
    BY <1>1, <2>2
<1> QED
  BY <1>1, <1>3 DEF PositionInv

\* What stands in the builder while the file is packed is a data packet in its place.
LEMMA BuilderCarriesTheFile ==
    ASSUME SenderInv, FileInv, PositionInv, phase = "packing", builder.message_count > 0
    PROVE  CarriesTheFile(Finalize(builder))
<1>1. /\ IsBuilder(builder) /\ builder.message_count \in Nat /\ builder.sequence_number \in Nat
      /\ Len(file) \in Nat /\ cursor \in Nat
  BY DEF SenderInv, SenderType, IsBuilder, Builders
<1>2. /\ Finalize(builder).sequence_number = builder.sequence_number
      /\ BlockCount(Finalize(builder)) = builder.message_count
  BY <1>1, PacketOfIsOne, CountStaysBelowTheSentinel DEF Finalize, IsEndOfSession, BlockCount
<1>3. PICK at : Packed(builder, SubSeq(file, builder.sequence_number, cursor - 1), at)
  BY DEF PositionInv
<1>4. View(Finalize(builder)) = SubSeq(file, builder.sequence_number, cursor - 1)
  BY <1>1, <1>3, ViewReadsWhatIsPacked
<1>5. /\ builder.sequence_number > 0 /\ cursor <= Len(file) + 1
      /\ builder.sequence_number + builder.message_count = cursor
  BY DEF PositionInv, FileInv
<1>6. builder.sequence_number \in 1 .. Len(file)
  BY <1>1, <1>5
<1> DEFINE p == Finalize(builder)
<1>7. /\ p.sequence_number + BlockCount(p) <= Len(file) + 1
      /\ p.sequence_number + BlockCount(p) - 1 = cursor - 1
  <2> HIDE DEF p
  <2> QED
    BY <1>1, <1>2, <1>5 DEF p
<1> HIDE DEF p
<1> QED
  BY <1>2, <1>4, <1>6, <1>7 DEF CarriesTheFile, p

LEMMA PositionsKeep == SenderInv /\ FileInv /\ PositionInv /\ [Next]_vars => PositionInv'
<1> SUFFICES ASSUME SenderInv, FileInv, PositionInv, [Next]_vars PROVE PositionInv'
  OBVIOUS
<1>0. SenderType /\ PacketsInv
  BY DEF SenderInv
<1>1. /\ file \in Seq(Cells) /\ Len(file) \in Nat /\ IsBuilder(builder) /\ sent \in Seq(Packets)
      /\ builder.message_count \in Nat /\ builder.sequence_number \in Nat
      /\ builder.write_index \in HeaderSize .. MaxPacketSize
      /\ moldudp64_msg_count \in Nat /\ repeats \in Nat /\ cursor \in Nat \ {0}
      /\ cursor <= Len(file) + 1 /\ msg_count = cursor - 1 /\ builder.sequence_number > 0
  BY <1>0 DEF SenderType, IsBuilder, Builders, FileInv, PositionInv
<1>2. UNCHANGED file => NothingIsTooLong'
  BY DEF PositionInv, NothingIsTooLong
\* Packets stay what they are.
<1>3. ASSUME UNCHANGED <<file, moldudp64_msg_count>>,
             \A k \in 1 .. Len(sent) : sent'[k] = sent[k]
      PROVE  \A k \in 1 .. moldudp64_msg_count' : CarriesTheFile(sent[k])'
  <2>1. moldudp64_msg_count <= Len(sent) /\ Len(sent) \in Nat
    BY <1>0, <1>1 DEF PacketsInv
  <2>2. ASSUME NEW k \in 1 .. moldudp64_msg_count PROVE CarriesTheFile(sent'[k])
    <3>1. sent'[k] = sent[k]
      BY <1>1, <1>3, <2>1
    <3> QED
      BY <3>1 DEF PositionInv
  <2>3. ASSUME NEW p, CarriesTheFile(p)
      PROVE  /\ p.sequence_number \in 1 .. Len(file')
             /\ p.sequence_number + BlockCount(p) <= Len(file') + 1
             /\ View(p) = SubSeq(file', p.sequence_number, p.sequence_number + BlockCount(p) - 1)
    BY <1>3, <2>3 DEF CarriesTheFile
  <2> QED
    BY <1>3, <2>2, <2>3 DEF CarriesTheFile
<1>4. ASSUME UNCHANGED file, phase = "packing", builder.message_count > 0,
             Send(Finalize(builder)), moldudp64_msg_count' = moldudp64_msg_count + 1
      PROVE  \A k \in 1 .. moldudp64_msg_count' : CarriesTheFile(sent[k])'
  <2>1. /\ Len(sent) = moldudp64_msg_count /\ sent'[Len(sent) + 1] = Finalize(builder)
        /\ \A k \in 1 .. Len(sent) : sent'[k] = sent[k]
    BY <1>0, <1>1, <1>4, Appended, PacketOfIsOne DEF Send, Finalize, PacketsInv
  <2>2. CarriesTheFile(Finalize(builder))
    BY <1>4, BuilderCarriesTheFile
  <2>3. \A k \in 1 .. moldudp64_msg_count' : CarriesTheFile(sent'[k])
    BY <1>1, <1>4, <2>1, <2>2 DEF PositionInv
  <2> QED
    BY <1>4, <2>3 DEF CarriesTheFile
<1>5. CASE PackMessage
  <2> DEFINE m == file[cursor]
             s == builder.sequence_number
  <2>1. /\ phase = "packing" /\ phase' = "packing" /\ cursor <= Len(file) /\ Fits(builder, m.length)
        /\ builder' = TryAppend(builder, m) /\ cursor' = cursor + 1 /\ msg_count' = msg_count + 1
        /\ UNCHANGED <<file, sent, repeats, moldudp64_msg_count>>
    BY <1>5 DEF PackMessage, Consume
  <2>2. m \in Cells /\ m.id > 0
    BY <1>1, <2>1 DEF FileInv
  <2>3. /\ builder'.sequence_number = s
        /\ builder'.message_count = builder.message_count + 1
    <3>1. builder'.sequence_number = s
      BY <1>1, <2>1, <2>2, TryAppendKeeps
    <3>2. builder'.message_count = builder.message_count + 1
      BY <1>1, <2>1 DEF TryAppend, Written, IsBuilder, Builders
    <3> QED
      BY <3>1, <3>2
  <2>4. s + builder.message_count = cursor
    BY <2>1 DEF PositionInv
  <2>5. PICK at : Packed(builder, SubSeq(file, s, cursor - 1), at)
    BY <2>1 DEF PositionInv
  <2>6. Append(SubSeq(file, s, cursor - 1), m) = SubSeq(file, s, cursor)
    <3>1. s \in 1 .. cursor /\ cursor \in 1 .. Len(file)
      BY <1>1, <2>1, <2>4
    <3> QED
      BY <1>1, <3>1, SubSeqGrows
  <2>7. \E at2 : Packed(builder', SubSeq(file, s, cursor), at2)
    BY <1>1, <2>1, <2>2, <2>5, <2>6, OneMoreIsPacked
  <2>8. \E at2 : Packed(builder', SubSeq(file', builder'.sequence_number, cursor' - 1), at2)
    <3>1. cursor' - 1 = cursor
      BY <1>1, <2>1
    <3> QED
      BY <2>1, <2>3, <2>7, <3>1
  <2>9. \A k \in 1 .. moldudp64_msg_count' : CarriesTheFile(sent[k])'
    BY <1>3, <2>1
  <2>10. repeats' = 0 /\ msg_count' = cursor' - 1
    BY <1>0, <1>1, <2>1 DEF PacketsInv
  <2>11. /\ builder'.sequence_number + builder'.message_count = cursor'
         /\ builder'.sequence_number > 0
    BY <1>1, <2>1, <2>3, <2>4
  <2> QED
    BY <1>2, <2>1, <2>8, <2>9, <2>10, <2>11 DEF PositionInv
<1>6. CASE SendFullPacket
  <2> DEFINE m == file[cursor]
             r == Reset(builder)
  <2>1. /\ phase = "packing" /\ phase' = "packing" /\ cursor <= Len(file)
        /\ ~Fits(builder, m.length) /\ Send(Finalize(builder)) /\ builder' = TryAppend(r, m)
        /\ cursor' = cursor + 1 /\ msg_count' = msg_count + 1
        /\ moldudp64_msg_count' = moldudp64_msg_count + 1
        /\ UNCHANGED <<file, repeats>>
    BY <1>6 DEF SendFullPacket, Consume, Retry
  <2>2. m \in Cells /\ m.id > 0 /\ Fits(NewBuilder(1), m.length)
    <3>1. cursor \in 1 .. Len(file)
      BY <1>1, <2>1
    <3>2. m \in Cells
      BY <1>1, <3>1
    <3> HIDE DEF m
    <3> QED
      BY <3>1, <3>2 DEF FileInv, PositionInv, NothingIsTooLong, m
  <2>3. /\ IsBuilder(r) /\ Packed(r, <<>>, [k \in 1 .. 1 |-> HeaderSize])
        /\ r.write_index = HeaderSize /\ r.message_count = 0
        /\ r.sequence_number = builder.sequence_number + builder.message_count
    BY <1>1, ResetKeeps, NothingIsPacked
  <2>4. builder.sequence_number + builder.message_count = cursor
    BY <2>1 DEF PositionInv
  \* The message that does not fit behind others fits alone, so there are others.
  <2>5. builder.message_count > 0
    <3>1. SUFFICES ASSUME builder.message_count = 0 PROVE FALSE
      BY <1>1
    <3>2. PICK at : Packed(builder, SubSeq(file, builder.sequence_number, cursor - 1), at)
      BY <2>1 DEF PositionInv
    <3>3. builder.write_index = HeaderSize
      BY <3>1, <3>2 DEF Packed
    <3> QED
      BY <2>1, <2>2, <3>3 DEF Fits, NewBuilder
  <2>6. Fits(r, m.length)
    BY <2>2, <2>3 DEF Fits, NewBuilder
  <2>7. builder'.sequence_number = cursor /\ builder'.message_count = 1
    <3>1. builder'.sequence_number = cursor
      BY <2>1, <2>2, <2>3, <2>4, TryAppendKeeps
    <3>2. builder'.message_count = 1
      BY <2>1, <2>3, <2>6 DEF TryAppend, Written, IsBuilder, Builders
    <3> QED
      BY <3>1, <3>2
  <2>8. \E a : Packed(builder', Append(<<>>, m), a)
    <3> HIDE DEF r, m
    <3> QED
      BY <2>1, <2>2, <2>3, <2>6, OneMoreIsPacked
  <2>9. \E at2 : Packed(builder', SubSeq(file', builder'.sequence_number, cursor' - 1), at2)
    <3>1. cursor' - 1 = cursor
      BY <1>1, <2>1
    <3>2. SubSeq(file, cursor, cursor) = Append(<<>>, m)
      <4>1. cursor \in 1 .. cursor /\ cursor \in 1 .. Len(file)
        BY <1>1, <2>1
      <4>2. Append(SubSeq(file, cursor, cursor - 1), m) = SubSeq(file, cursor, cursor)
        BY <1>1, <4>1, SubSeqGrows
      <4>3. SubSeq(file, cursor, cursor - 1) = <<>>
        BY <1>1, <4>1
      <4> QED
        BY <4>2, <4>3
    <3> QED
      BY <2>1, <2>7, <2>8, <3>1, <3>2
  <2>10. \A k \in 1 .. moldudp64_msg_count' : CarriesTheFile(sent[k])'
    BY <1>4, <2>1, <2>5
  <2>11. repeats' = 0 /\ msg_count' = cursor' - 1
    BY <1>0, <1>1, <2>1 DEF PacketsInv
  <2> QED
    BY <1>1, <1>2, <2>1, <2>7, <2>9, <2>10, <2>11 DEF PositionInv
<1>7. CASE FlushLastPacket
  <2>1. /\ phase = "packing" /\ phase' = "closing" /\ cursor > Len(file)
        /\ builder.message_count > 0
        /\ Send(Finalize(builder)) /\ moldudp64_msg_count' = moldudp64_msg_count + 1
        /\ UNCHANGED <<file, cursor, builder, msg_count, repeats>>
    BY <1>1, <1>7 DEF FlushLastPacket, Empty
  <2>2. \A k \in 1 .. moldudp64_msg_count' : CarriesTheFile(sent[k])'
    BY <1>4, <2>1
  <2>3. repeats' = 0 /\ builder.sequence_number + builder.message_count = cursor
    BY <1>0, <2>1 DEF PacketsInv, PositionInv
  <2> QED
    BY <1>1, <1>2, <2>1, <2>2, <2>3 DEF PositionInv
<1>8. CASE NothingToFlush
  <2>1. /\ phase = "packing" /\ phase' = "closing" /\ cursor > Len(file)
        /\ UNCHANGED <<file, cursor, builder, msg_count, repeats, sent, moldudp64_msg_count>>
    BY <1>8 DEF NothingToFlush
  <2>2. \A k \in 1 .. moldudp64_msg_count' : CarriesTheFile(sent[k])'
    BY <1>3, <2>1
  <2>3. repeats' = 0 /\ builder.sequence_number + builder.message_count = cursor
    BY <1>0, <2>1 DEF PacketsInv, PositionInv
  <2> QED
    BY <1>1, <1>2, <2>1, <2>2, <2>3 DEF PositionInv
<1>9. CASE EndSession
  <2>1. /\ phase = "closing" /\ phase' = "repeating"
        /\ builder'.sequence_number = builder.sequence_number + builder.message_count
        /\ UNCHANGED <<file, cursor, msg_count, repeats, sent, moldudp64_msg_count>>
    BY <1>1, <1>9, ResetKeeps DEF EndSession, EndOfSessionBuilder
  <2>2. \A k \in 1 .. moldudp64_msg_count' : CarriesTheFile(sent[k])'
    BY <1>3, <2>1
  <2>3. builder'.sequence_number = Len(file) + 1 /\ cursor = Len(file) + 1
    BY <2>1 DEF PositionInv
  <2> QED
    BY <1>1, <1>2, <2>1, <2>2, <2>3 DEF PositionInv
<1>10. CASE SendEndOfSession
  <2>1. /\ phase = "repeating" /\ phase' = "repeating"
        /\ Send(PacketOf(builder, EndOfSessionCount))
        /\ UNCHANGED <<file, cursor, builder, msg_count, moldudp64_msg_count>>
    BY <1>10 DEF SendEndOfSession
  <2>2. \A k \in 1 .. Len(sent) : sent'[k] = sent[k]
    BY <1>1, <2>1, Appended, PacketOfIsOne, Sizes DEF Send
  <2>3. \A k \in 1 .. moldudp64_msg_count' : CarriesTheFile(sent[k])'
    BY <1>3, <2>1, <2>2
  <2> QED
    BY <1>1, <1>2, <2>1, <2>3 DEF PositionInv
<1>11. CASE Finish \/ SendFails \/ UNCHANGED vars
  <2>1. /\ UNCHANGED <<file, cursor, builder, msg_count, repeats, sent, moldudp64_msg_count>>
        /\ \/ phase' = phase
           \/ phase' = "ok" /\ phase = "repeating"
           \/ phase' = "error"
    BY <1>11 DEF Finish, SendFails, vars
  <2>2. \A k \in 1 .. moldudp64_msg_count' : CarriesTheFile(sent[k])'
    BY <1>3, <2>1
  <2> QED
    BY <1>1, <1>2, <2>1, <2>2 DEF PositionInv
<1> QED
  BY <1>5, <1>6, <1>7, <1>8, <1>9, <1>10, <1>11 DEF Next, Terminated

===============================================================================
