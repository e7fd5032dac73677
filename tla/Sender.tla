-------------------------------- MODULE Sender --------------------------------
(***************************************************************************)
(* The sender (src/sender/sender.cc, RunSender): it packs the messages of   *)
(* an ITCH file into MoldUDP64 packets, sends them in order, and closes the *)
(* session with a number of identical end-of-session packets. One thread;   *)
(* a step is one pass of a loop. sendto may fail at any call.               *)
(***************************************************************************)
EXTENDS MoldUDP64, FiniteSets, SequencesExt

CONSTANTS
    Lengths,                \* message lengths the input file may hold
    MaxMessages,            \* bound on the messages in the file
    EndOfSessionRepeats     \* --end_of_session_repeats

\* Any length: that one is below k_max_packet_size is asserted of each message in a debug
\* build only, and what the release build makes of a longer one is what it makes of any that
\* fits no packet.
ASSUME LengthAssumption == Lengths \subseteq Nat

ASSUME RepeatAssumption == EndOfSessionRepeats \in Nat /\ MaxMessages \in Nat

VARIABLES
    file,                   \* the messages of the input, in order
    cursor,                 \* the next message to read
    builder,
    msg_count,
    moldudp64_msg_count,
    repeats,                \* end-of-session packets sent
    sent,                   \* history: packets handed to sendto, in order
    phase                   \* where RunSender is

vars == <<file, cursor, builder, msg_count, moldudp64_msg_count, repeats, sent, phase>>

Init ==
    /\ \E n \in 0 .. MaxMessages : \E lengths \in [1 .. n -> Lengths] :
          file = [k \in 1 .. n |-> Message(k, lengths[k])]
    /\ cursor = 1
    /\ builder = NewBuilder(1)
    /\ msg_count = 0
    /\ moldudp64_msg_count = 0
    /\ repeats = 0
    /\ sent = <<>>
    /\ phase = "packing"

----
Send(packet) == sent' = Append(sent, packet)

Consume ==
    /\ msg_count' = msg_count + 1
    /\ cursor' = cursor + 1

PackMessage ==
    /\ phase = "packing"
    /\ cursor <= Len(file)
    /\ Fits(builder, file[cursor].length)
    /\ builder' = TryAppend(builder, file[cursor])
    /\ Consume
    /\ UNCHANGED <<file, moldudp64_msg_count, repeats, sent, phase>>

\* Deviation: the message that did not fit is forgotten.
DropTheMessageThatDidNotFit(msg) == Reset(builder)
Retry(msg) == TryAppend(Reset(builder), msg)

\* The packet is full: send it, start the next one with the message that did not fit. The
\* second TryAppend's answer is not looked at: a message that fits no packet is
\* gone, and the packet it pushed out may be an empty one.
SendFullPacket ==
    /\ phase = "packing"
    /\ cursor <= Len(file)
    /\ ~Fits(builder, file[cursor].length)
    /\ Send(Finalize(builder))
    /\ builder' = Retry(file[cursor])
    /\ moldudp64_msg_count' = moldudp64_msg_count + 1
    /\ Consume
    /\ UNCHANGED <<file, repeats, phase>>

\* After the loop, what is pending goes out. The builder is not reset: FinalizeEndOfSession
\* does that.
FlushLastPacket ==
    /\ phase = "packing"
    /\ cursor > Len(file)
    /\ ~Empty(builder)
    /\ Send(Finalize(builder))
    /\ moldudp64_msg_count' = moldudp64_msg_count + 1
    /\ phase' = "closing"
    /\ UNCHANGED <<file, cursor, builder, msg_count, repeats>>

NothingToFlush ==
    /\ phase = "packing"
    /\ cursor > Len(file)
    /\ Empty(builder)
    /\ phase' = "closing"
    /\ UNCHANGED <<file, cursor, builder, msg_count, moldudp64_msg_count, repeats, sent>>

\* FinalizeEndOfSession, once; its buffer is then sent unchanged, repeat after repeat.
EndSession ==
    /\ phase = "closing"
    /\ builder' = EndOfSessionBuilder(builder)
    /\ phase' = "repeating"
    /\ UNCHANGED <<file, cursor, msg_count, moldudp64_msg_count, repeats, sent>>

\* Deviation: the loop stops one packet short.
OneRepeatLeft == repeats + 1 < EndOfSessionRepeats
RepeatsLeft == repeats < EndOfSessionRepeats

SendEndOfSession ==
    /\ phase = "repeating"
    /\ RepeatsLeft
    /\ Send(PacketOf(builder, EndOfSessionCount))
    /\ repeats' = repeats + 1
    /\ UNCHANGED <<file, cursor, builder, msg_count, moldudp64_msg_count, phase>>

Finish ==
    /\ phase = "repeating"
    /\ ~RepeatsLeft
    /\ phase' = "ok"
    /\ UNCHANGED <<file, cursor, builder, msg_count, moldudp64_msg_count, repeats, sent>>

\* sendto reports an error, at whichever packet was next: RunSender returns at once.
SendFails ==
    /\ \/ /\ phase = "packing"
          /\ IF cursor <= Len(file) THEN ~Fits(builder, file[cursor].length)
             ELSE ~Empty(builder)
       \/ phase = "repeating" /\ RepeatsLeft
    /\ phase' = "error"
    /\ UNCHANGED <<file, cursor, builder, msg_count, moldudp64_msg_count, repeats, sent>>

Terminated ==
    /\ phase \in {"ok", "error"}
    /\ UNCHANGED vars

Next ==
    \/ PackMessage
    \/ SendFullPacket
    \/ FlushLastPacket
    \/ NothingToFlush
    \/ EndSession
    \/ SendEndOfSession
    \/ Finish
    \/ SendFails
    \/ Terminated

\* The sender never waits for anyone.
Spec == Init /\ [][Next]_vars /\ WF_vars(Next)

----
DataPackets == SubSeq(sent, 1, moldudp64_msg_count)
Framed(packets) == FlattenSeq([k \in DOMAIN packets |-> View(packets[k])])
Pending == View(Finalize(builder))

\* The messages that fit a packet of their own.
Sendable(messages) ==
    FlattenSeq([k \in DOMAIN messages |->
        IF Fits(NewBuilder(1), messages[k].length) THEN <<messages[k]>> ELSE <<>>])

\* The next sequence number after the first k packets.
SequenceAfter(k) == IF k = 0 THEN 1 ELSE sent[k].sequence_number + BlockCount(sent[k])

\* What the receiver's view reads out of the packets sent, and of the one being built, is
\* the file so far: the same messages, in order, each once, whatever the packet boundaries
\* and whatever an earlier packet left in the buffer. A message too long for any packet is
\* left out, and takes no neighbour with it.
ViewReadsTheFileBack ==
    phase = "packing" =>
        Framed(DataPackets) \o Pending = Sendable(SubSeq(file, 1, cursor - 1))

\* Sequence continuity: a receiver that counts messages finds no gap and no overlap from
\* the first packet to the last end-of-session packet, which carries the number past the
\* last message.
SequencesAreContiguous ==
    \A k \in DOMAIN sent : sent[k].sequence_number = SequenceAfter(k - 1)

\* Only a closing packet reads as the end of the session, and no packet overruns its
\* buffer, however many empty messages it holds. "On repeat calls ... the packet stays
\* byte-identical": a receiver may act on any of the closing packets, since all are the same
\* bare header.
OnlyTheEndReadsAsTheEnd ==
    \A k \in DOMAIN sent :
        /\ IsEndOfSession(sent[k]) <=> k > moldudp64_msg_count
        /\ sent[k].size \in HeaderSize .. MaxPacketSize
        /\ IsEndOfSession(sent[k]) =>
              sent[k] = FinalizeEndOfSession(builder) /\ sent[k].size = HeaderSize

\* The sender comes to an end, and unless a sendto failed all of the file that fits packets
\* was sent. The packets it reports are the ones on the wire; the messages it reports are
\* those of the file, the ones that fitted no packet included.
EndsWithTheFileSent ==
    <>(\/ phase = "error"
       \/ /\ phase = "ok"
          /\ Framed(DataPackets) = Sendable(file)
          /\ msg_count = Len(file)
          /\ moldudp64_msg_count = Cardinality({k \in DOMAIN sent : ~IsEndOfSession(sent[k])}))

===============================================================================
