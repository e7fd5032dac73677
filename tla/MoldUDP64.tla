------------------------------ MODULE MoldUDP64 ------------------------------
(***************************************************************************)
(* The MoldUDP64 framing shared by sender and receiver                      *)
(* (include/shared/mold_udp_64.h, src/shared/mold_udp_64.cc): a builder     *)
(* that packs length-prefixed messages behind a header, and the view that   *)
(* walks a received packet. Both are operators, the builder's from a        *)
(* builder to a builder.                                                    *)
(*                                                                          *)
(* A buffer cell is one byte. The cell where a message's length prefix      *)
(* starts holds the message, the cells after it hold Payload, and a cell    *)
(* never written holds Unset; what an earlier packet left behind stays. So  *)
(* the view finds a message only where the builder put one.                 *)
(***************************************************************************)
EXTENDS Integers, Sequences

CONSTANTS
    MaxPacketSize,      \* k_max_packet_size
    HeaderSize,         \* sizeof(MoldUDP64Header)
    PrefixSize,         \* sizeof(uint16_t), the length prefix
    EndOfSessionCount   \* k_end_of_session_count, the largest message_count

\* 1472, 20, 2 and 0xFFFF: as many empty messages as a packet holds stay below the sentinel.
ASSUME SizeAssumption ==
    /\ MaxPacketSize \in Nat /\ HeaderSize \in Nat
    /\ PrefixSize \in Nat \ {0}
    /\ EndOfSessionCount \in Nat
    /\ HeaderSize <= MaxPacketSize
    /\ MaxPacketSize - HeaderSize < PrefixSize * EndOfSessionCount

Message(k, length) == [id |-> k, length |-> length]
Payload == Message(-1, 0)
Unset == Message(-2, 0)

\* The constructor: the write index starts behind the header.
NewBuilder(first_sequence) ==
    [buffer |-> [offset \in 0 .. MaxPacketSize - 1 |-> Unset],
     write_index |-> HeaderSize,
     sequence_number |-> first_sequence,
     message_count |-> 0]

Fits(builder, length) ==
    builder.write_index + PrefixSize + length <= MaxPacketSize

\* What TryAppend writes: the prefix, then the payload, at the write index.
Written(builder, msg) ==
    LET first == builder.write_index
        last == first + PrefixSize + msg.length - 1
    IN  [builder EXCEPT
            !.buffer = [offset \in DOMAIN @ |->
                            IF offset = first THEN msg
                            ELSE IF offset \in first + 1 .. last THEN Payload
                            ELSE @[offset]],
            !.write_index = last + 1,
            !.message_count = @ + 1]

\* A message that does not fit leaves the builder alone; the caller learns it from Fits.
TryAppend(builder, msg) ==
    IF Fits(builder, msg.length) THEN Written(builder, msg) ELSE builder

\* Deviation: off by one.
EmptyBelowTwo(builder) == builder.message_count < 2
Empty(builder) == builder.message_count = 0

\* Deviation: the next packet starts at the same number.
ResetKeepingSequence(builder) ==
    [builder EXCEPT !.message_count = 0, !.write_index = HeaderSize]
Reset(builder) ==
    [builder EXCEPT !.sequence_number = @ + builder.message_count,
                    !.message_count = 0,
                    !.write_index = HeaderSize]

\* The size() bytes of the buffer, with the header stamped: what goes on the wire.
PacketOf(builder, count) ==
    [sequence_number |-> builder.sequence_number,
     message_count |-> count,
     size |-> builder.write_index,
     cells |-> [offset \in HeaderSize .. builder.write_index - 1 |-> builder.buffer[offset]]]

Finalize(builder) == PacketOf(builder, builder.message_count)

\* Deviation: the last packet's blocks stay in the closing packet.
EndOfSessionBuilderUnreset(builder) == builder
\* FinalizeEndOfSession resets first, so the sequence number is the one past the last
\* block and the packet is the bare header; called again it changes nothing.
EndOfSessionBuilder(builder) == Reset(builder)
FinalizeEndOfSession(builder) == PacketOf(EndOfSessionBuilder(builder), EndOfSessionCount)

----
\* MoldUDP64View.

IsHeartbeat(packet) == packet.message_count = 0
IsEndOfSession(packet) == packet.message_count = EndOfSessionCount

\* begin() to end(): the sentinel is not a block count.
BlockCount(packet) == IF IsEndOfSession(packet) THEN 0 ELSE packet.message_count

NoMessage == Message(0, 0)

\* Whether the length prefix the iterator reads at this offset is inside the packet and
\* is one the builder wrote.
IsBlockAt(packet, offset) ==
    offset \in DOMAIN packet.cells /\ packet.cells[offset].id > 0

\* The messages the iterator yields. It never checks the packet's length, so a walk that
\* leaves the blocks reads bytes that are not a prefix, NoMessage here.
View(packet) ==
    LET MessageAt(offset) ==
            IF IsBlockAt(packet, offset) THEN packet.cells[offset] ELSE NoMessage
        cursor[k \in 1 .. BlockCount(packet) + 1] ==
            IF k = 1 THEN HeaderSize
            ELSE cursor[k - 1] + PrefixSize + MessageAt(cursor[k - 1]).length
    IN  [k \in 1 .. BlockCount(packet) |-> MessageAt(cursor[k])]
===============================================================================
