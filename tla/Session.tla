-------------------------------- MODULE Session --------------------------------
(***************************************************************************)
(* An online session end to end: the sender (Sender) packs a file and sends *)
(* it, a network loses, duplicates and delays its packets, and the parse    *)
(* loop of the receiver (src/receiver/receiver.cc, RunReceiver) builds a    *)
(* book (LimitOrderBook) from what arrives. Beside it, the offline replay   *)
(* of the same file (src/offline/offline_lob.cc, RunOffline), which is what *)
(* a session is compared with.                                              *)
(*                                                                          *)
(* A step of the receiver is a packet. Socket buffer, RX thread and ring    *)
(* keep packets in order and lose none they took (Receiver,                 *)
(* EveryPacketInItsPlace), so they are part of the way a packet is on;      *)
(* a datagram the kernel drops is one the network loses.                    *)
(***************************************************************************)
EXTENDS Sender

CONSTANTS
    \* lob.* settings, the same for both programs although their defaults differ:
    OrderCapacity, LevelCapacity, MaxLocates, MaxOrderRef,
    VolumeModulus, FeedRefs, FeedLocates, Sides, Prices, Shares, Stocks,
    Feed,               \* the ITCH messages a file may hold
    LengthOf,           \* the length of a message, by type
    WarmupMessages,     \* --warmup_messages, of both programs
    MaxFaults           \* bound: packets lost, delivered once more or overtaken

ASSUME NetworkAssumption ==
    /\ MaxFaults \in Nat /\ WarmupMessages \in Nat
    /\ \A msg \in Feed : LengthOf[msg.type] \in Lengths

\* An ITCH message is 50 bytes at most: it fits a packet of its own.
ASSUME FeedAssumption == \A msg \in Feed : Fits(NewBuilder(1), LengthOf[msg.type])

VARIABLES
    content,            \* what the messages of the file say
    network,            \* packets on their way, next one first: indices into sent
    lost, duplicated, delayed,      \* history: what the network did to which packets
    run,                \* the parse loop's book and counts
    receiver            \* where the parse loop is

senderVars == vars
faults == <<lost, duplicated, delayed>>
sessionVars == <<senderVars, content, network, faults, run, receiver>>

Book == INSTANCE LimitOrderBook WITH book <- run.book

----
(* The message loop, the same in receiver and replay                        *)

\* The ITCH messages, with the fields the book reads.
SystemEventMsg == [type |-> "S"]
StockDirectoryMsg(stock, locate) == [type |-> "R", stock |-> stock, locate |-> locate]
\* "A", or "F" with the participant's name.
AddOrderMsg(type, locate, ref, side, shares, price) ==
    [type |-> type, locate |-> locate, ref |-> ref, side |-> side, shares |-> shares,
     price |-> price]
\* "E", "C" or "X".
ReductionMsg(type, ref, shares) == [type |-> type, ref |-> ref, shares |-> shares]
OrderDeleteMsg(ref) == [type |-> "D", ref |-> ref]
OrderReplaceMsg(locate, old, ref, shares, price) ==
    [type |-> "U", locate |-> locate, old |-> old, ref |-> ref, shares |-> shares,
     price |-> price]

\* The switch on the type. A system event is printed, every other type ignored.
ParseMessage(b, msg) ==
    CASE msg.type = "R" -> Book!MapStockStr(b, msg.stock, msg.locate)
      [] msg.type \in {"A", "F"} ->
            Book!AddOrder(b, msg.locate, msg.ref, msg.side, msg.shares, msg.price)
      [] msg.type \in {"E", "C", "X"} -> Book!ReduceOrderSize(b, msg.ref, msg.shares)
      [] msg.type = "D" -> Book!DeleteOrder(b, msg.ref)
      [] msg.type = "U" ->
            Book!ReplaceOrder(b, msg.locate, msg.old, msg.ref, msg.shares, msg.price)
      [] OTHER -> b

NewRun == [book |-> Book!NewBook, messages |-> 0, recorded |-> 0, packets |-> 0]

\* An index outside a table, which the code does not check, ends the model's run as an
\* exception ends the code's.
Running(r) == r.book.status = "running"

\* A message the book throws on is neither recorded nor counted, and is the last.
Pass(r, msg, warmed_up) ==
    LET b == ParseMessage(r.book, msg)
    IN  IF ~Running(r) THEN r
        ELSE IF b.status # "running" THEN [r EXCEPT !.book = b]
        ELSE [r EXCEPT !.book = b,
                       !.messages = @ + 1,
                       !.recorded = IF warmed_up THEN @ + 1 ELSE @]

\* Deviation: the message itself is counted first.
WarmedUpAfterCounting(r) == r.messages + 1 > WarmupMessages
WarmedUp(r) == r.messages > WarmupMessages

ParseNext(r, msg) == Pass(r, msg, WarmedUp(r))
ReplayNext(r, msg) == Pass(r, msg, r.messages > WarmupMessages)

\* RunOffline's loop.
Replayed(messages) == FoldLeft(ReplayNext, NewRun, messages)

----
(* The session                                                              *)

\* limit_order_book.h asks of the feed that a locate is announced before an order uses it;
\* an order reference is added once.
Announced(messages, k) ==
    messages[k].type \in {"A", "F", "U"} =>
        \/ messages[k].locate < MaxLocates
        \/ \E j \in 1 .. k - 1 : messages[j].type = "R" /\ messages[j].locate = messages[k].locate
Introduces(msg, ref) == msg.type \in {"A", "F", "U"} /\ msg.ref = ref
LegalFeed(messages) ==
    /\ \A k \in DOMAIN messages : Announced(messages, k)
    /\ \A ref \in FeedRefs : Cardinality({k \in DOMAIN messages : Introduces(messages[k], ref)}) <= 1

SessionInit ==
    /\ content \in {messages \in SeqOf(Feed, MaxMessages) : LegalFeed(messages)}
    /\ file = [k \in DOMAIN content |-> Message(k, LengthOf[content[k].type])]
    /\ Init
    /\ network = <<>>
    /\ lost = <<>> /\ duplicated = <<>> /\ delayed = <<>>
    /\ run = NewRun
    /\ receiver = "listening"

MayFail == network # <<>> /\ Len(lost \o duplicated \o delayed) < MaxFaults

\* What the sender sends is on its way.
SenderMoves ==
    /\ Next
    /\ network' = network \o [k \in 1 .. Len(sent') - Len(sent) |-> Len(sent) + k]
    /\ UNCHANGED <<content, faults, run, receiver>>

Lose ==
    /\ MayFail
    /\ lost' = Append(lost, Head(network))
    /\ network' = Tail(network)
    /\ UNCHANGED <<senderVars, content, duplicated, delayed, run, receiver>>

Duplicate ==
    /\ MayFail
    /\ duplicated' = Append(duplicated, Head(network))
    /\ network' = <<Head(network)>> \o network
    /\ UNCHANGED <<senderVars, content, lost, delayed, run, receiver>>

\* The packets behind it overtake, some or all of them.
Delay ==
    /\ MayFail
    /\ delayed' = Append(delayed, Head(network))
    /\ \E k \in 2 .. Len(network) : network' = InsertAt(Tail(network), k, Head(network))
    /\ UNCHANGED <<senderVars, content, lost, duplicated, run, receiver>>

Listening == receiver = "listening" /\ network # <<>>
Packet == sent[Head(network)]

ParseEndOfSession ==
    /\ Listening
    /\ IsEndOfSession(Packet)
    /\ network' = Tail(network)
    /\ receiver' = "ended"
    /\ UNCHANGED <<senderVars, content, faults, run>>

\* A packet whose messages make the book throw is not counted.
ParsePacket ==
    /\ Listening
    /\ ~IsEndOfSession(Packet)
    /\ LET messages == [k \in DOMAIN View(Packet) |-> content[View(Packet)[k].id]]
           r == FoldLeft(ParseNext, run, messages)
       IN  IF Running(r)
           THEN run' = [r EXCEPT !.packets = @ + 1] /\ UNCHANGED receiver
           ELSE run' = r /\ receiver' = "aborted"
    /\ network' = Tail(network)
    /\ UNCHANGED <<senderVars, content, faults>>

SessionNext == SenderMoves \/ Lose \/ Duplicate \/ Delay \/ ParseEndOfSession \/ ParsePacket

SessionSpec == SessionInit /\ [][SessionNext]_sessionVars

----
(* Properties                                                               *)

\* With equal lob.* settings (the default order pools hold 2,500,000 in the receiver and
\* 2,000,000 in the replay, so that by default only the replay may throw on a large file), a
\* session on which the network did nothing builds the book the replay of the same file
\* builds, in every slot and link, with the same counts of messages parsed and recorded, and
\* fails at the same message if that fails: whatever the packet boundaries, the figures of
\* the two programs are of the same work.
OnlineBookIsTheReplayedBook ==
    (receiver # "listening" /\ lost \o duplicated \o delayed = <<>>) =>
        [run EXCEPT !.packets = 0] = Replayed(content)

DataIn(packets) == {k \in packets : ~IsEndOfSession(sent[k])}
\* A message is a packet and a place in it.
MessagesIn(packets) == UNION {{k} \X (1 .. BlockCount(sent[k])) : k \in packets}

\* report.py takes sent minus received, of packets and of messages, for what was dropped
\* ("the receiver's drop rate is (sent - received) / sent", sender.cc). Without duplicates it
\* is: what the network lost, and what the end of the session overtook.
DropRatesAreTheNetworks ==
    (receiver = "ended" /\ phase = "ok" /\ duplicated = <<>>) =>
        LET missed == Range(lost \o network)
        IN  /\ moldudp64_msg_count - run.packets = Cardinality(DataIn(missed))
            /\ msg_count - run.messages = Cardinality(MessagesIn(missed))

\* The receiver does not look at sequence numbers. Lost, repeated and overtaken packets make
\* its book another one than the feed's, yet a sound one: lists and volumes agree, and each
\* live order is one the file introduced, at its locate, price and side, with no more shares.
OrdersAreTheFeeds ==
    /\ Book!ListsWellFormed
    /\ Book!VolumeIsSumOfShares
    /\ \A ref \in DOMAIN Book!LiveOrders : \E k \in DOMAIN content :
          LET order == Book!LiveOrders[ref]
              msg == content[k]
          IN  /\ Introduces(msg, ref)
              /\ <<order.locate, order.price>> = <<msg.locate, msg.price>>
              /\ msg.type # "U" => order.side = msg.side
              /\ order.shares <= msg.shares

\* The closing packet is repeated because any one of them may be lost, and the receiver has
\* no timeout: while the network loses fewer packets than are repeated, one closing packet is
\* still on its way when the sender is done and the receiver is not, whatever overtook what.
AnEndIsOnItsWay ==
    (phase = "ok" /\ receiver = "listening" /\ Len(lost) < EndOfSessionRepeats) =>
        \E k \in DOMAIN network : IsEndOfSession(sent[network[k]])
===============================================================================
