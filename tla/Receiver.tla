------------------------------- MODULE Receiver -------------------------------
(***************************************************************************)
(* The receiver program (src/receiver/receiver.cc) from the moment both     *)
(* threads run: the RX thread (ReceiveLoop) moves datagrams from the socket *)
(* into the ring, the main thread (the loop in RunReceiver) parses them in  *)
(* place, and the two stop each other through `done`.                       *)
(*                                                                          *)
(* A step is one call on the ring, one load or store of `done`, one         *)
(* datagram taken by recvmmsg, or one message parsed. Whether ParseMessage  *)
(* throws depends on the book (LimitOrderBook), so here it may at any       *)
(* message. The network delivers any packet at any time: duplicates,        *)
(* reorderings and losses are all traffic the receiver may see.             *)
(***************************************************************************)
EXTENDS SPSCRing

CONSTANTS
    Runts,              \* packets shorter than a MoldUDP64 header
    EndOfSession,       \* packets whose message count is the sentinel
    MessageCount,       \* messages framed in each other packet, 0 in a heartbeat
    RecvBatch,          \* --recv_batch
    SocketCapacity,     \* datagrams SO_RCVBUF holds
    MaxArrivals         \* bound on the datagrams that reach the socket

\* RunReceiver refuses any other batch size before it opens a socket.
ASSUME RecvBatchAssumption == RecvBatch \in 1 .. Capacity

ASSUME PacketAssumption ==
    /\ Runts \subseteq Items
    /\ EndOfSession \subseteq Items
    /\ MessageCount \in [Items -> Nat]

ASSUME TrafficAssumption == SocketCapacity \in Nat /\ MaxArrivals \in Nat

VARIABLES
    socket,             \* datagrams queued in the socket buffer
    arrivals,           \* datagrams that reached it so far
    closed,             \* close(udp_fd) has run
    done,               \* the flag the two threads share
    rx,                 \* where the RX thread is
    batch,              \* `count`, datagrams the last recvmmsg returned
    stalled,            \* the RX thread's local
    stats,              \* ReceiveStats, without the clock
    main,               \* where the main thread is
    remaining,          \* messages of the current packet still to parse
    message_count,
    moldudp64_message_count,
    parse_error,        \* an exception left the parse loop
    clock,              \* the order in which start_time and end_time were stamped
    rx_failed,          \* history: recvmmsg reported an error
    taken,              \* history: packets taken off the socket, in order
    handled             \* history: packets the parse loop released, in order

netVars == <<socket, arrivals>>
rxLocals == <<batch, stalled, stats, rx_failed>>
rxVars == <<rx, rxLocals>>
packetVars == <<remaining, message_count, moldudp64_message_count, parse_error>>
mainVars == <<main, packetVars, closed>>
history == <<taken, handled>>
vars == <<ringVars, netVars, rxVars, mainVars, done, clock, history>>

Init ==
    /\ RingInit
    /\ socket = <<>>
    /\ arrivals = 0
    /\ closed = FALSE
    /\ done = FALSE
    /\ rx = "check"
    /\ batch = 0
    /\ stalled = FALSE
    /\ stats = [packets |-> 0, ring_full_stalls |-> 0, max_depth |-> 0]
    /\ main = "peek"
    /\ remaining = 0
    /\ message_count = 0
    /\ moldudp64_message_count = 0
    /\ parse_error = FALSE
    /\ clock = <<>>
    /\ rx_failed = FALSE
    /\ taken = <<>>
    /\ handled = <<>>

----
\* The kernel and the network.

\* A datagram that finds the socket buffer full is dropped without a trace, so only the
\* ones that find room are steps.
Arrive(packet) ==
    /\ ~closed
    /\ arrivals < MaxArrivals
    /\ Len(socket) < SocketCapacity
    /\ socket' = Append(socket, packet)
    /\ arrivals' = arrivals + 1
    /\ UNCHANGED <<ringVars, rxVars, mainVars, done, clock, history>>

----
\* The RX thread: ReceiveLoop.

RxCheckDone ==
    /\ rx = "check"
    /\ rx' = IF done THEN "exiting" ELSE "claim"
    /\ UNCHANGED <<ringVars, netVars, rxLocals, mainVars, done, clock, history>>

\* Deviation: every failed claim of an episode counts.
CountEveryRetry == stalled' = FALSE
\* One stall is one episode: it is counted when the ring is first found full.
RememberStall == stalled' = TRUE

\* A full ring sends the thread back to the loop condition; the datagrams stay in the
\* socket buffer.
RxClaim ==
    /\ rx = "claim"
    /\ ClaimContiguous(RecvBatch)
    /\ \/ /\ claimed' = 0
          /\ RememberStall
          /\ stats' = IF stalled THEN stats
                      ELSE [stats EXCEPT !.ring_full_stalls = @ + 1]
          /\ rx' = "check"
       \/ /\ claimed' > 0
          /\ stalled' = FALSE
          /\ rx' = "receive"
          /\ UNCHANGED stats
    /\ UNCHANGED <<netVars, batch, rx_failed, mainVars, done, clock, history>>

\* recvmmsg fills the next header's slot; rx_tsc and length are stamped with it.
RxTakeDatagram ==
    /\ rx = "receive"
    /\ socket # <<>>
    /\ WriteSlot(Head(socket))
    /\ socket' = Tail(socket)
    /\ taken' = Append(taken, Head(socket))
    /\ UNCHANGED <<arrivals, rxVars, mainVars, done, clock, handled>>

\* Deviation: a poll that was interrupted, or found nothing, ends the loop.
RxGivesUpOnNothing ==
    /\ rx = "receive"
    /\ filled = 0
    /\ rx' = "exiting"
    /\ UNCHANGED <<ringVars, netVars, rxLocals, mainVars, done, clock, history>>
\* recvmmsg returns nothing: EAGAIN, EWOULDBLOCK or EINTR. The claim is made afresh.
RxReceiveNothing ==
    /\ rx = "receive"
    /\ filled = 0
    /\ rx' = "check"
    /\ UNCHANGED <<ringVars, netVars, rxLocals, mainVars, done, clock, history>>

\* Any other error ends the loop. It goes to stderr and nowhere else.
RxReceiveFails ==
    /\ rx = "receive"
    /\ filled = 0
    /\ rx_failed' = TRUE
    /\ rx' = "exiting"
    /\ UNCHANGED <<ringVars, netVars, batch, stalled, stats, mainVars, done, clock, history>>

\* Deviation: a short batch publishes slots that were not filled.
CommitTheClaim == CommitBatch(claimed)
CommitTheBatch == CommitBatch(filled)

\* recvmmsg returns `count` datagrams, the whole run or a short batch, and exactly those
\* slots are published.
RxCommitBatch ==
    /\ rx = "receive"
    /\ filled > 0
    /\ batch' = filled
    /\ CommitTheBatch
    /\ rx' = "account"
    /\ UNCHANGED <<netVars, stalled, stats, rx_failed, mainVars, done, clock, history>>

\* start_time is stamped on the first batch, after it was published.
RxAccount ==
    /\ rx = "account"
    /\ clock' = IF stats.packets = 0 THEN Append(clock, "start_time") ELSE clock
    /\ stats' = [stats EXCEPT !.packets = @ + batch]
    /\ rx' = "sample"
    /\ UNCHANGED <<ringVars, netVars, batch, stalled, rx_failed, mainVars, done, history>>

SampleDepth(h) == DepthFromProducer(h)

RxSampleDepth ==
    /\ rx = "sample"
    /\ \E h \in seen_head .. head :
        /\ DepthByProducer(h)
        /\ stats' = [stats EXCEPT !.max_depth = Max({@, SampleDepth(h)})]
    /\ rx' = "check"
    /\ UNCHANGED <<netVars, batch, stalled, rx_failed, mainVars, done, clock, history>>

\* Deviation: a thread that stops tells nobody.
ExitSilently == UNCHANGED done
\* The store that unblocks the consumer if the loop ended on a socket error.
RaiseDone == done' = TRUE

RxExit ==
    /\ rx = "exiting"
    /\ RaiseDone
    /\ rx' = "exited"
    /\ UNCHANGED <<ringVars, netVars, rxLocals, mainVars, clock, history>>

ReceiveLoop ==
    \/ RxCheckDone
    \/ RxClaim
    \/ RxTakeDatagram
    \/ RxReceiveNothing
    \/ RxReceiveFails
    \/ RxCommitBatch
    \/ RxAccount
    \/ RxSampleDepth
    \/ RxExit

----
\* The main thread: the parse loop of RunReceiver and what follows it.

Slot == buffer[Index(head)]

ParsePeek ==
    /\ main = "peek"
    /\ PeekRead
    /\ main' = IF peeked' = 1 THEN "frame" ELSE "empty"
    /\ UNCHANGED <<netVars, rxVars, packetVars, closed, done, clock, history>>

\* No slot: leave if the RX thread has given up, or back off and poll again.
ParseCheckDone ==
    /\ main = "empty"
    /\ main' = IF done THEN "stopping" ELSE "peek"
    /\ clock' = IF done THEN Append(clock, "end_time") ELSE clock
    /\ UNCHANGED <<ringVars, netVars, rxVars, packetVars, closed, done, history>>

ReleaseSlot ==
    /\ CommitRead
    /\ handled' = Append(handled, Slot)

\* Too short to frame: released unparsed, and not counted.
ParseRunt ==
    /\ main = "frame"
    /\ Slot \in Runts
    /\ ReleaseSlot
    /\ main' = "peek"
    /\ UNCHANGED <<netVars, rxVars, packetVars, closed, done, clock, taken>>

\* The loop ends with the end-of-session slot still held.
ParseEndOfSession ==
    /\ main = "frame"
    /\ Slot \notin Runts
    /\ Slot \in EndOfSession
    /\ main' = "stopping"
    /\ clock' = Append(clock, "end_time")
    /\ UNCHANGED <<ringVars, netVars, rxVars, packetVars, closed, done, history>>

ParseFrame ==
    /\ main = "frame"
    /\ Slot \notin Runts \cup EndOfSession
    /\ remaining' = MessageCount[Slot]
    /\ main' = "messages"
    /\ UNCHANGED <<ringVars, netVars, rxVars, message_count, moldudp64_message_count,
                   parse_error, closed, done, clock, history>>

ParseOneMessage ==
    /\ main = "messages"
    /\ remaining > 0
    /\ remaining' = remaining - 1
    /\ message_count' = message_count + 1
    /\ UNCHANGED <<ringVars, netVars, rxVars, main, moldudp64_message_count, parse_error,
                   closed, done, clock, history>>

\* The book cannot hold the message: the exception leaves the loop, the slot stays held.
ParseThrows ==
    /\ main = "messages"
    /\ remaining > 0
    /\ parse_error' = TRUE
    /\ main' = "stopping"
    /\ clock' = Append(clock, "end_time")
    /\ UNCHANGED <<ringVars, netVars, rxVars, remaining, message_count,
                   moldudp64_message_count, closed, done, history>>

ParseFinishPacket ==
    /\ main = "messages"
    /\ remaining = 0
    /\ moldudp64_message_count' = moldudp64_message_count + 1
    /\ ReleaseSlot
    /\ main' = "peek"
    /\ UNCHANGED <<netVars, rxVars, remaining, message_count, parse_error, closed, done,
                   clock, taken>>

StopRx ==
    /\ main = "stopping"
    /\ RaiseDone
    /\ main' = "joining"
    /\ UNCHANGED <<ringVars, netVars, rxVars, packetVars, closed, clock, history>>

\* Deviation: the descriptor is closed and the figures are read without join().
DontWaitForRx == TRUE
RxHasReturned == rx = "exited"

JoinAndClose ==
    /\ main = "joining"
    /\ RxHasReturned
    /\ closed' = TRUE
    /\ main' = "finished"
    /\ UNCHANGED <<ringVars, netVars, rxVars, remaining, message_count,
                   moldudp64_message_count, parse_error, done, clock, history>>

ParseLoop ==
    \/ ParsePeek
    \/ ParseCheckDone
    \/ ParseRunt
    \/ ParseEndOfSession
    \/ ParseFrame
    \/ ParseOneMessage
    \/ ParseThrows
    \/ ParseFinishPacket

RunReceiver ==
    \/ ParseLoop
    \/ StopRx
    \/ JoinAndClose

\* The process has reported and returned.
Terminated ==
    /\ main = "finished"
    /\ UNCHANGED vars

Next ==
    \/ \E packet \in Items : Arrive(packet)
    \/ ReceiveLoop
    \/ RunReceiver
    \/ Terminated

Spec == Init /\ [][Next]_vars

\* What RunReceiver reports of the run.
status == IF stats.packets > 0 /\ ~parse_error THEN "ok" ELSE "error"

----
\* Both threads spin on pinned CPUs of their own, so each keeps taking steps (weak
\* fairness). A thread that polls for ever does not load a stale counter for ever, and
\* the kernel does not answer EINTR for ever while datagrams wait: between two polls the
\* step is not enabled, so these three are strong. Nothing obliges the network to
\* deliver, a receive to fail or a message to throw.
PollSeesNewestTail == ParsePeek /\ (head = cached_tail => cached_tail' = tail)
ClaimSeesNewestHead == RxClaim /\ (FreeSlots(cached_head) = 0 => cached_head' = head)

Fairness ==
    /\ WF_vars(RxCheckDone)
    /\ SF_vars(ClaimSeesNewestHead)
    /\ SF_vars(RxTakeDatagram)
    /\ WF_vars(RxReceiveNothing)
    /\ WF_vars(RxCommitBatch)
    /\ WF_vars(RxAccount)
    /\ WF_vars(RxSampleDepth)
    /\ WF_vars(RxExit)
    /\ SF_vars(PollSeesNewestTail)
    /\ WF_vars(ParseCheckDone)
    /\ WF_vars(ParseRunt)
    /\ WF_vars(ParseEndOfSession)
    /\ WF_vars(ParseFrame)
    /\ WF_vars(ParseOneMessage)
    /\ WF_vars(ParseFinishPacket)
    /\ WF_vars(StopRx)
    /\ WF_vars(JoinAndClose)

FairSpec == Spec /\ Fairness

----
\* What must hold of the two threads together.

Ring == INSTANCE SPSCRingClient WITH MaxItems <- MaxArrivals

\* The two threads are a legal pair of callers of the ring: one claims, writes inside its
\* run and commits no more than it wrote, the other releases only what it peeked. What is
\* proved of SPSCRingClient then holds of the receiver.
UsesTheRingAsAllowed == Ring!Spec

\* Every datagram taken off the socket was parsed, in order and once, or is still in the
\* ring: short batches, wrap-around, runts and backpressure lose and repeat nothing.
EveryPacketInItsPlace ==
    taken = handled \o Ring!Window(head, tail - head) \o Ring!Window(tail, filled)

\* The messages framed in the first k packets released.
Framed[k \in 0 .. Len(handled)] ==
    IF k = 0 THEN 0
    ELSE Framed[k - 1] + (IF handled[k] \in Runts THEN 0 ELSE MessageCount[handled[k]])

\* "packets_received" and "moldudp64_packets" differ by the runts and by what the run left
\* in the ring, so the drop rate computed from them is the network's; "total_messages" are
\* those of the packets released, and of the one in which the book threw those before it
\* did. Once joined, the figures of the two threads add up.
ReportedCountsAddUp ==
    main = "finished" =>
        /\ stats.packets = Len(taken)
        /\ stats.packets = moldudp64_message_count
                           + Cardinality({k \in DOMAIN handled : handled[k] \in Runts})
                           + (tail - head)
        /\ message_count = Framed[Len(handled)]
                           + (IF parse_error THEN MessageCount[Slot] - remaining ELSE 0)

\* ring_full_stalls counts "the number of times the ring went from having space to being
\* full": the first fills every slot, and each later one needs another packet. A ring that
\* was found full was also observed full: the depth is sampled after the commit that filled
\* it, so max_ring_depth cannot contradict ring_full_stalls.
StallsAndDepthAgree ==
    stats.ring_full_stalls > 0 =>
        /\ stats.ring_full_stalls + Capacity - 1 <= Len(taken)
        /\ stats.max_depth = Capacity

\* A run whose receive calls never failed and whose status is ok got to the end of the
\* session, with every message up to it parsed and counted: the done flag, which the parse
\* loop also leaves on, and interrupted polls never cut one short.
OkRunsReachTheEnd ==
    main = "finished" /\ status = "ok" /\ ~rx_failed =>
        /\ head < tail /\ Slot \in EndOfSession \ Runts
        /\ message_count = Framed[Len(handled)]

----
\* What must happen.

\* An end-of-session packet that reached the socket buffer ends the run, through a ring
\* that was full when it came, a claim made from a stale head, or an RX thread that died.
EndOfSessionEndsTheRun ==
    (\E k \in DOMAIN socket : socket[k] \in EndOfSession) ~> (main = "finished")

\* "Unblocks the consumer if we left because of a socket error": neither thread waits for
\* the other for ever once one has stopped.
OneStoppedThreadStopsBoth ==
    (rx \in {"exiting", "exited"} \/ main = "stopping") ~> (main = "finished")

----
\* What the code says of itself and does not do.

\* receiver.cc, of elapsed_ns: "first packet received to last message parsed". The start
\* is stamped after the batch is published, so the end can be stamped before it.
ElapsedRunsForwards ==
    main = "finished" /\ stats.packets > 0 => clock = <<"start_time", "end_time">>
===============================================================================
