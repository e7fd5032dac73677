# A TLA+ model of networking-cpp

The repository replays NASDAQ ITCH 5.0 over MoldUDP64 multicast and measures how fast a
limit order book can be rebuilt from it. Three programs share a library: a **sender**
(file to packets), a **receiver** (packets through a lock-free ring into a book) and an
**offline** replay (file straight into a book). Each run ends by writing one JSON document.

This directory holds the models of those parts, the TLC runs that check them on small
instances, and the theorems TLAPS proves about them. File names below are relative to the
repository.

## The system

| Component | State | Operations | Talks to |
| --- | --- | --- | --- |
| SPSC ring, `include/receiver/spsc_buffer.h` | cumulative `tail` and `head`, a cached copy of each at the other side, the slots | `ClaimWrite`, `ClaimContiguous`, `CommitWrite`, `CommitBatch`; `PeekRead`, `CommitRead`; `Depth` | called by the receiver's two threads, one half each |
| Receiver, `src/receiver/receiver.cc` | the ring, `done`, `ReceiveStats`, counts, `parse_error` | `ReceiveLoop` (RX thread), the parse loop and shutdown of `RunReceiver` (main thread) | socket, ring, view, book, histograms, `Emit` |
| Limit order book, `limit_order_book.{h,cc}` | two pools with free lists, reference table, price map per locate, a doubly linked list per level | add, execute, cancel, delete, replace, `MapStockStr` | called by `ParseMessage` |
| MoldUDP64, `mold_udp_64.{h,cc}` | the builder's buffer, write index, sequence number, count | `TryAppend`, `Finalize`, `FinalizeEndOfSession`, `Reset`; the view's iterator | builder in the sender, view in the receiver |
| Sender, `src/sender/sender.cc` | cursor in the file, builder, two counts | pack, send, flush, close the session | builder, `sendto`, `Emit` |
| Offline replay, `src/offline/offline_lob.cc` | cursor, count | replay loop | book, histograms, `Emit` |
| Histogram, `benchmark.{h,cc}` | bucket counts, totals | `Record`, `+=`, percentiles | recorded by receiver and offline, read again by `tools/report.py` |
| Run results, `run_result.{h,cc}` | status, error, maps, histograms of one run | `Fail`, `SetInputFile`, `AddPinnedCpu`, `Finish`, `WriteJson`, `WriteIndexJson` | every program, value maps, JSON writer |
| Run documents, `run_result.{h,cc}` | files under `results/` | `Emit` | other processes, readers, the index |
| Value maps and command line, `value_map.{h,cc}` | typed entries | register, apply, hash | every program |
| JSON writer, `json_writer.{h,cc}` | nesting and comma state | begin, end, field | `RunResult` |
| `tools/report.py`, `Makefile`, update scripts | none | read documents, build, rewrite the README | documents |

**What is hard.** The ring has two threads, two atomics with acquire and release orders and
two caches that are stale most of the time. The receiver's threads stop each other through
one flag, from five places (end of session, receive error, parse error, and each after the
other). `ReceiveStats` is plain memory made safe by `join`. The book keeps redundant links
in slots that are recycled without being cleared, and throws in the middle of an update. The
sender relies on a buffer that is never cleared. `Emit` shares a directory with other
processes and tests a path many steps before it takes it.

**What makes each part correct.**

- Ring: no slot is in two hands; every access to a slot is ordered after the other side's
  last; FIFO order; no committed item is stranded; runs stay inside the array.
- Receiver: between socket and parser nothing is lost or repeated; the reported counts add
  up; no statistic is read while it is written; the run ends after an end of session, and
  when one thread stops.
- Book: price-time priority per (locate, price); no slot leaked or doubled; volumes are sums;
  failure only when a documented capacity is really reached.
- Framing and sender: the view reads back the file; sequence numbers are contiguous; only
  the closing packet reads as the end; it is the same every time.
- Histogram: nothing recorded is lost by the sum; a percentile is within half a bucket.
- `Emit`: a published document is whole and stays; the answer is true.
- A session: undisturbed, and with equal `lob.*` settings, it builds the book the replay of
  the same file builds; disturbed, the book is still sound, the counts tell what was lost, and
  the receiver still ends.
- Programs, maps and writer: nothing is left open on any way out; each setting is what the command line says last; what is
  written is one JSON document a line or a file, says what ran, and says how it ended.

## Modules

| Module | Models | Notes |
| --- | --- | --- |
| `SPSCRing` | the ring, one operator per member function | no threads of its own |
| `SPSCRingClient` | any legal pair of callers of the ring | states `ImplementsFIFO` |
| `BoundedFIFO` | what the ring promises | abstract: a queue and a staging area |
| `SPSCRingLemmas`, `SPSCRingProofs` | lemmas and theorems of the ring, its FIFO refinement among them | TLAPS |
| `Receiver` | both threads of the receiver, socket and `done` | extends `SPSCRing`; refines `SPSCRingClient` |
| `ReceiverProofs` | that refinement, and the receiver's safety invariants | TLAPS |
| `LimitOrderBook` | book and message dispatch | states `ImplementsOrderBook` |
| `LimitOrderBookProofs` | slots, lists and volumes of the book, and that it implements `OrderBook` | TLAPS |
| `OrderBook` | what a book promises the feed | abstract: live orders and a queue per level |
| `MoldUDP64` | builder and view | operators, checked through `Sender` |
| `Sender` | the sender | extends `MoldUDP64` |
| `SenderProofs` | numbers on the wire, the sentinel, and what the view reads back | TLAPS |
| `HDRHistogram` | recording, summing, percentiles, report.py's percentile | |
| `ResultStore` | `Emit` on a POSIX file system | |
| `ResultStoreProofs` | runs that follow one another | TLAPS |
| `JsonWriter` | the writer's nesting, commas, line breaks and assertions | operators |
| `JsonText` | what a JSON reader makes of a text | reference for the writer; models no code here |
| `ValueMap` | maps, `ApplyOption`, writing a map nested or flat | operators |
| `RunDocument` | a `RunResult` and the calls that write it | operators |
| `BenchmarkRun` | `main` of the three programs, command line to exit code, setup step by step | composes the four above |
| `BenchmarkRunProofs` | what is open on every way out | TLAPS |
| `Session` | sender, network, parse loop and book; the offline replay beside them | extends `Sender`, composes it with `LimitOrderBook` |
| `SessionProofs` | why a session can end, that it builds the replay's book, and that its counts are right | extends `SenderProofs`; TLAPS |
| `MC*` | values for TLC's constants | nothing else |

Names follow the source. Operators marked **Deviation** stand next to the definition they
deviate from and are used nowhere: each is that definition with a plausible mistake in it (a
dropped guard, an off-by-one, a missing reset). Substituting it for the definition must make
a property of the runs fail; `PROJECT.json` pairs them under `mutants`. They document what
each property is able to see.

### Ring

`tail` and `head` are naturals: they are 64-bit and count packets, so they do not wrap.
An acquire load of the peer's counter may return any value between the newest this thread
has acquired (`seen_head`, `seen_tail`; coherence forbids older ones) and the current one.
The same two variables are the happens-before frontier, which is how `NoDataRace` can be a
state predicate: the producer may write a slot only if the read that released it is among
those it has acquired. A thread's loads of its own counter are exact. `ClaimWrite` is
`ClaimContiguous(1)`; the code writes it out but tests the same condition.
`claimed`, `filled` and `peeked` are the callers' holdings, not fields of the class.

### Receiver

A step is one ring call, one access to `done`, one datagram taken by `recvmmsg`, or one
message parsed. `recvmmsg` is not one step: datagrams it fills in are separate, so the
consumer interleaves with a half-filled batch. `RxReceiveNothing` may happen with datagrams
waiting (EINTR). Any message may make `ParseMessage` throw, which over-approximates the
book. The network delivers any packet kinds in any order, which covers loss, duplication and
reordering as far as the receiver can tell, since it does not read sequence numbers.
`taken`, `handled`, `rx_failed` and `clock` are histories. `clock` records the order of the
two time stamps, which is all that the sign of `elapsed_ns` depends on.

### Book

`book` is one record, so that a member function is an operator from book to book and
`ReplaceOrder` is `DeleteOrder` followed by `AddOrder`, as in the code. An exhausted pool
ends in `status = "exhausted"` with the half-made update left in place; an index outside a
table, which the code does not check, in `"undefined"`. Two things are asked of the feed, as
the header's comments ask them: a live reference is not added again, and a locate is
announced by a Stock Directory message before an order uses it. Volumes wrap at
`VolumeModulus`. `OrderBook` fails only when live orders, or the (locate, price) pairs of
the whole session, reach the documented capacity; refinement therefore says that the pools
never run out early.

### Framing and sender

A buffer cell is a byte, but the cell of a length prefix holds the message, so the view
finds a message only where the builder put one. What earlier packets left in the buffer
stays there. `0xFFFF`, 1472 and 20 are constants; the assumption that a packet full of empty
messages stays below the sentinel is checked by TLC for the instance and true of the real
numbers (726 messages). `sendto` may fail at any call. A file may hold a
message of any length, as the assertion on it (`sender.cc:123`) is in debug builds only
(`-DNDEBUG`, `Makefile:92`) and admits lengths that fit no packet even there: such a message
is dropped, and may push out an empty packet;
`Sendable` names the messages that are left.

### Histogram

Six sub-bucket bits and 32 top buckets are constants (2 and 4 in the run, so that clipping
begins at 32). A percentile is a fraction and compared exactly, where the code multiplies
doubles.

### Emit

A path names an inode; opening with truncation empties the inode for whoever else holds it
open; rename moves the name. Every call may fail and the process may be killed between any
two. All runs of the model have one run id, the case the suffixes exist for. The index line
is one write. Which destinations there are, and what is written to them, is
`BenchmarkRun`'s subject.

### Programs

An argument is a record of what `ParseArgs` and `ApplyOption` tell apart: whether it is an
option, its key, `no-`, a text of its own. Texts are a few strings; `Numerals` says which
spell a number. A configuration keeps one key of each kind (type, section, fixed). A run
takes its setup steps in the order of the code (`SetupSteps`, calls that fail alike taken
together); each acquires what it opens (`held`), records what it records, and can fail, which
closes by hand what that path closes (`Closed`). `pin_to_cpu` ends the process and an
exception of the book's constructor leaves `main`: `DieInSetup`, after which no document is
written. What follows the setup is one step with each end `RunOffline`, `RunSender` and
`RunReceiver` have: failed with figures, good, with or without occupied buckets, with an
undefined throughput. A text is a sequence of tokens, written call by call. The write to any
destination may fail instead: `Emit` tests the stream of a file and of the index (`Checked`),
and answers false; it does not test `std::cout`, so a text lost there leaves the answer and
the exit code as they were.

### Session

The sender is `Sender` itself. What it hands to `sendto` goes on a way of packets on which
the network may, `MaxFaults` times in all, lose the next one, deliver it once more, or let
others overtake it. A step of the receiver takes a packet: the view's messages go through
`ParseMessage` one by one, each counted, and recorded once the warm-up is over, until the
book throws or the packet ends. Socket, RX thread and ring are not there: `receiver` shows
that they keep what they took in order (`EveryPacketInItsPlace`), so they are part of the way,
and a datagram the kernel drops is one the network lost. `Replayed` is the replay's loop over
the same file, which needs no packets. The file is any short one a feed may write: a
reference is added once, a locate is announced before it is used. Both programs have the same
`lob.*` settings and warm-up. Those settings are configured for each program alone, and the
default of `lob.order_pool_capacity` is 2,500,000 in the receiver (`receiver.cc:169`) and
2,000,000 in the replay (`offline_lob.cc:31`): with the defaults, a file with more live orders
than the smaller pool holds ends the replay and not the session. What the network makes of
it need not have those properties; a lost Stock Directory message makes a later order index
past the locate table, at which the model stops.

Since the parse loop has no timeout, that a session ends is not a matter of fairness but of
a closing packet being there to be read. `AnEndIsOnItsWay` says so as an invariant: it counts
only losses, so delays and duplicates in any order cannot use the closing packets up.

## Runs

Each run is `tlc -config <name>.cfg <module>`, with the module `PROJECT.json` names. The
states are distinct states.

| Run | States | Question |
| --- | --- | --- |
| `ring` | 24 k | Is a slot ever shared, raced on, outside the array, or the depth nonsense? Is the ring a bounded FIFO, and every committed item read? |
| `receiver` | 91 k | Does every packet keep its place; do the figures add up; is nothing read too early; are the two threads legal callers of the ring; does the run end, and an ok run only at the end of the session? |
| `book_priority` | 9 k | One level, three orders: links, volume with wrap, priority |
| `book_capacity` | 17 k | Pools at their limit, growing tables, replacement across sides, prices and locates |
| `sender` | 152 k | Does the view read back the file, but for messages too long for a packet; are the numbers contiguous? |
| `histogram` | 10 k | Is the sum complete, are percentiles right, does `report.py` agree? |
| `command_line` | 106 k | Does every way out close what was opened; do settings take effect; is what is written a document that says what ran and how it ended; does success mean a good run on record? |
| `session` | 2.7 M | Does an undisturbed session build the replay's book; do the counts give what the network lost; is a disturbed book still sound; does a disturbed session end? |
| `store` | 1.4 M | Three runs of one id and one with `--out` in turn, failing or killed anywhere |

Bounds, and why they are enough. *Ring*: capacity 4 and six items, so
that head, tail and a claimed run meet the end of the array in every relation; beyond that
the theorems hold for every capacity. *Receiver*: capacity 2 with batches of 2 makes full
rings, short batches and wraps frequent; three datagrams fill the ring, stall and fill it
again; the traffic has one packet of each kind the code tells apart (data, heartbeat, runt,
end of session). *Book*: three orders on a level is the first number with a middle; two
pools of two are full within a few messages. One run varies priority and sizes, the other
capacity and place, as the product is too large. Sides and prices may be renamed
(`FeedSymmetry`): the book only copies and compares them. *Sender*: packets hold two or
three messages, files span several packets, and a message may be longer than a packet's room,
within the bound of the sender's assertion or past it.
*Session*: four messages in packets of one to three make every packet boundary; two faults of
any kind lose both of the two closing packets, lose one and let data overtake the other, or
repeat an order so that it takes the last slot; two slots, two levels and one locate before
growth are all reached by four messages; a warm-up of one has messages on either side.
*Histogram*: the durations are the edges of
buckets and of powers of two, up to and past the clipping limit. *Store*: three runs reach
the `-3` suffix. *Command line*: three arguments are an option, its value and one more, so
that options repeat, swallow each other or end short; the fourteen cover each kind of key,
both forms of value, negation, a switched-off destination and a stray text, and can give the
receiver's threads one CPU to share. Two buckets and
one message type make a nested array with a comma at either level.
`CHECK_DEADLOCK` is never turned off: where a program stops, its module has a step that says
it has stopped.

### Runs that fail

These state what the repository says of itself, and TLC finds a behaviour of the code that
disagrees. `PROJECT.json` quotes the lines under `findings`.

| Run | The behaviour |
| --- | --- |
| `receiver_elapsed` | The first batch is published, parsed and the end stamped before the RX thread stamps the start. |
| `book_oversized_ref` | A reference past the table is an unchecked index, not a recorded failure. |
| `store_overwrites` | Two runs of one id both find the path free; one document is lost. |

More were met while reading and have no run of their own:

- the comment at `receiver.cc:311` says "ring drained and the RX thread has given up", but the
  loop peeks before it loads `done`: a last batch committed between the two, followed by a
  receive error, is left in the ring unparsed;
- if every closing packet is lost the receiver polls for ever, since it has no timeout
  (`AnEndIsOnItsWay` needs one loss fewer);
- a duplicated Add Order takes a second slot, and the first becomes one no reference leads to
  (`PoolsPartition` holds of legal feeds only); a lost Stock Directory message makes a later
  order index out of bounds;
- `run_result.h:106` says that `Emit` "Returns false and explains on stderr if any write
  failed"; the write to `std::cout` is not checked (`run_result.cc:531`), so where stdout is
  closed or full the answer is true, the exit code success, and nobody has the text
  (`EmitStdout` has this outcome; `FailuresAreRecorded` excepts stdout by name);
- `docs/RESULTS.md:115` says "A failed run still writes a document", and that a crash is "a
  record, not a gap in the series"; `pin_to_cpu` exits and an exception of the book's
  constructor leaves `main` without one (`FailuresAreRecorded` says only that such a run does
  not exit with success);
- after a failed `sendto` the sender closes its socket only; file and mapping are left to the
  end of the process (`NothingIsLeftOpen` excepts it by name);
- the sender's message too long for a packet may push out an empty packet first;
- `command_verify` of `report.py` never resets `failures` from one file to the next, so that
  one bad document marks those after it;
- a receive error after the first packet leaves `status: ok`, where `docs/RESULTS.md:68` says
  `"error"` if the run failed (`OkRunsReachTheEnd` therefore excepts it);
- `total_message_count > warmup_messages` is tested before the increment, so one message
  more than asked is left out (`offline_lob.cc:117`, `receiver.cc:334`); both programs leave
  out the same ones, which `OnlineBookIsTheReplayedBook` checks;
- once more samples are clipped than a percentile leaves above it, `report.py` and the run
  answer different buckets, although `run_result.cc:320` says "derived the same way" (the
  hypothesis of `ReportAgreesWithTheSummary`);
- two runs of one id in `Emit` together share `<path>.partial`, and one may publish the
  other's half-written document (`PublishedAreWhole` fails with `store_overwrites.cfg` too);
- after 998 suffixes the loop of `Emit` stops at a path that exists;
- a message of more than 1450 bytes fits no packet, is dropped and counted as sent
  (`sender.cc:135`; no ITCH message is that long); the assertion at line 123 admits up to 1471
  and is compiled out of the release build;
- `lob.max_locates=0` makes the first Stock Directory message double zero for ever
  (`limit_order_book.cc:142`);
- an unsigned option takes `" -5"` for a number near 2^64, because only a leading minus is
  looked for (`value_map.cc:295`; `SettingsTakeEffect` excepts it by name);
- `value_map.h:65` says `ApplyOption` fills `error` for an unknown key; it leaves it empty,
  and `ParseArgs` relies on that;
- `value_map.h:76` calls the hash "stable over key order"; it folds the entries in the order
  they were registered.

## Fairness

Safety needs none. The liveness properties of `receiver` assume what the code's scheduling gives: both
threads spin on pinned cores of their own and never block, so each keeps taking its enabled
steps (weak fairness per step). Three steps are strongly fair, because polling disables and
enables them again: a load of the peer's counter eventually returns a current value
(`PollSeesNewestTail`, `ClaimSeesNewestHead`; stores become visible in finite time), and the
kernel does not report EINTR for ever while datagrams wait (`RxTakeDatagram`). Nothing is
assumed of the network: arrival, receive errors and throwing messages have no fairness.
`EveryItemIsRead` of `ring` assumes the same of a polling consumer. The sender waits for nobody; it
needs only that its one thread keeps running. `session` assumes none, as its properties are
all of safety.

## Proofs

TLAPS proves the theorems below for every value of the constants that their assumptions
allow. Each property is one that a run checks too. In every module the shape is the same: an
invariant stronger than the properties, a lemma for each action or member function that
says what it preserves, a next-state proof with one step per action, and the properties
derived from the invariant.

| Module | Theorem | Property |
| --- | --- | --- |
| `SPSCRingProofs` | `RingTypeCorrect` | `RingTypeOK` |
| | `ClaimsArePrivate` | `ClaimedSlotsArePrivate` |
| | `SlotAccessesAreOrdered` | `NoDataRace` |
| | `RunsStayInArray` | `RunStaysInArray` |
| | `DepthIsADepth` | `DepthInRange` |
| | `RingIsAFIFO` | `ImplementsFIFO` |
| `ReceiverProofs` | `ReceiverUsesTheRingAsAllowed` | `UsesTheRingAsAllowed` |
| | `ReceiverSlotAccessesAreOrdered` | `NoDataRace`, of the receiver |
| | `PacketsStayInPlace` | `EveryPacketInItsPlace` |
| | `CountsAddUp` | `ReportedCountsAddUp` |
| | `StallsAgreeWithDepth` | `StallsAndDepthAgree` |
| | `OkRunsAreComplete` | `OkRunsReachTheEnd` |
| `LimitOrderBookProofs` | `PoolsNeverLeak` | `PoolsPartition` |
| | `ListsStayWellFormed` | `ListsWellFormed` |
| | `VolumesAreSums` | `VolumeIsSumOfShares` |
| | `BookImplementsOrderBook` | `ImplementsOrderBook` |
| `SenderProofs` | `NumbersAreContiguous` | `SequencesAreContiguous` |
| | `EndIsUnmistakable` | `OnlyTheEndReadsAsTheEnd` |
| | `FileIsReadBack` | `ViewReadsTheFileBack` |
| `SessionProofs` | `TheEndArrives` | `AnEndIsOnItsWay` |
| | `OnlineIsOffline` | `OnlineBookIsTheReplayedBook` |
| | `DropRatesAreRight` | `DropRatesAreTheNetworks` |
| `ResultStoreProofs` | `DocumentsAreWhole` | `PublishedAreWhole` |
| | `DocumentsAreKept` | `PublishedAreNeverOverwritten` |
| | `AnswersAreTrue` | `AnswerIsTrue` |
| `BenchmarkRunProofs` | `RunsCloseWhatTheyOpen` | `NothingIsLeftOpen` |

`RingInvariant`, `ReceiverInvariant` (one of the receiver's threads, one of a session's
receiver), `BookInvariant`, `SenderInvariant`, `FileInvariant`, `SessionInvariant`,
`StoreInvariant` and `RunInvariant` are the inductive invariants themselves.

### What is assumed

Of the constants, in the modules' ASSUMEs: a capacity is a power of two and a batch fits it;
an order's shares fit the width of a volume and the locate table has an entry; a packet full
of messages of no length stays below the sentinel (1472, 20, 2 and 0xFFFF do); a document has
a chunk, and there are more suffixes than runs; a session's messages fit a packet of their own,
as ITCH messages, 50 bytes at most, do. Pools may be of any size, empty ones included.
Of the feed: what its next-state relation says, that a live reference is not added again and
a locate is announced first. `BookImplementsOrderBook` also asks that the feed's references are
in the reference table, as the header's comment on it does; `book_oversized_ref` shows what
happens otherwise. Of the network and the machine: nothing. `TheEndArrives`, `OnlineIsOffline`
and `DropRatesAreRight` ask nothing of the feed's order or contents either: they hold for
whatever the book makes of a message. The theorems of
`ResultStoreProofs` are about runs that do not overlap (`~Overlap`); of runs that do, `store_overwrites` shows the contrary.

### The inductive invariants, and why they are needed

*Ring* (`RingInv`). None of the five invariants is inductive: `ClaimedSlotsArePrivate` speaks
of slots, and a claim computed from a stale head preserves it only because the stale head is
still at least `tail - Capacity`. `RingInv` adds the order of the counters

    cached_head <= seen_head <= head <= cached_tail <= seen_tail <= tail,
    tail + claimed <= cached_head + Capacity,  Index(tail) + claimed <= Capacity,
    head + peeked <= cached_tail

(`CountersInOrder` has the exact form). The one arithmetic fact needed is that positions less
than a lap apart have different indices (`SlotsWithinALapDiffer`). For `RingIsAFIFO` the ring's
contents are the windows `Held(buffer, first, n)`; the lemmas about them (a longer window is
two windows joined, its tail is the window one further, a write outside it leaves it alone)
turn each operation into a step of `BoundedFIFO` or a stutter.

*Receiver* (`FlowInv`). `ContractInv` says which ring calls each control state makes possible.
`ControlInv` says who stopped whom: `done` is set only by a failing RX thread or after the
parse loop. `PlacesInv` puts every packet taken either among the handled ones or in its slot;
it is what `EveryPacketInItsPlace` says, but of slots instead of windows, and a write
preserves it because, within the lap in use, no other position has the index it writes to. `CountsInv` and
`MessagesInv` relate the figures of each thread to those places while they are still in
progress (a batch published and not yet accounted for, a packet half parsed, or left half parsed where the book threw). `StallInv` is
the least obvious: each stall but the first finds the ring filled again by a packet published
since the last one, so `tail` bounds their number (`ring_full_stalls + Capacity - 1 <= tail`),
and a depth is sampled after each commit, so the full ring was seen.

*Book* (`BookInv`). `ListsWellFormed`, that next and prev are each other's inverse and that
the ends are ends, is not inductive as a statement about links: a ring of orders that no head
leads to satisfies each local condition, and unlinking its last order would make it a level's. `Linked`
therefore asks for a numbering of the slots that grows along `next`, which a ring has not;
the order of arrival is one. `SlotsInv` and `LevelsInv` say that each slot is free once or
owned once, so that a slot taken from a free list is on no list and its stale links do not
matter. `VolumesInv` speaks of every level slot, those no price maps to included, so that a
step accounts for the one slot it touches; a sum changes by what one of its terms does
(`SumMoves`), and a wrapped sum likewise (`WrapsAgree`).

*The book as an order book.* `OrderBook` has a queue per level, the book links in slots. The
proof relates the two without reading the links: a live order is what its slot says, and a
level's queue is the sequence of its slots in the order of the numbering that `Linked`
provides, each being the next of the one before. What `LimitOrderBook` defines by walking the
list from its head is that sequence, as a walk is determined by its steps. An operation then
changes the abstract state as `OrderBook` says: an order is added behind the last slot,
taken out of the middle, or resized where it is. The failures agree because the free list is
empty exactly when as many slots are owned as there are: pool slots and live orders, or mapped
prices, are counted against each other.

*Sender* (`SenderInv`). The number of a packet is contiguous with the last because the builder
stands where the packets sent end, except between the last flush and the reset of
`FinalizeEndOfSession`, when it still holds messages that are on the wire. No data packet reads
as the end, because its messages' prefixes alone take `PrefixSize` bytes each behind the
header (`IsBuilder`), and so many do not fit.

*The file, read back* (`FileInv`). What the view reads of a message tells it where the next one
is, so nothing can be said of a walk that has gone wrong; `Packed` therefore says where every
message of the builder is. Then the view's cursors, which are defined by recursion, are those
places, by a least place at which they would differ. What earlier packets left behind the
write index is never reached. The messages packed so far, joined, are `Sendable` of the file up
to the cursor. Where no message is too long, a packet's number is its first message's place in
the file (`PositionInv`).

*Session* (`SessionInv`). The last `repeats` packets are the closing ones, and while the
receiver listens each closing packet is on its way or lost: delay and duplication permute and
repeat, and the receiver that reads one listens no more. With fewer losses than repeats one is
left, by counting. The book is never opened: the argument holds for whatever it makes of the
messages.

*A session and the replay* (`ReceiverInv`). By `PositionInv` each data packet is a stretch of
the file, the next one starting where it ends. The message loop is a fold of the community
modules; it is characterised once, by the functions on sets of positions the fold chooses from
(`Folds`), and from then on by two facts: nothing follows from no message, and one message more
is one step more (`PassedNothing`, `PassedOneMore`). The loop over the second of two adjacent
stretches, begun where the first left off, is then the loop over both (`PassedOn`), and a run
the book has ended stays as it is. While the network has done nothing, what is on its way is
the packets behind the first `n`, and the run is what the replay has made of those `n`, but for
the count of packets. The closing packet's number is one past the file, so nothing is missing
when it is read; a run that throws agrees with the replay, which throws there too.

*Counts* (`CountInv`). Without duplicates a packet is on its way at most once, which is a
statement about a queue and its length (`Cardinality(Range(network)) = Len(network)`), since
delays permute it. The packets sent less those on their way and those lost are the ones
counted, and by contiguity the messages of all packets are as many as the last number says.

*Store* (`StoreInv`). Names never share an inode, one run at a time is in `Emit`, its partial
holds the chunks it has written so far, and what is under a document's name is whole. A
partial left by a killed run is truncated before it is written again, so nothing of it stays.

*Programs* (`RunInv`). What is held after each setup step is a function of program and step
(`HeldAfter`), so that each failure path can be compared with it.

### What stays with TLC

Liveness under fairness and ENABLED are out of the prover's reach: `EveryItemIsRead`,
`EndOfSessionEndsTheRun`, `OneStoppedThreadStopsBoth`, `EndsWithTheFileSent`. So is induction over data,
as the induction rules take a predicate the installed provers cannot instantiate: where it is
needed, a property is stated of numbers, and the argument is over a least counterexample
(`LeastOf`). Model-checked only are therefore:

- the three of `HDRHistogram`: they need powers of two, of which the provers know nothing, and
  sums over buckets taken in an order that is left open;
- those of `BenchmarkRun` about texts and command lines, which are about sequences of tokens
  that a reader (`JsonText`) takes apart again;
- `OrdersAreTheFeeds`, which is about feeds that a network disturbed, in which a repeated Add
  Order leaves a slot that no reference owns: `BookInv` would have to be weakened to allow it.

## Not modelled

CPU affinity and TSC calibration, which configure and measure the machine; byte order and
struct layout of messages (each field is a value); the text of documents, usage and tables;
the hash and time in a run id; the pause between closing packets; a file whose last message
is cut short, where the code reads bytes that no one wrote (listed under the hazards); build
and README scripts. Two runs that overlap in `Emit` are modelled, but their publications are
only shown to fail.

## Plan

1. Done: ring, receiver, book, framing and sender, histogram, store, programs with their
   setup, value maps and JSON, session and replay; ring theorems and the receiver's refinement.
2. Done: theorems for the ring and its FIFO refinement, the receiver, the slots, lists and
   volumes of the book and its refinement of `OrderBook`, the sender's numbers, sentinel and
   file, a session's closing packets, book and counts, serial runs of the store, and what the
   programs leave open.
3. Next: `OrdersAreTheFeeds` from a form of `BookInv` that tolerates slots nobody owns; the sums of
   `HDRHistogram`.
