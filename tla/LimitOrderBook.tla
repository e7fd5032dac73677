---------------------------- MODULE LimitOrderBook ----------------------------
(***************************************************************************)
(* fh_lob::LimitOrderBook (include/shared/limit_order_book.h and            *)
(* src/shared/limit_order_book.cc) and the dispatch of ITCH messages to it  *)
(* (src/shared/message_parser.cc). Two pools of slots with free lists, a    *)
(* flat table from order reference to slot, a map from price to level slot  *)
(* per locate, and an intrusive doubly linked list per level.               *)
(*                                                                          *)
(* `book` is a record of the class's members, so that a member function is  *)
(* an operator from a book to a book and ReplaceOrder can be DeleteOrder    *)
(* followed by AddOrder, as in the code. `status` says how the last call    *)
(* ended: an exhausted pool throws, and an index outside a table is         *)
(* undefined behaviour, after which nothing is said of the book.            *)
(***************************************************************************)
EXTENDS Integers, FiniteSets, SequencesExt, TLC

CONSTANTS
    OrderCapacity,      \* order_pool_capacity
    LevelCapacity,      \* price_level_pool_capacity
    MaxLocates,         \* max_locates
    MaxOrderRef,        \* max_order_ref_number: references below it have an entry
    VolumeModulus,      \* 2 ^ the width of total_volume
    FeedRefs,           \* what the feed's messages carry
    FeedLocates,
    Sides,
    Prices,
    Shares,
    Stocks

ASSUME PoolAssumption ==
    /\ OrderCapacity \in Nat
    /\ LevelCapacity \in Nat
    /\ MaxOrderRef \in Nat
    /\ MaxLocates \in Nat \ {0}

ASSUME FeedAssumption ==
    /\ FeedRefs \subseteq Nat
    /\ FeedLocates \subseteq Nat
    /\ VolumeModulus \in Nat \ {0}
    /\ Shares \subseteq 0 .. VolumeModulus - 1

\* UINT32_MAX, an index no pool reaches.
NIL == -1

OrderSlots == 0 .. OrderCapacity - 1
LevelSlots == 0 .. LevelCapacity - 1

VARIABLE book

\* Deviation: the loop stops before index 0.
FreeListWithoutZero(capacity) == [k \in 1 .. capacity - 1 |-> capacity - k]
\* MemoryPool's constructor pushes the indices from the last to the first, so index 0 is
\* on top.
FreeList(capacity) == [k \in 1 .. capacity |-> capacity - k]

NoStock == "none"
NoSide == "none"

BlankOrder == [next |-> NIL, prev |-> NIL, level |-> NIL, shares |-> 0, side |-> NoSide]
BlankLevel == [head |-> NIL, tail |-> NIL, price |-> 0, total_volume |-> 0]
NoPrices == [p \in {} |-> NIL]

NewBook ==
    [order_pool |-> [i \in OrderSlots |-> BlankOrder],
     order_free_list |-> FreeList(OrderCapacity),
     price_level_pool |-> [i \in LevelSlots |-> BlankLevel],
     price_level_free_list |-> FreeList(LevelCapacity),
     orders |-> [r \in 0 .. MaxOrderRef - 1 |-> NIL],
     price_level_maps |-> [l \in 0 .. MaxLocates - 1 |-> NoPrices],
     str_to_locate |-> [s \in {} |-> 0],
     locate_to_str |-> [l \in 0 .. MaxLocates - 1 |-> NoStock],
     status |-> "running"]

Init == book = NewBook

----
\* The member functions.

Ended(b, how) == [b EXCEPT !.status = how]

\* An access past the end of `orders`, or of price_level_maps, is not checked.
KnowsRef(b, ref) == ref \in DOMAIN b.orders
KnowsLocate(b, locate) == locate \in DOMAIN b.price_level_maps

\* try_emplace: a key that is in the map keeps its value.
Emplaced(map, key, value) ==
    [k \in DOMAIN map \cup {key} |-> IF k \in DOMAIN map THEN map[k] ELSE value]

\* total_volume is a uint32_t.
Wrap(volume) == volume % VolumeModulus

\* Deviation: the new tail does not point back.
EnqueueWithoutPrev(b, index, level) ==
    IF b.price_level_pool[level].head = NIL
    THEN [b EXCEPT !.price_level_pool[level].head = index,
                   !.price_level_pool[level].tail = index]
    ELSE [b EXCEPT !.order_pool[b.price_level_pool[level].tail].next = index,
                   !.price_level_pool[level].tail = index]
\* The tail of AddOrder: the order becomes the newest of its level.
Enqueue(b, index, level) ==
    IF b.price_level_pool[level].head = NIL
    THEN [b EXCEPT !.price_level_pool[level].head = index,
                   !.price_level_pool[level].tail = index]
    ELSE [b EXCEPT !.order_pool[b.price_level_pool[level].tail].next = index,
                   !.order_pool[index].prev = b.price_level_pool[level].tail,
                   !.price_level_pool[level].tail = index]

\* The order's slot and its table entry, taken.
Placed(b, index, ref, side, shares) ==
    [b EXCEPT !.order_free_list = Front(@),
              !.order_pool[index].side = side,
              !.order_pool[index].shares = shares,
              !.order_pool[index].next = NIL,
              !.order_pool[index].prev = NIL,
              !.orders[ref] = index]

\* A level's slot and its map entry, taken for the order.
Opened(b, index, locate, price, level, shares) ==
    [b EXCEPT !.price_level_free_list = Front(@),
              !.price_level_maps[locate] = Emplaced(@, price, level),
              !.price_level_pool[level].price = price,
              !.price_level_pool[level].total_volume = shares,
              !.order_pool[index].level = level]

Joined(b, index, level, shares) ==
    [b EXCEPT !.price_level_pool[level].total_volume = Wrap(@ + shares),
              !.order_pool[index].level = level]

\* The order's slot and table entry are taken before the level is looked up, and the map
\* entry before the level's slot, so a throw leaves both behind.
AddOrder(b, locate, ref, side, shares, price) ==
    LET index == Last(b.order_free_list)
        placed == Placed(b, index, ref, side, shares)
        known == b.price_level_maps[locate][price]
        fresh == Last(b.price_level_free_list)
    IN  IF b.order_free_list = <<>> THEN Ended(b, "exhausted")
        ELSE IF ~KnowsRef(b, ref) \/ ~KnowsLocate(b, locate) THEN Ended(b, "undefined")
        ELSE IF price \in DOMAIN b.price_level_maps[locate]
             THEN Enqueue(Joined(placed, index, known, shares), index, known)
        ELSE IF b.price_level_free_list = <<>>
             THEN Ended([placed EXCEPT !.price_level_maps[locate] = Emplaced(@, price, NIL)],
                        "exhausted")
        ELSE Enqueue(Opened(placed, index, locate, price, fresh, shares), index, fresh)

\* Deviation: the level's tail is left at the order that goes.
UnlinkKeepingTail(b, index) ==
    LET order == b.order_pool[index]
        onward == IF order.next # NIL
                  THEN [b EXCEPT !.order_pool[order.next].prev = order.prev] ELSE b
    IN  IF order.prev # NIL
        THEN [onward EXCEPT !.order_pool[order.prev].next = order.next]
        ELSE [onward EXCEPT !.price_level_pool[order.level].head = order.next]
\* The neighbours, or the level's ends, are joined around the order. They differ from the
\* order itself, so the four assignments do not meet.
Unlink(b, index) ==
    LET order == b.order_pool[index]
        onward == IF order.next # NIL
                  THEN [b EXCEPT !.order_pool[order.next].prev = order.prev]
                  ELSE [b EXCEPT !.price_level_pool[order.level].tail = order.prev]
    IN  IF order.prev # NIL
        THEN [onward EXCEPT !.order_pool[order.prev].next = order.next]
        ELSE [onward EXCEPT !.price_level_pool[order.level].head = order.next]

\* Deviation: the reference keeps naming the slot that was freed.
DeleteOrderKeepingEntry(b, ref) ==
    LET index == b.orders[ref]
        level == b.order_pool[index].level
    IN  IF ~KnowsRef(b, ref) THEN Ended(b, "undefined")
        ELSE IF index = NIL THEN b
        ELSE [Unlink(b, index) EXCEPT
                !.price_level_pool[level].total_volume = Wrap(@ - b.order_pool[index].shares),
                !.order_free_list = Append(@, index)]
\* The emptied level keeps its slot and its map entry; the order's slot goes on top of the
\* free list with its fields as they were.
DeleteOrder(b, ref) ==
    LET index == b.orders[ref]
        level == b.order_pool[index].level
    IN  IF ~KnowsRef(b, ref) THEN Ended(b, "undefined")
        ELSE IF index = NIL THEN b
        ELSE [Unlink(b, index) EXCEPT
                !.price_level_pool[level].total_volume = Wrap(@ - b.order_pool[index].shares),
                !.orders[ref] = NIL,
                !.order_free_list = Append(@, index)]

\* Deviation: the level's volume is not reduced with the order.
ReduceOrderOnly(b, ref, shares) ==
    LET index == b.orders[ref]
        order == b.order_pool[index]
    IN  IF ~KnowsRef(b, ref) THEN Ended(b, "undefined")
        ELSE IF index = NIL THEN b
        ELSE IF order.shares <= shares THEN DeleteOrder(b, ref)
        ELSE [b EXCEPT !.order_pool[index].shares = @ - shares]
\* ExecuteOrder, ExecuteOrderWithPrice and CancelOrder: the same reduction.
ReduceOrderSize(b, ref, shares) ==
    LET index == b.orders[ref]
        order == b.order_pool[index]
    IN  IF ~KnowsRef(b, ref) THEN Ended(b, "undefined")
        ELSE IF index = NIL THEN b
        ELSE IF order.shares <= shares THEN DeleteOrder(b, ref)
        ELSE [b EXCEPT !.order_pool[index].shares = @ - shares,
                       !.price_level_pool[order.level].total_volume = Wrap(@ - shares)]

\* Deviation: the replacement takes over the old order's slot and place.
ReplaceOrderInItsPlace(b, locate, old, ref, shares, price) ==
    IF ~KnowsRef(b, old) THEN Ended(b, "undefined")
    ELSE IF b.orders[old] = NIL THEN b
    ELSE [b EXCEPT !.order_pool[b.orders[old]].shares = shares,
                   !.orders = [@ EXCEPT ![old] = NIL, ![ref] = b.orders[old]]]
\* The side comes from the old order; an unknown old reference drops the new order too.
ReplaceOrder(b, locate, old, ref, shares, price) ==
    IF ~KnowsRef(b, old) THEN Ended(b, "undefined")
    ELSE IF b.orders[old] = NIL THEN b
    ELSE AddOrder(DeleteOrder(b, old), locate, ref, b.order_pool[b.orders[old]].side,
                  shares, price)

\* The tables double until the locate fits; entries there are keep their place.
Doublings(size, locate) == CHOOSE n \in 0 .. locate + 1 :
    /\ size * 2 ^ n > locate
    /\ \A m \in 0 .. n - 1 : size * 2 ^ m <= locate

Resized(table, size, blank) ==
    [l \in DOMAIN table \cup 0 .. size - 1 |-> IF l \in DOMAIN table THEN table[l] ELSE blank]

MapStockStr(b, stock, locate) ==
    LET size == Cardinality(DOMAIN b.locate_to_str)
        grown == size * 2 ^ Doublings(size, locate)
    IN  [b EXCEPT
            !.price_level_maps = Resized(@, grown, NoPrices),
            !.locate_to_str = [Resized(@, grown, NoStock) EXCEPT ![locate] = stock],
            !.str_to_locate = Emplaced(@, stock, locate)]

----
\* ParseMessage, one action per message type that reaches the book. The fields are in host
\* byte order once parsed; all other types ('S' among them) leave the book alone.

Running == book.status = "running"

Live(ref) == KnowsRef(book, ref) /\ book.orders[ref] # NIL

ParseStockDirectory(stock, locate) ==
    /\ Running
    /\ book' = MapStockStr(book, stock, locate)

\* 'A' and 'F'. The feed never adds a reference that is live, and announces a locate before
\* it uses it (limit_order_book.h asks for that); the book checks neither.
ParseAddOrder(locate, ref, side, shares, price) ==
    /\ Running
    /\ ~Live(ref)
    /\ KnowsLocate(book, locate)
    /\ book' = AddOrder(book, locate, ref, side, shares, price)

ParseOrderExecuted(ref, shares) ==
    /\ Running
    /\ book' = ReduceOrderSize(book, ref, shares)

ParseOrderExecutedPrice(ref, shares) == ParseOrderExecuted(ref, shares)
ParseOrderCancel(ref, shares) == ParseOrderExecuted(ref, shares)

ParseOrderDelete(ref) ==
    /\ Running
    /\ book' = DeleteOrder(book, ref)

ParseOrderReplace(locate, old, ref, shares, price) ==
    /\ Running
    /\ Live(ref) => ref = old
    /\ KnowsLocate(book, locate)
    /\ book' = ReplaceOrder(book, locate, old, ref, shares, price)

\* A throw, or worse, ends the parse loop.
Stopped ==
    /\ ~Running
    /\ UNCHANGED book

Next ==
    \/ \E stock \in Stocks, locate \in FeedLocates : ParseStockDirectory(stock, locate)
    \/ \E locate \in FeedLocates, ref \in FeedRefs, side \in Sides, shares \in Shares,
          price \in Prices : ParseAddOrder(locate, ref, side, shares, price)
    \/ \E ref \in FeedRefs, shares \in Shares :
          \/ ParseOrderExecuted(ref, shares)
          \/ ParseOrderExecutedPrice(ref, shares)
          \/ ParseOrderCancel(ref, shares)
    \/ \E ref \in FeedRefs : ParseOrderDelete(ref)
    \/ \E locate \in FeedLocates, old, ref \in FeedRefs, shares \in Shares,
          price \in Prices : ParseOrderReplace(locate, old, ref, shares, price)
    \/ Stopped

Spec == Init /\ [][Next]_book

----
\* What the book's links, tables and pools must keep while it runs.

InUse(free, slots) == slots \ Range(free)
LiveRefs == {r \in DOMAIN book.orders : book.orders[r] # NIL}
MappedLevels == {level \in (DOMAIN book.price_level_maps) \X Prices :
                    level[2] \in DOMAIN book.price_level_maps[level[1]]}
LevelAt(level) == book.price_level_maps[level[1]][level[2]]
OrdersOf(slot) == {i \in InUse(book.order_free_list, OrderSlots) :
                      book.order_pool[i].level = slot}

\* "Max number of live orders at any instant": every slot is either free, once, or holds
\* exactly one live order, so no sequence of messages leaks or doubles a slot. The same
\* for levels and the (locate, price) pairs of the session.
PoolsPartition ==
    Running =>
        /\ IsInjective(book.order_free_list)
        /\ {book.orders[r] : r \in LiveRefs} = InUse(book.order_free_list, OrderSlots)
        /\ Cardinality(LiveRefs) + Len(book.order_free_list) = OrderCapacity
        /\ IsInjective(book.price_level_free_list)
        /\ {LevelAt(level) : level \in MappedLevels}
              = InUse(book.price_level_free_list, LevelSlots)
        /\ Cardinality(MappedLevels) + Len(book.price_level_free_list) = LevelCapacity

\* Each level's list runs both ways through exactly the orders that point back at it, and
\* through nothing that was freed, although a freed slot keeps its stale links.
ListsWellFormed ==
    Running =>
        \A level \in MappedLevels :
            LET slot == LevelAt(level)
                members == OrdersOf(slot)
                pool == book.order_pool
                ends == book.price_level_pool[slot]
            IN  /\ ends.price = level[2]
                /\ (ends.head = NIL) = (members = {})
                /\ (ends.tail = NIL) = (members = {})
                /\ members # {} =>
                      /\ ends.head \in members /\ pool[ends.head].prev = NIL
                      /\ ends.tail \in members /\ pool[ends.tail].next = NIL
                /\ \A i \in members :
                      /\ i # ends.tail =>
                            pool[i].next \in members /\ pool[pool[i].next].prev = i
                      /\ i # ends.head =>
                            pool[i].prev \in members /\ pool[pool[i].prev].next = i

\* The sum of a number per order slot.
SumOf(amount) ==
    LET sum[n \in 0 .. OrderCapacity] == IF n = 0 THEN 0 ELSE sum[n - 1] + amount[n - 1]
    IN  sum[OrderCapacity]

SharesOn(slot) ==
    SumOf([i \in OrderSlots |-> IF i \in OrdersOf(slot) THEN book.order_pool[i].shares ELSE 0])

\* total_volume is the sum of what is left of the level's orders, in 32-bit arithmetic:
\* additions that wrapped are undone exactly by the subtractions.
VolumeIsSumOfShares ==
    Running =>
        \A level \in MappedLevels :
            LET slot == LevelAt(level)
            IN  book.price_level_pool[slot].total_volume = Wrap(SharesOn(slot))

----
\* The orders and queues the slots and links stand for. A book that threw stands for
\* nothing.
RefOf(index) == CHOOSE r \in LiveRefs : book.orders[r] = index

LevelOf(slot) == CHOOSE level \in MappedLevels : LevelAt(level) = slot

LiveOrders ==
    [r \in IF Running THEN LiveRefs ELSE {} |->
        LET order == book.order_pool[book.orders[r]]
            level == LevelOf(order.level)
        IN  [locate |-> level[1], price |-> level[2], side |-> order.side,
             shares |-> order.shares]]

\* The slots met from head along next, NIL once past the tail.
Walk(slot) ==
    LET node[k \in 0 .. OrderCapacity] ==
            IF k = 0 THEN book.price_level_pool[slot].head
            ELSE IF node[k - 1] = NIL THEN NIL ELSE book.order_pool[node[k - 1]].next
        met == {k \in 0 .. OrderCapacity - 1 : node[k] # NIL}
    IN  [k \in 1 .. Cardinality(met) |-> node[k - 1]]

LevelQueues ==
    [level \in IF Running THEN MappedLevels ELSE {} |->
        LET walk == Walk(LevelAt(level)) IN [k \in DOMAIN walk |-> RefOf(walk[k])]]

AbstractBook == INSTANCE OrderBook WITH
                    Refs <- FeedRefs,
                    Locates <- FeedLocates,
                    live <- LiveOrders,
                    queue <- LevelQueues,
                    failed <- ~Running

\* Executions, cancellations, deletions and replacements act on the right order and keep
\* price-time priority; and the pools run out only when the live orders, or the distinct
\* (locate, price) pairs of the session, really fill them.
ImplementsOrderBook == AbstractBook!Spec

----
\* receiver.cc, of parse_error: "Set when the book cannot hold the feed (e.g. an order ref
\* past lob.max_order_ref_number); the run is then recorded as failed". Only a throw is
\* recorded: such a reference indexes past the end of the table.
OversizedRefIsRecorded == book.status # "undefined"
===============================================================================
