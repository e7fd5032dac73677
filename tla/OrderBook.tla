------------------------------ MODULE OrderBook ------------------------------
(***************************************************************************)
(* What a limit order book promises the feed: the live orders with what is  *)
(* left of each, and per locate and price the live references in the order  *)
(* they were added. Nothing is said of pools, indices or links. A book of   *)
(* bounded capacity may fail, but only when what its documentation sizes is *)
(* really full: the orders live at this instant, or the distinct (locate,   *)
(* price) pairs of the whole session.                                       *)
(***************************************************************************)
EXTENDS Integers, Sequences, FiniteSets

CONSTANTS
    Refs,               \* order reference numbers
    Locates,            \* stock locate codes
    Sides,
    Prices,
    Shares,             \* share counts a message may carry
    OrderCapacity,
    LevelCapacity

VARIABLES
    live,       \* live reference -> [locate, price, side, shares]
    queue,      \* <<locate, price>> ever used -> its live references, oldest first
    failed

bookVars == <<live, queue, failed>>

NoOrders == [r \in {} |-> {}]
NoLevels == [l \in {} |-> <<>>]

\* A function that is value at x, and a queue of references without one of them.
With(f, x, value) == [y \in DOMAIN f \cup {x} |-> IF y = x THEN value ELSE f[y]]
Without(refs, ref) ==
    LET k == CHOOSE k \in DOMAIN refs : refs[k] = ref
    IN  SubSeq(refs, 1, k - 1) \o SubSeq(refs, k + 1, Len(refs))

Init ==
    /\ live = NoOrders
    /\ queue = NoLevels
    /\ failed = FALSE

Level(ref) == <<live[ref].locate, live[ref].price>>

\* The live orders and queues once ref is gone. Its level stays, perhaps empty.
LiveWithout(ref) == [r \in DOMAIN live \ {ref} |-> live[r]]
QueueWithout(ref) ==
    [queue EXCEPT ![Level(ref)] = Without(@, ref)]

\* A new order goes to the back of its level's queue, if orders and levels have room.
Place(orders, queues, ref, locate, side, shares, price) ==
    LET level == <<locate, price>>
        known == level \in DOMAIN queues
    IN  IF \/ Cardinality(DOMAIN orders) >= OrderCapacity
           \/ ~known /\ Cardinality(DOMAIN queues) >= LevelCapacity
        THEN /\ live' = NoOrders
             /\ queue' = NoLevels
             /\ failed' = TRUE
        ELSE /\ live' = With(orders, ref, [locate |-> locate, price |-> price, side |-> side,
                                           shares |-> shares])
             /\ queue' = With(queues, level,
                              Append(IF known THEN queues[level] ELSE <<>>, ref))
             /\ UNCHANGED failed

Add(ref, locate, side, shares, price) ==
    /\ ref \notin DOMAIN live
    /\ Place(live, queue, ref, locate, side, shares, price)

\* An execution or a cancellation: what is left keeps its place, nothing left is removed.
Reduce(ref, shares) ==
    /\ ref \in DOMAIN live
    /\ IF live[ref].shares > shares
       THEN /\ live' = [live EXCEPT ![ref].shares = @ - shares]
            /\ UNCHANGED queue
       ELSE /\ live' = LiveWithout(ref)
            /\ queue' = QueueWithout(ref)
    /\ UNCHANGED failed

Remove(ref) ==
    /\ ref \in DOMAIN live
    /\ live' = LiveWithout(ref)
    /\ queue' = QueueWithout(ref)
    /\ UNCHANGED failed

\* The replacement keeps the side and loses the place.
Replace(old, ref, locate, shares, price) ==
    /\ old \in DOMAIN live
    /\ ref \notin DOMAIN live \ {old}
    /\ Place(LiveWithout(old), QueueWithout(old), ref, locate, live[old].side, shares, price)

\* A message that names no live order changes nothing, which every behaviour may do.
Next ==
    /\ ~failed
    /\ \/ \E ref \in Refs, locate \in Locates, side \in Sides, shares \in Shares,
             price \in Prices : Add(ref, locate, side, shares, price)
       \/ \E ref \in Refs, shares \in Shares : Reduce(ref, shares)
       \/ \E ref \in Refs : Remove(ref)
       \/ \E old, ref \in Refs, locate \in Locates, shares \in Shares, price \in Prices :
             Replace(old, ref, locate, shares, price)

Spec == Init /\ [][Next]_bookVars
==============================================================================
