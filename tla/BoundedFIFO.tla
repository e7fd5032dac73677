----------------------------- MODULE BoundedFIFO -----------------------------
(***************************************************************************)
(* What a single-producer single-consumer ring promises its two callers,   *)
(* with nothing said about counters, caches, or array slots: a FIFO queue  *)
(* of at most Capacity items. The producer prepares items privately in     *)
(* `staged` and publishes a prefix of what it prepared; the consumer sees  *)
(* the oldest published item until it releases it.                         *)
(***************************************************************************)
EXTENDS Integers, Sequences

CONSTANTS
    Items,      \* what a slot can hold
    Capacity    \* published items the queue can hold

VARIABLES
    queue,      \* published and not yet released, oldest first
    staged      \* written by the producer, not yet published

fifoVars == <<queue, staged>>

Init ==
    /\ queue = <<>>
    /\ staged = <<>>

\* The producer asks for space again: what it had prepared and not published is gone.
Restart ==
    /\ staged' = <<>>
    /\ UNCHANGED queue

\* The producer prepares one more item, if the queue has a place for it.
Stage(item) ==
    /\ Len(queue) + Len(staged) < Capacity
    /\ staged' = Append(staged, item)
    /\ UNCHANGED queue

\* The first n prepared items become visible to the consumer, all at once.
Publish(n) ==
    /\ queue' = queue \o SubSeq(staged, 1, n)
    /\ staged' = <<>>

\* The consumer gives the oldest item back.
Release ==
    /\ queue # <<>>
    /\ queue' = Tail(queue)
    /\ UNCHANGED staged

Next ==
    \/ Restart
    \/ \E item \in Items : Stage(item)
    \/ \E n \in 1 .. Len(staged) : Publish(n)
    \/ Release

Spec == Init /\ [][Next]_fifoVars
==============================================================================
