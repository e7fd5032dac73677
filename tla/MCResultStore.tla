---------------------------- MODULE MCResultStore ----------------------------
(* Instances of ResultStore for TLC. *)
EXTENDS ResultStore

CONSTANTS r1, r2, r3, e1

\* Documents of different lengths: a later, shorter one must not keep a longer one's end.
Lengths == [r \in Runs |-> IF r \in {r1, e1} THEN 2 ELSE 1]
TwoChunks == [r \in Runs |-> 2]
===============================================================================
