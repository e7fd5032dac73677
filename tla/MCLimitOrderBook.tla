--------------------------- MODULE MCLimitOrderBook ---------------------------
(* Instances of LimitOrderBook for TLC. *)
EXTENDS LimitOrderBook

\* The book copies sides and compares prices only for equality (its map is unordered), so
\* each may be renamed.
FeedSymmetry == Permutations(Sides) \cup Permutations(Prices)
===============================================================================
