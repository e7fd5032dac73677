--------------------------- MODULE MCHDRHistogram ---------------------------
(* Instances of HDRHistogram for TLC. *)
EXTENDS HDRHistogram

\* The edges of buckets and of powers of two, with four sub-buckets and four top buckets:
\* one duration per bucket below 8, two below 16, four below 32, clipped from there on.
EdgeCycles == {0, 3, 8, 9, 16, 19, 31, 32}
Tails == {<<1, 2>>, <<9, 10>>, <<1, 1>>}
===============================================================================
