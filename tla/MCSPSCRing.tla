------------------------------ MODULE MCSPSCRing ------------------------------
(* Instances of SPSCRingClient for TLC. *)
EXTENDS SPSCRingClient, TLC

ItemSymmetry == Permutations(Items)
===============================================================================
