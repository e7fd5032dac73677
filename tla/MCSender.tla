------------------------------- MODULE MCSender -------------------------------
(* Instances of Sender for TLC. *)
EXTENDS Sender
===============================================================================
