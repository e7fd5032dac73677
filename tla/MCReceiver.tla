------------------------------ MODULE MCReceiver ------------------------------
(* Instances of Receiver for TLC. *)
EXTENDS Receiver, TLC

CONSTANTS data, heartbeat, runt, eos

\* One packet of each kind ReceiveLoop and the parse loop can tell apart.
AllPackets == {data, heartbeat, runt, eos}
NoHeartbeat == {data, runt, eos}
RuntPackets == {runt}
EndOfSessionPackets == {eos}
TwoMessages == [p \in AllPackets |-> IF p = data THEN 2 ELSE 0]
OneMessage == [p \in NoHeartbeat |-> IF p = data THEN 1 ELSE 0]
===============================================================================
