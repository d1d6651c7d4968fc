------------------------------ MODULE MCTxPath ------------------------------
(* The transmit half on a pool of a few packets. *)
EXTENDS TxPath

(* Every call may fail; or every call but DequeuePackets, whose count      *)
(* without a packet ends the drain and may leave the rest queued for good. *)
AllOrNoNull == {FaultKinds, FaultKinds \ {"nullPacket"}}

NoFaults == {{}}
=============================================================================
