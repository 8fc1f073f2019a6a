------------------------ MODULE MCOrderingPartitions ------------------------
(* Two relays with different publish windows, one partition.               *)
EXTENDS OrderingPartitions, TLC

CONSTANTS r1, r2, w1, w3

MCRelayOf == (w1 :> r1) @@ (w3 :> r2)
MCPublishTimeout == (r1 :> 2) @@ (r2 :> 1)
MCSafetyMargin == (r1 :> 3) @@ (r2 :> 3)
MCOrderingLease == (r1 :> 6) @@ (r2 :> 5)
=============================================================================
