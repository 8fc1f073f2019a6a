------------------------- MODULE MCOrderedDelivery -------------------------
(* One stream of one partition, delivered by up to two relays.            *)
EXTENDS OrderedIntegrity, TLC

CONSTANTS r1, r2, w1, w2, w3, st1, p1

MCSymmetry == Permutations({w1, w2})
MCRelayOf == [w \in Worker |-> IF w = w3 THEN r2 ELSE r1]
\* Relays with the same settings are interchangeable together with their workers.
MCRelaySymmetry ==
    {p \in Permutations({r1, r2, w1, w3}) :
        \A w \in {w1, w3} : p[w] \in {w1, w3} /\ p[MCRelayOf[w]] = MCRelayOf[p[w]]}
MCPartitionOf == st1 :> p1
MCPublishTimeout == [r \in Relay |-> 1]
MCSafetyMargin == [r \in Relay |-> 1]
MCOrderingLease == [r \in Relay |-> 3]
MCEventLease == [r \in Relay |-> 3]
=============================================================================
