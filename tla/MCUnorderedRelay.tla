-------------------------- MODULE MCUnorderedRelay --------------------------
(* Two relays; the first may run two handlers, and could start a third.    *)
EXTENDS UnorderedRelay, TLC

CONSTANTS r1, r2, w1, w2, w3, w4, e1

MCRelayOf == [w \in Worker |-> IF w = w4 THEN r2 ELSE r1]
=============================================================================
