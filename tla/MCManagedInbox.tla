--------------------------- MODULE MCManagedInbox ---------------------------
(* Two partitions that share an event; one ends in a malformed record.     *)
EXTENDS InboxIntegrity, TLC

CONSTANTS w1, w2, p1, p2, e1, e2

MCLog == (p1 :> <<e1, e2>>) @@ (p2 :> <<e1, Malformed>>)
=============================================================================
