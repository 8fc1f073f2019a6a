----------------------------- MODULE AtLeastOnce -----------------------------
(***************************************************************************)
(* What the outbox promises for events without an order: an event whose    *)
(* business transaction committed is owed to the broker until the broker   *)
(* has stored it or an operator has to decide; duplicates are allowed,     *)
(* loss is not.                                                            *)
(***************************************************************************)
CONSTANT Event

VARIABLES phase,   \* event -> "none", "owed", "delivered", "dead" or "forgotten"
          stored   \* the events the broker holds at least one record of

outbox == <<phase, stored>>

Moves(e, from, to) == phase[e] = from /\ phase' = [phase EXCEPT ![e] = to]

OutboxInit == phase = [e \in Event |-> "none"] /\ stored = {}

Commit(e)  == Moves(e, "none", "owed") /\ UNCHANGED stored
Store(e)   == phase[e] # "none" /\ stored' = stored \cup {e} /\ UNCHANGED phase
Deliver(e) == e \in stored /\ Moves(e, "owed", "delivered") /\ UNCHANGED stored
GiveUp(e)  == Moves(e, "owed", "dead") /\ UNCHANGED stored
Retry(e)   == Moves(e, "dead", "owed") /\ UNCHANGED stored
Forget(e)  == Moves(e, "delivered", "forgotten") /\ UNCHANGED stored

OutboxNext == \E e \in Event :
    Commit(e) \/ Store(e) \/ Deliver(e) \/ GiveUp(e) \/ Retry(e) \/ Forget(e)

OutboxSpec == OutboxInit /\ [][OutboxNext]_outbox
=============================================================================
