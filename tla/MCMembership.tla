---------------------------- MODULE MCMembership ----------------------------
(***************************************************************************)
(* Relay membership on its own.                                            *)
(***************************************************************************)
EXTENDS RelayMembership, TLC

\* The last instance wins every partition it is a member for.
MCScore == [p \in VPartition |-> [i \in Instance |-> i]]
=============================================================================
