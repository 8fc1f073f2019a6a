--------------------------- MODULE InboxIntegrity ---------------------------
(***************************************************************************)
(* What the integrity verifier says about the inbox rows the managed       *)
(* consumer, its operators and the Process helper leave behind.            *)
(***************************************************************************)
EXTENDS ManagedInbox, IntegrityRules

\* The columns checkInbox reads.  Only a managed claim records the source and
\* counts an attempt; processed_at is written with the handler's effect.
InboxRecord(e) ==
    [status      |-> row[e].status,
     attempts    |-> row[e].attempts,
     lease       |-> IF row[e].token = NoToken THEN {} ELSE {"owner", "token", "until"},
     until       |-> IF row[e].due THEN 0 ELSE 1,
     stamped     |-> effect[e] # 0,
     source      |-> IF row[e].attempts = 0 THEN {} ELSE SourceFields,
     timestamped |-> row[e].attempts # 0]

\* docs/INTEGRITY.md: a violation is a durable state that should be impossible.
\* No crash, reclaimed lease, operator retry or use of the Process helper leaves
\* an inbox row that checkInbox calls one.
InboxFindsNoViolation ==
    \A e \in Event :
        row[e].status # "absent" => InboxFindings(InboxRecord(e), 0) \cap Violations = {}
=============================================================================
