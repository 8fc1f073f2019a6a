--------------------------- MODULE IntegrityRules ---------------------------
(***************************************************************************)
(* The rules of the integrity verifier (emitlane integrity check and       *)
(* stream) and of the admin API's view of ordered streams and partitions,  *)
(* as functions of one row of a database snapshot.  A rule yields the set  *)
(* of finding codes for the row; messages and details are left out.        *)
(*                                                                         *)
(* A NULL time is 0.  The ordering columns a row has are its field set;    *)
(* lease and source columns of an inbox row are field sets as well.        *)
(***************************************************************************)
EXTENDS Integers, FiniteSets

Warnings ==
    {"PARTITION_OWNER_STALE", "PARTITION_HANDOFF_OVERDUE", "STREAM_GAP",
     "STREAM_DEAD_BLOCKED", "STREAM_RETRY_WAIT", "STALE_EVENT_LEASE",
     "RELAY_PRESENCE_STALE", "INBOX_STALE_LEASE", "INBOX_DEAD_BLOCKED",
     "INBOX_RETRY_WAIT"}
Violations ==
    {"SCHEMA_VERSION_MISMATCH", "PARTITION_COUNT_INVALID", "PARTITION_ID_INVALID",
     "PARTITION_EPOCH_INVALID", "PARTITION_LEASE_SHAPE_INVALID",
     "ORDERING_FIELDS_PARTIAL", "ORDERING_PARTITION_MISMATCH",
     "STREAM_PARTITION_MISMATCH", "STREAM_CURSOR_INVALID",
     "ACTIVE_SEQUENCE_BEHIND_CURSOR", "EXPECTED_SEQUENCE_DUPLICATE",
     "RUNTIME_CONTROL_INVALID", "INBOX_STATE_INVALID",
     "INBOX_LEASE_SHAPE_INVALID", "INBOX_SOURCE_METADATA_INVALID",
     "INBOX_PROCESSED_TIMESTAMP_INVALID", "INBOX_ATTEMPTS_INVALID"}

Found(condition, code) == IF condition THEN {code} ELSE {}

Active == {"pending", "inflight", "dead"}
-----------------------------------------------------------------------------
(* Events, streams and partitions.                                          *)

OrderingFields == {"key", "sequence", "partition"}

CursorFindingsInclusive(status, seq, next) ==
    CASE status \in Active /\ next = 0                       -> {"STREAM_CURSOR_INVALID"}
      [] status \in Active /\ next # 0 /\ seq <= next        -> {"ACTIVE_SEQUENCE_BEHIND_CURSOR"}
      [] status = "delivered" /\ next # 0 /\ seq >= next     -> {"STREAM_CURSOR_INVALID"}
      [] OTHER                                               -> {}

\* An ordered row against its stream's next_sequence (0: no stream row).
CursorFindings(status, seq, next) ==
    CASE status \in Active /\ next = 0                       -> {"STREAM_CURSOR_INVALID"}
      [] status \in Active /\ next # 0 /\ seq < next         -> {"ACTIVE_SEQUENCE_BEHIND_CURSOR"}
      [] status = "delivered" /\ next # 0 /\ seq >= next     -> {"STREAM_CURSOR_INVALID"}
      [] OTHER                                               -> {}

\* checkEvents on one row.
EventFindings(e, next, expectedPartition, now) ==
    Found(e.status = "inflight" /\ e.until # 0 /\ e.until <= now, "STALE_EVENT_LEASE")
    \cup IF e.fields = {} THEN {}
         ELSE IF e.fields # OrderingFields \/ e.seq <= 0 THEN {"ORDERING_FIELDS_PARTIAL"}
         ELSE Found(e.partition # expectedPartition, "ORDERING_PARTITION_MISMATCH")
              \cup CursorFindings(e.status, e.seq, next)

\* The rows checkEvents reads: in summary mode the active ones only.
EventScope(full, e) == e.status \in Active \/ (full /\ e.fields # {})

\* ClassifyCursor: what the stream waits for.  expected is the set of active
\* rows at next_sequence, future whether an active row lies beyond it.
ClassifyCursor(expected, future, now) ==
    IF expected = {} THEN IF future THEN "gap" ELSE "idle"
    ELSE IF \E e \in expected : e.status = "dead" THEN "dead_blocked"
    ELSE IF \E e \in expected : e.status = "inflight" THEN "inflight"
    ELSE IF \A e \in expected : e.status = "pending" /\ e.available > now THEN "retry_wait"
    ELSE "ready"

\* checkStreams and InspectStream on one stream, expected again the active rows
\* at next_sequence.
StreamFindings(s, expected, state, expectedPartition) ==
    Found(s.partition # expectedPartition, "STREAM_PARTITION_MISMATCH")
    \cup Found(s.start <= 0 \/ s.next < s.start, "STREAM_CURSOR_INVALID")
    \cup Found(\E e, f \in expected : e # f, "EXPECTED_SEQUENCE_DUPLICATE")
    \cup Found(state = "retry_wait", "STREAM_RETRY_WAIT")
    \cup Found(state = "gap", "STREAM_GAP")
    \cup Found(state = "dead_blocked", "STREAM_DEAD_BLOCKED")

AdminStreamStateNoWait(next, future, now) ==
    IF \E e \in next : e.status = "dead" THEN "dead_blocked"
    ELSE IF \E e \in next : e.status = "inflight" THEN "inflight"
    ELSE IF next = {} /\ future THEN "gap"
    ELSE "ready"

\* orderingStateSelect: the admin API's state of a stream, from the row at
\* next_sequence whatever its status ({} when there is none).
AdminStreamState(next, future, now) ==
    IF \E e \in next : e.status = "dead" THEN "dead_blocked"
    ELSE IF \E e \in next : e.status = "inflight" THEN "inflight"
    ELSE IF \E e \in next : e.status = "pending" /\ e.available > now THEN "retry_wait"
    ELSE IF next = {} /\ future THEN "gap"
    ELSE "ready"

\* checkPartitions on one row: whether lease_owner is set, whether the presence
\* row of the owner is that of a running relay, and whether the row was last
\* written longer than HandoffLongAfter ago.  A NULL publish_timeout_ms is 0.
PartitionFindings(owned, row, present, old, now) ==
    Found(row.epoch < 0, "PARTITION_EPOCH_INVALID")
    \cup Found(owned # (row.until # 0) \/ row.window < 0,
               "PARTITION_LEASE_SHAPE_INVALID")
    \cup Found(owned /\ row.until > now /\ ~present, "PARTITION_OWNER_STALE")
    \cup Found(row.barrier > now /\ old, "PARTITION_HANDOFF_OVERDUE")

AdminPartitionStateNoBarrier(owned, row, now) ==
    IF ~owned THEN "unowned" ELSE IF row.until <= now THEN "expired" ELSE "owned"

\* ListOrderingPartitions and readOrderingStats.
AdminPartitionState(owned, row, now) ==
    IF ~owned THEN "unowned"
    ELSE IF row.until <= now THEN "expired"
    ELSE IF row.barrier > now THEN "handoff"
    ELSE "owned"
-----------------------------------------------------------------------------
(* The inbox.                                                               *)

InboxStatuses == {"pending", "inflight", "retry_wait", "processed", "dead"}

SourceFields == {"topic", "partition", "offset"}

\* checkInbox on one row: lease and source are the sets of non-NULL columns.
InboxFindings(e, now) ==
    Found(e.status \notin InboxStatuses, "INBOX_STATE_INVALID")
    \cup Found(e.status = "retry_wait", "INBOX_RETRY_WAIT")
    \cup Found(e.status = "dead", "INBOX_DEAD_BLOCKED")
    \cup Found(e.attempts < 0, "INBOX_ATTEMPTS_INVALID")
    \cup Found(e.lease # (IF e.status = "inflight" THEN {"owner", "token", "until"} ELSE {}),
               "INBOX_LEASE_SHAPE_INVALID")
    \cup Found(e.status = "inflight" /\ "until" \in e.lease /\ e.until <= now, "INBOX_STALE_LEASE")
    \cup Found((e.status = "processed") # e.stamped, "INBOX_PROCESSED_TIMESTAMP_INVALID")
    \cup Found(\/ e.source \notin {{}, SourceFields}
               \/ (e.timestamped \/ e.status # "processed") /\ e.source # SourceFields,
               "INBOX_SOURCE_METADATA_INVALID")
=============================================================================
