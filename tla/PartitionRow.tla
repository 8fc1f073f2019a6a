---------------------------- MODULE PartitionRow ----------------------------
(***************************************************************************)
(* One row of emitlane.ordering_partitions and the functions the store     *)
(* computes on it.  The row is the authority on which relay may publish    *)
(* the ordered streams of a virtual partition.                             *)
(*                                                                         *)
(* Times are ticks of the PostgreSQL clock.  A NULL handoff_not_before is  *)
(* 0: COALESCE(handoff_not_before, '-infinity') <= NOW() then holds at     *)
(* every time.  A NULL publish_timeout_ms is 0, as releaseBarrier and      *)
(* COALESCE(publish_timeout_ms, 0) read it.                                *)
(***************************************************************************)
EXTENDS Integers

CONSTANTS Relay,            \* relay instance IDs
          NoOwner,          \* lease_owner IS NULL, and an empty DesiredOwner
          PublishTimeout,   \* P of each relay: [Relay -> Nat]
          SafetyMargin,     \* M of each relay: [Relay -> Nat]
          OrderingLease     \* OrderingLeaseDuration of each relay

Owner == Relay \cup {NoOwner}

Row == [owner: Owner, until: Nat, epoch: Nat, barrier: Nat, window: Nat]

\* The rows 000003_ordering.up.sql seeds: unowned, epoch 0, no barrier.
SeedRow ==
    [owner |-> NoOwner, until |-> 0, epoch |-> 0, barrier |-> 0, window |-> 0]

ReleaseBarrierNoWindow(t, existing, window, margin) ==
    IF existing > t + margin THEN existing ELSE t + margin

\* releaseBarrier, and the GREATEST(...) of ReleaseOrderingPartitions.
ReleaseBarrier(t, existing, window, margin) ==
    IF existing > t + window + margin THEN existing ELSE t + window + margin

\* What the owner r leaves behind when its transaction read the clock at t.
ReleasedRow(row, r, t) ==
    [owner   |-> NoOwner,
     until   |-> 0,
     epoch   |-> row.epoch + 1,
     barrier |-> ReleaseBarrier(t, row.barrier, row.window, SafetyMargin[r]),
     window  |-> row.window]

RenewedRow(row, r, t) ==
    [owner |-> r, until |-> t + OrderingLease[r], epoch |-> row.epoch,
     barrier |-> row.barrier, window |-> PublishTimeout[r]]

\* An unowned row keeps its barrier; an expired owner's row gets a new one.
AcquiredRow(row, r, t) ==
    [owner   |-> r,
     until   |-> t + OrderingLease[r],
     epoch   |-> row.epoch + 1,
     barrier |-> IF row.owner = NoOwner THEN row.barrier
                 ELSE ReleaseBarrier(t, row.barrier, row.window, SafetyMargin[r]),
     window  |-> PublishTimeout[r]]

\* The switch of ReconcileOrderingPartitions on one locked row.
ReconciledRow(row, r, desired, t) ==
    CASE row.owner = r /\ desired # r                          -> ReleasedRow(row, r, t)
      [] row.owner = r /\ desired = r /\ row.until > t         -> RenewedRow(row, r, t)
      [] desired = r /\ (row.owner = NoOwner \/ row.until <= t) -> AcquiredRow(row, r, t)
      [] OTHER                                                 -> row

\* The partition conditions of ClaimOrdered and BeginOrderedAttempt: the lease
\* covers one publish window and the margin, and the handoff barrier passed.
MayPublish(row, r, t) ==
    /\ row.owner = r
    /\ row.until >= t + PublishTimeout[r] + SafetyMargin[r]
    /\ row.barrier <= t

\* The partition conditions of the three result transitions.
MayRecord(row, r, epoch, t) ==
    /\ row.owner = r
    /\ row.epoch = epoch
    /\ row.until > t
    /\ row.barrier <= t
=============================================================================
