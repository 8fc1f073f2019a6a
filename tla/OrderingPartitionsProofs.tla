---------------------- MODULE OrderingPartitionsProofs ----------------------
(***************************************************************************)
(* The handoff barrier is correct for every set of relays, partitions and  *)
(* workers and every choice of timeouts, leases and margins that meets     *)
(* MarginCoversDelays.                                                     *)
(***************************************************************************)
EXTENDS OrderingPartitions, TLAPS

\* The latest time at which a fenced publish can still reach the broker.
Limit(w) == attempt[w].begun + SendDelay + PublishTimeout[RelayOf[w]]

\* An open transaction is at most TxDelay old.
TxFresh ==
    \A r \in Relay :
        /\ reconcileAt[r] # NoTx => reconcileAt[r] <= now /\ now <= reconcileAt[r] + TxDelay
        /\ releaseAt[r] # NoTx => releaseAt[r] <= now /\ now <= releaseAt[r] + TxDelay

\* A fenced publish is sent in time and ends by its deadline.
FlightTimed ==
    \A w \in Worker :
        InFlight(w) => attempt[w].begun <= now /\ now <= Limit(w)

SendTimed ==
    \A w \in Worker :
        /\ attempt[w].pc = "begun" => now <= attempt[w].begun + SendDelay
        /\ attempt[w].pc = "sent" => now <= attempt[w].deadline /\ attempt[w].deadline <= Limit(w)

\* An owned row carries its owner's publish window, and its lease was written
\* by the owner's current or an earlier reconcile.
OwnedRow ==
    \A p \in Partition :
        part[p].owner # NoOwner =>
            /\ part[p].window = PublishTimeout[part[p].owner]
            /\ part[p].until <= OrderingLease[part[p].owner] + TxNow(reconcileAt[part[p].owner])

\* A publish in flight belongs to the partition's present owner and ends inside
\* the lease, or was fenced in an earlier epoch and ends before the barrier.
Covered(w) ==
    LET row == part[attempt[w].partition]
    IN  \/ /\ attempt[w].epoch = row.epoch
           /\ row.owner = RelayOf[w]
           /\ Limit(w) < row.until
        \/ /\ attempt[w].epoch < row.epoch
           /\ Limit(w) < row.barrier

FlightCovered == \A w \in Worker : InFlight(w) => Covered(w)

IInv ==
    /\ TypeOK
    /\ TxFresh
    /\ FlightTimed
    /\ SendTimed
    /\ OwnedRow
    /\ FlightCovered
    /\ OneEpochInFlight
-----------------------------------------------------------------------------
\* releaseBarrier never moves a barrier back and covers the window and margin.
LEMMA BarrierFacts ==
    ASSUME NEW t \in Nat, NEW existing \in Nat, NEW window \in Nat, NEW margin \in Nat
    PROVE  /\ ReleaseBarrier(t, existing, window, margin) \in Nat
           /\ ReleaseBarrier(t, existing, window, margin) >= existing
           /\ ReleaseBarrier(t, existing, window, margin) >= t + window + margin
  BY DEF ReleaseBarrier

\* A new epoch of a row: who may own it, and what its barrier covers.
NextEpoch(new, row, r, t) ==
    /\ new.epoch = row.epoch + 1
    /\ new.barrier >= row.barrier
    /\ row.owner # NoOwner => new.barrier >= t + row.window + SafetyMargin[r]
    /\ \/ new.owner = NoOwner
       \/ new.owner = r /\ new.until = t + OrderingLease[r] /\ new.window = PublishTimeout[r]

\* What a release does to the row of its owner.
LEMMA ReleasedRowFacts ==
    ASSUME NEW row \in Row, NEW r \in Relay, NEW t \in Nat
    PROVE  ReleasedRow(row, r, t) \in Row /\ NextEpoch(ReleasedRow(row, r, t), row, r, t)
  <1>1. SafetyMargin[r] \in Nat
    BY ConstantsAssumption
  <1>2. row.barrier \in Nat /\ row.window \in Nat /\ row.epoch \in Nat
    BY DEF Row
  <1> DEFINE b == ReleaseBarrier(t, row.barrier, row.window, SafetyMargin[r])
  <1>3. /\ b \in Nat /\ b >= row.barrier
        /\ b >= t + row.window + SafetyMargin[r]
    BY Zenon, <1>1, <1>2, BarrierFacts
  <1>4. ReleasedRow(row, r, t) =
            [owner |-> NoOwner, until |-> 0, epoch |-> row.epoch + 1, barrier |-> b,
             window |-> row.window]
    BY DEF ReleasedRow
  <1> HIDE DEF b
  <1> QED
    BY <1>2, <1>3, <1>4 DEF NextEpoch, Row, Owner

\* One reconciled row is kept, renewed in its epoch, or put in a new epoch.
LEMMA ReconciledRowFacts ==
    ASSUME NEW row \in Row, NEW r \in Relay, NEW d \in Owner, NEW t \in Nat,
           NEW new, new = ReconciledRow(row, r, d, t)
    PROVE  /\ new \in Row
           /\ \/ new = row
              \/ row.owner = r /\ new = RenewedRow(row, r, t)
              \/ NextEpoch(new, row, r, t)
  <1>1. /\ SafetyMargin[r] \in Nat /\ PublishTimeout[r] \in Nat /\ OrderingLease[r] \in Nat
        /\ r # NoOwner
    BY ConstantsAssumption
  <1>2. /\ row.barrier \in Nat /\ row.window \in Nat /\ row.epoch \in Nat /\ row.until \in Nat
        /\ row.owner \in Owner
    BY DEF Row
  <1>3. CASE row.owner = r /\ d # r
    <2>1. new = ReleasedRow(row, r, t)
      BY <1>3 DEF ReconciledRow
    <2> QED
      BY <2>1, ReleasedRowFacts
  <1>4. CASE row.owner = r /\ d = r /\ row.until > t
    <2>1. new = RenewedRow(row, r, t)
      BY <1>4, <1>1, <1>2 DEF ReconciledRow
    <2> QED
      BY <2>1, <1>1, <1>2, <1>4 DEF RenewedRow, Row, Owner
  <1>5. CASE d = r /\ (row.owner = NoOwner \/ row.until <= t)
    <2>1. new = AcquiredRow(row, r, t)
      BY <1>5, <1>1, <1>2 DEF ReconciledRow
    <2> DEFINE b == ReleaseBarrier(t, row.barrier, row.window, SafetyMargin[r])
    <2>2. /\ b \in Nat /\ b >= row.barrier
          /\ b >= t + row.window + SafetyMargin[r]
      BY Zenon, <1>1, <1>2, BarrierFacts
    <2>3. new.barrier = IF row.owner = NoOwner THEN row.barrier ELSE b
      BY <2>1 DEF AcquiredRow
    <2> HIDE DEF b
    <2>4. new \in Row
      BY <2>1, <2>2, <2>3, <1>1, <1>2 DEF AcquiredRow, Row, Owner
    <2> QED
      BY <2>1, <2>2, <2>3, <2>4, <1>2 DEF AcquiredRow, NextEpoch
  <1>6. CASE ~(row.owner = r /\ d # r) /\ ~(row.owner = r /\ d = r /\ row.until > t)
             /\ ~(d = r /\ (row.owner = NoOwner \/ row.until <= t))
    BY <1>6 DEF ReconciledRow
  <1> QED
    BY <1>3, <1>4, <1>5, <1>6
-----------------------------------------------------------------------------
\* The row stays in its epoch, with at least as long a lease.
SameEpoch(new, row) ==
    /\ new.epoch = row.epoch
    /\ new.owner = row.owner
    /\ new.barrier = row.barrier
    /\ new.until >= row.until

\* The heart of the handoff: a transaction of r that read the clock at t keeps
\* or covers every publish in flight, because the margin exceeds its delay.
LEMMA RowsCover ==
    ASSUME IInv, NEW r \in Relay, NEW t \in Nat, t <= now, now <= t + TxDelay,
           attempt' = attempt,
           \A p \in Partition : /\ part'[p] \in Row
                                /\ \/ SameEpoch(part'[p], part[p])
                                   \/ NextEpoch(part'[p], part[p], r, t)
    PROVE  FlightCovered'
  <1> SUFFICES ASSUME NEW w \in Worker, InFlight(w)
               PROVE  Covered(w)'
    BY DEF FlightCovered, InFlight
  <1> DEFINE p == attempt[w].partition
  <1>1. /\ p \in Partition /\ attempt[w].epoch \in Nat /\ attempt[w].begun \in Nat
        /\ attempt[w].begun <= now /\ Covered(w) /\ RelayOf[w] \in Relay
        /\ now \in Nat /\ part[p] \in Row
    BY ConstantsAssumption DEF IInv, TypeOK, InFlight, Begun, Sent, Claimed, Idle,
                               FlightTimed, FlightCovered
  <1>2. /\ PublishTimeout[RelayOf[w]] \in Nat /\ SafetyMargin[r] \in Nat
        /\ TxDelay \in Nat /\ SendDelay \in Nat /\ TxDelay + SendDelay < SafetyMargin[r]
        /\ RelayOf[w] # NoOwner
    BY <1>1, ConstantsAssumption, MarginCoversDelays
  <1>3. part[p].owner = RelayOf[w] => part[p].window = PublishTimeout[RelayOf[w]]
    BY <1>1, <1>2 DEF IInv, OwnedRow, TxNow
  <1>4. Limit(w) = attempt[w].begun + SendDelay + PublishTimeout[RelayOf[w]]
        /\ Limit(w)' = Limit(w)
    BY DEF Limit
  <1>5. /\ part[p].epoch \in Nat /\ part[p].until \in Nat /\ part[p].barrier \in Nat
        /\ part'[p].epoch \in Nat /\ part'[p].until \in Nat /\ part'[p].barrier \in Nat
        /\ part[p].window \in Nat
    BY <1>1 DEF Row
  <1>6. CASE SameEpoch(part'[p], part[p])
    BY <1>1, <1>2, <1>4, <1>5, <1>6 DEF SameEpoch, Covered
  <1>7. CASE NextEpoch(part'[p], part[p], r, t)
    <2>1. CASE attempt[w].epoch = part[p].epoch /\ part[p].owner = RelayOf[w]
      <3>1. part'[p].barrier >= t + PublishTimeout[RelayOf[w]] + SafetyMargin[r]
        BY <1>2, <1>3, <1>7, <2>1 DEF NextEpoch
      <3>2. Limit(w) < part'[p].barrier
        BY <1>1, <1>2, <1>4, <1>5, <3>1
      <3> QED
        BY <1>1, <1>4, <1>5, <1>7, <2>1, <3>2 DEF NextEpoch, Covered
    <2>2. CASE attempt[w].epoch < part[p].epoch /\ Limit(w) < part[p].barrier
      BY <1>1, <1>2, <1>4, <1>5, <1>7, <2>2 DEF NextEpoch, Covered
    <2> QED
      BY <1>1, <2>1, <2>2 DEF Covered
  <1> QED
    BY <1>1, <1>6, <1>7
-----------------------------------------------------------------------------
\* A transaction's clock is at most TxDelay behind.
LEMMA TxNowFacts ==
    ASSUME IInv, NEW r \in Relay
    PROVE  /\ TxNow(reconcileAt[r]) \in Nat /\ TxNow(reconcileAt[r]) <= now
           /\ now <= TxNow(reconcileAt[r]) + TxDelay
           /\ TxNow(releaseAt[r]) \in Nat /\ TxNow(releaseAt[r]) <= now
           /\ now <= TxNow(releaseAt[r]) + TxDelay
  BY ConstantsAssumption DEF IInv, TypeOK, TxFresh, TxNow

\* The seeded partitions satisfy the inductive invariant.
LEMMA InitIInv == Init => IInv
  <1> SUFFICES ASSUME Init PROVE IInv
    OBVIOUS
  <1>1. \A w \in Worker : attempt[w] = Idle /\ ~InFlight(w) /\ attempt[w].pc = "idle"
    BY DEF Init, InFlight, Idle
  <1>2. TypeOK
    BY <1>1 DEF Init, TypeOK, Row, Owner, SeedRow
  <1>3. TxFresh
    BY Zenon DEF Init, TxFresh
  <1>4. OwnedRow
    BY DEF Init, OwnedRow, SeedRow
  <1> QED
    BY <1>1, <1>2, <1>3, <1>4 DEF IInv, FlightTimed, SendTimed, FlightCovered, OneEpochInFlight

\* Steps that leave the attempts and the clock alone keep what speaks of them.
LEMMA AttemptsKept ==
    ASSUME IInv, now' = now, attempt' = attempt
    PROVE  FlightTimed' /\ SendTimed' /\ OneEpochInFlight'
  BY DEF IInv, FlightTimed, SendTimed, OneEpochInFlight, InFlight, Limit

\* Opening or rolling back a transaction changes no row and no publish.
LEMMA TransactionOpened ==
    ASSUME IInv, NEW r \in Relay, ReconcileBegin(r) \/ ReleaseBegin(r)
    PROVE  IInv'
  <1> USE DEF IInv, ReconcileBegin, ReleaseBegin
  <1>1. TypeOK'
    BY DEF TypeOK
  <1>2. TxFresh'
    BY ConstantsAssumption DEF TypeOK, TxFresh
  <1>3. OwnedRow'
    BY ConstantsAssumption DEF TypeOK, OwnedRow, Row, Owner, TxNow
  <1>4. FlightCovered'
    BY DEF FlightCovered, Covered, InFlight, Limit
  <1> QED
    BY <1>1, <1>2, <1>3, <1>4, AttemptsKept

\* Closing a transaction leaves every lease within its bound.
LEMMA OwnedRowKept ==
    ASSUME IInv, part' = part, now' = now,
           \A r \in Relay : reconcileAt'[r] = reconcileAt[r] \/ reconcileAt'[r] = NoTx
    PROVE  OwnedRow'
  <1> SUFFICES ASSUME NEW p \in Partition, part[p].owner # NoOwner
               PROVE  /\ part[p].window = PublishTimeout[part[p].owner]
                      /\ part[p].until <= OrderingLease[part[p].owner] +
                             (IF reconcileAt'[part[p].owner] = NoTx THEN now
                              ELSE reconcileAt'[part[p].owner])
    BY DEF OwnedRow, TxNow
  <1> DEFINE o == part[p].owner
  <1>1. o \in Relay /\ part[p].until \in Nat /\ OrderingLease[o] \in Nat /\ now \in Nat
    BY ConstantsAssumption DEF IInv, TypeOK, Row, Owner
  <1>2. /\ part[p].window = PublishTimeout[o]
        /\ part[p].until <= OrderingLease[o] + (IF reconcileAt[o] = NoTx THEN now ELSE reconcileAt[o])
    BY DEF IInv, OwnedRow, TxNow
  <1>3. reconcileAt[o] # NoTx => reconcileAt[o] \in Nat /\ reconcileAt[o] <= now
    BY <1>1 DEF IInv, TypeOK, TxFresh
  <1>4. reconcileAt'[o] = reconcileAt[o] \/ reconcileAt'[o] = NoTx
    BY <1>1
  <1> HIDE DEF o
  <1> QED
    BY <1>1, <1>2, <1>3, <1>4 DEF o, NoTx

\* A rolled-back transaction changes no partition.
LEMMA TransactionFails ==
    ASSUME IInv, NEW r \in Relay, ReconcileFails(r) \/ ReleaseFails(r)
    PROVE  IInv'
  <1> USE DEF IInv, ReconcileFails, ReleaseFails
  <1>1. TypeOK'
    BY DEF TypeOK
  <1>2. TxFresh'
    BY DEF TypeOK, TxFresh
  <1>3. OwnedRow'
    BY OwnedRowKept DEF TypeOK
  <1>4. FlightCovered'
    BY DEF FlightCovered, Covered, InFlight, Limit
  <1> QED
    BY <1>1, <1>2, <1>3, <1>4, AttemptsKept

\* A reconcile's barriers cover every publish of the epochs it ends.
LEMMA ReconcileKeeps ==
    ASSUME IInv, NEW r \in Relay, NEW desired \in [Partition -> Owner], Reconcile(r, desired)
    PROVE  IInv'
  <1> DEFINE t == TxNow(reconcileAt[r])
  <1>1. /\ t \in Nat /\ t <= now /\ now <= t + TxDelay /\ now \in Nat
        /\ OrderingLease[r] \in Nat /\ PublishTimeout[r] \in Nat /\ r # NoOwner
        /\ reconcileAt'[r] = NoTx /\ now' = now /\ attempt' = attempt
        /\ \A q \in Relay : q # r => reconcileAt'[q] = reconcileAt[q]
    BY Zenon, ConstantsAssumption, TxNowFacts DEF IInv, TypeOK, Reconcile
  <1>2. \A p \in Partition :
            /\ part'[p] \in Row
            /\ \/ part'[p] = part[p]
               \/ part[p].owner = r /\ part'[p] = RenewedRow(part[p], r, t)
               \/ NextEpoch(part'[p], part[p], r, t)
    <2> TAKE p \in Partition
    <2>1. part[p] \in Row /\ desired[p] \in Owner
      BY DEF IInv, TypeOK
    <2>2. part'[p] = ReconciledRow(part[p], r, desired[p], t)
      BY DEF Reconcile
    <2> QED
      BY <1>1, <2>1, <2>2, ReconciledRowFacts
  <1>3. TypeOK'
    <2>1. part' \in [Partition -> Row]
      BY <1>2 DEF Reconcile
    <2> QED
      BY <2>1 DEF IInv, TypeOK, Reconcile
  <1>4. TxFresh'
    BY DEF IInv, TypeOK, TxFresh, Reconcile
  <1>5. \A p \in Partition : /\ part'[p] \in Row
                             /\ \/ SameEpoch(part'[p], part[p])
                                \/ NextEpoch(part'[p], part[p], r, t)
    <2> TAKE p \in Partition
    <2>1. part[p] \in Row /\ part[p].until \in Nat
      BY DEF IInv, TypeOK, Row
    <2>2. part[p].owner = r => part[p].until <= OrderingLease[r] + t
      BY <1>1 DEF IInv, OwnedRow, Reconcile
    <2>3. part[p].owner = r /\ part'[p] = RenewedRow(part[p], r, t) => SameEpoch(part'[p], part[p])
      BY <1>1, <2>1, <2>2 DEF RenewedRow, SameEpoch
    <2>4. part'[p] = part[p] => SameEpoch(part'[p], part[p])
      BY <2>1 DEF SameEpoch
    <2> QED
      BY <1>2, <2>3, <2>4
  <1>6. FlightCovered'
    BY <1>1, <1>5, RowsCover
  <1>7. OwnedRow'
    <2> SUFFICES ASSUME NEW p \in Partition, part'[p].owner # NoOwner
                 PROVE  /\ part'[p].window = PublishTimeout[part'[p].owner]
                        /\ part'[p].until <= OrderingLease[part'[p].owner] +
                               (IF reconcileAt'[part'[p].owner] = NoTx THEN now'
                                ELSE reconcileAt'[part'[p].owner])
      BY DEF OwnedRow, TxNow
    <2>0. part[p] \in Row /\ part[p].owner \in Owner /\ part[p].until \in Nat
      BY DEF IInv, TypeOK, Row
    <2>1. CASE part'[p] = part[p] /\ part[p].owner # r
      BY <1>1, <2>0, <2>1 DEF IInv, OwnedRow, Owner, TxNow
    <2>2. CASE part'[p] = part[p] /\ part[p].owner = r
      BY <1>1, <2>0, <2>2 DEF IInv, OwnedRow
    <2>3. CASE part[p].owner = r /\ part'[p] = RenewedRow(part[p], r, t)
      BY <1>1, <2>0, <2>3 DEF RenewedRow
    <2>4. CASE NextEpoch(part'[p], part[p], r, t)
      BY SMTT(30), <1>1, <2>4 DEF NextEpoch
    <2> QED
      BY <1>2, <2>1, <2>2, <2>3, <2>4
  <1> QED
    BY <1>1, <1>3, <1>4, <1>6, <1>7, AttemptsKept DEF IInv

\* So do the barriers of a release.
LEMMA ReleaseKeeps ==
    ASSUME IInv, NEW r \in Relay, Release(r)
    PROVE  IInv'
  <1> DEFINE t == TxNow(releaseAt[r])
  <1>1. /\ t \in Nat /\ t <= now /\ now <= t + TxDelay
        /\ now' = now /\ attempt' = attempt /\ reconcileAt' = reconcileAt
    BY TxNowFacts DEF Release
  <1>2. \A p \in Partition :
            /\ part'[p] \in Row
            /\ \/ part'[p] = part[p]
               \/ NextEpoch(part'[p], part[p], r, t) /\ part'[p].owner = NoOwner
    <2> TAKE p \in Partition
    <2>1. part[p] \in Row
      BY DEF IInv, TypeOK
    <2>2. part'[p] = part[p] \/ part'[p] = ReleasedRow(part[p], r, t)
      BY DEF Release
    <2>3. ReleasedRow(part[p], r, t).owner = NoOwner
      BY DEF ReleasedRow
    <2> QED
      BY <1>1, <2>1, <2>2, <2>3, ReleasedRowFacts
  <1>3. TypeOK'
    <2>1. part' \in [Partition -> Row]
      BY <1>2 DEF Release
    <2> QED
      BY <2>1 DEF IInv, TypeOK, Release
  <1>4. TxFresh'
    BY DEF IInv, TypeOK, TxFresh, Release
  <1>5. \A p \in Partition : /\ part'[p] \in Row
                             /\ \/ SameEpoch(part'[p], part[p])
                                \/ NextEpoch(part'[p], part[p], r, t)
    <2>1. \A p \in Partition : part[p].until \in Nat
      BY DEF IInv, TypeOK, Row
    <2> QED
      BY <1>2, <2>1 DEF SameEpoch
  <1>6. FlightCovered'
    BY <1>1, <1>5, RowsCover
  <1>7. OwnedRow'
    BY <1>1, <1>2 DEF IInv, OwnedRow, TxNow
  <1> QED
    BY <1>1, <1>3, <1>4, <1>6, <1>7, AttemptsKept DEF IInv

\* Steps of a worker, and of the clock, leave the rows and transactions alone.
LEMMA RowsKept ==
    ASSUME IInv, now' = now, UNCHANGED <<part, reconcileAt, releaseAt, releaseSeen>>
    PROVE  TxFresh' /\ OwnedRow'
  BY DEF IInv, TxFresh, OwnedRow, TxNow

\* Dropping attempts, or replacing one by an attempt not in flight, is harmless.
LEMMA FewerInFlight ==
    ASSUME IInv, now' = now, part' = part,
           \A w \in Worker : \/ attempt'[w] = attempt[w]
                             \/ attempt'[w].pc \in {"idle", "claimed"}
    PROVE  FlightTimed' /\ SendTimed' /\ FlightCovered' /\ OneEpochInFlight'
  <1>1. \A w \in Worker : attempt'[w].pc \in {"begun", "sent"} => attempt'[w] = attempt[w]
    OBVIOUS
  <1>2. FlightTimed' /\ FlightCovered'
    BY <1>1 DEF IInv, FlightTimed, FlightCovered, Covered, InFlight, Limit
  <1>3. SendTimed'
    BY <1>1 DEF IInv, SendTimed, Limit
  <1>4. OneEpochInFlight'
    BY <1>1 DEF IInv, OneEpochInFlight, InFlight
  <1> QED
    BY <1>2, <1>3, <1>4

\* A claim puts nothing in flight.
LEMMA ClaimKeeps ==
    ASSUME IInv, NEW w \in Worker, NEW p \in Partition, Claim(w, p)
    PROVE  IInv'
  <1>1. TypeOK'
    BY DEF IInv, TypeOK, Claim, Claimed, Row
  <1>2. \A v \in Worker : attempt'[v] = attempt[v] \/ attempt'[v].pc \in {"idle", "claimed"}
    BY DEF IInv, TypeOK, Claim
  <1> QED
    BY <1>1, <1>2, RowsKept, FewerInFlight DEF IInv, Claim

\* A finished attempt takes a publish out of flight.
LEMMA FinishKeeps ==
    ASSUME IInv, NEW w \in Worker, Finish(w)
    PROVE  IInv'
  <1>1. TypeOK'
    BY DEF IInv, TypeOK, Finish
  <1>2. \A v \in Worker : attempt'[v] = attempt[v] \/ attempt'[v].pc \in {"idle", "claimed"}
    BY DEF IInv, TypeOK, Finish, Idle
  <1> QED
    BY <1>1, <1>2, RowsKept, FewerInFlight DEF IInv, Finish

\* A crash leaves only requests that were sent.
LEMMA CrashKeeps ==
    ASSUME IInv, NEW r \in Relay, Crash(r)
    PROVE  IInv'
  <1>1. TypeOK'
    BY DEF IInv, TypeOK, Crash
  <1>2. \A v \in Worker : attempt'[v] = attempt[v] \/ attempt'[v].pc \in {"idle", "claimed"}
    BY DEF Crash, Idle
  <1>3. FlightTimed' /\ SendTimed' /\ FlightCovered' /\ OneEpochInFlight'
    BY <1>2, FewerInFlight DEF Crash
  <1>4. TxFresh'
    BY DEF IInv, TypeOK, TxFresh, Crash
  <1>5. OwnedRow'
    BY OwnedRowKept DEF IInv, TypeOK, Crash
  <1> QED
    BY <1>1, <1>3, <1>4, <1>5 DEF IInv

\* A publish can only be fenced when every older one has ended: the barrier has
\* passed, and the barrier is after the end of whatever it covers.
LEMMA BeginKeeps ==
    ASSUME IInv, NEW w \in Worker, Begin(w)
    PROVE  IInv'
  <1> DEFINE a == attempt[w]
             p == attempt[w].partition
             P == PublishTimeout[RelayOf[w]]
             M == SafetyMargin[RelayOf[w]]
  <1>1. /\ a.pc = "claimed" /\ p \in Partition /\ a.epoch \in Nat
        /\ now \in Nat /\ now' = now /\ part' = part
        /\ part[p].owner = RelayOf[w] /\ part[p].epoch = a.epoch
        /\ part[p].until >= now + P + M /\ part[p].barrier <= now
        /\ part[p] \in Row
    BY DEF IInv, TypeOK, Begin, MayPublish, Claimed, Begun, Sent, Idle
  <1>2. /\ P \in Nat /\ M \in Nat /\ SendDelay \in Nat /\ TxDelay \in Nat
        /\ TxDelay + SendDelay < M
    BY ConstantsAssumption, MarginCoversDelays
  <1>3. part[p].until \in Nat /\ part[p].barrier \in Nat /\ part[p].epoch \in Nat
    BY <1>1 DEF Row
  <1>4. attempt'[w] = [pc |-> "begun", partition |-> p, epoch |-> a.epoch, begun |-> now]
        /\ \A v \in Worker : v # w => attempt'[v] = attempt[v]
    BY DEF IInv, TypeOK, Begin
  <1>5. TypeOK'
    BY <1>1 DEF IInv, TypeOK, Begin, Begun
  <1>6. Limit(w)' = now + SendDelay + P
    BY <1>4 DEF Limit
  <1>7. FlightTimed'
    BY <1>1, <1>2, <1>4, <1>6 DEF IInv, FlightTimed, InFlight, Limit
  <1>8. SendTimed'
    BY <1>1, <1>2, <1>4 DEF IInv, SendTimed, Limit
  <1>9. FlightCovered'
    <2>1. Covered(w)'
      BY SMTT(30), <1>1, <1>2, <1>3, <1>4, <1>6 DEF Covered
    <2> QED
      BY SMTT(30), <1>1, <1>4, <2>1 DEF IInv, FlightCovered, Covered, InFlight, Limit
  <1>10. ASSUME NEW v \in Worker, v # w, InFlight(v), attempt[v].partition = p
         PROVE  attempt[v].epoch = a.epoch
    <2>1. /\ attempt[v].epoch \in Nat /\ attempt[v].begun \in Nat
          /\ PublishTimeout[RelayOf[v]] \in Nat
      BY <1>10, ConstantsAssumption DEF IInv, TypeOK, InFlight, Claimed, Begun, Sent, Idle
    <2>2. now <= Limit(v) /\ Covered(v)
      BY <1>10 DEF IInv, FlightTimed, FlightCovered
    <2>3. Limit(v) \in Nat
      BY <1>2, <2>1 DEF Limit
    <2>4. ~(Limit(v) < part[p].barrier)
      BY <1>1, <1>3, <2>2, <2>3
    <2> QED
      BY <1>1, <1>10, <2>2, <2>4 DEF Covered
  <1>11. OneEpochInFlight'
    BY <1>4, <1>10 DEF IInv, OneEpochInFlight, InFlight
  <1> QED
    BY <1>5, <1>7, <1>8, <1>9, <1>11, RowsKept DEF IInv, Begin

\* A request is sent with a deadline inside the lease.
LEMMA SendKeeps ==
    ASSUME IInv, NEW w \in Worker, Send(w)
    PROVE  IInv'
  <1> DEFINE a == attempt[w]
             P == PublishTimeout[RelayOf[w]]
  <1>1. /\ a.pc = "begun" /\ a.partition \in Partition /\ a.epoch \in Nat /\ a.begun \in Nat
        /\ now \in Nat /\ now' = now /\ part' = part /\ InFlight(w)
        /\ a.begun <= now /\ now <= a.begun + SendDelay
    BY DEF IInv, TypeOK, Send, InFlight, FlightTimed, SendTimed, Claimed, Begun, Sent, Idle
  <1>2. P \in Nat /\ SendDelay \in Nat
    BY ConstantsAssumption
  <1>3. attempt'[w] = [pc |-> "sent", partition |-> a.partition, epoch |-> a.epoch,
                       begun |-> a.begun, deadline |-> now + P]
        /\ \A v \in Worker : v # w => attempt'[v] = attempt[v]
    BY DEF IInv, TypeOK, Send
  <1>4. TypeOK'
    BY <1>1, <1>2 DEF IInv, TypeOK, Send, Sent
  <1>5. Limit(w)' = Limit(w) /\ Limit(w) = a.begun + SendDelay + P
    BY <1>3 DEF Limit
  <1>6. FlightTimed'
    BY <1>1, <1>3, <1>5 DEF IInv, FlightTimed, InFlight, Limit
  <1>7. SendTimed'
    BY <1>1, <1>2, <1>3, <1>5 DEF IInv, SendTimed, Limit
  <1>8. FlightCovered'
    BY <1>1, <1>3, <1>5 DEF IInv, FlightCovered, Covered, InFlight, Limit
  <1>9. OneEpochInFlight'
    BY <1>1, <1>3 DEF IInv, OneEpochInFlight, InFlight
  <1> QED
    BY <1>4, <1>6, <1>7, <1>8, <1>9, RowsKept DEF IInv, Send

\* Time passes no bound of an open transaction or publish.
LEMMA TickKeeps ==
    ASSUME IInv, Tick
    PROVE  IInv'
  <1>1. now \in Nat /\ now' = now + 1 /\ part' = part /\ attempt' = attempt
        /\ reconcileAt' = reconcileAt /\ releaseAt' = releaseAt /\ releaseSeen' = releaseSeen
    BY DEF IInv, TypeOK, Tick
  <1>2. TypeOK'
    BY <1>1 DEF IInv, TypeOK
  <1>3. TxFresh'
    BY <1>1, ConstantsAssumption DEF IInv, TypeOK, TxFresh, Tick, NoTx
  <1>4. ASSUME NEW w \in Worker, InFlight(w)
        PROVE  /\ attempt[w].begun <= now' /\ now' <= Limit(w)
               /\ attempt[w].pc = "begun" => now' <= attempt[w].begun + SendDelay
               /\ attempt[w].pc = "sent" => now' <= attempt[w].deadline
    <2>1. /\ attempt[w].begun \in Nat /\ attempt[w].begun <= now
          /\ PublishTimeout[RelayOf[w]] \in Nat /\ SendDelay \in Nat
          /\ attempt[w].pc = "sent" => attempt[w].deadline \in Nat
      BY <1>4, ConstantsAssumption
      DEF IInv, TypeOK, InFlight, FlightTimed, Claimed, Begun, Sent, Idle
    <2>2. /\ attempt[w].pc = "begun" => now < attempt[w].begun + SendDelay
          /\ attempt[w].pc = "sent" => now < attempt[w].deadline /\ attempt[w].deadline <= Limit(w)
      BY DEF IInv, SendTimed, Tick
    <2>3. attempt[w].pc = "begun" \/ attempt[w].pc = "sent"
      BY <1>4 DEF InFlight
    <2> QED
      BY <1>1, <2>1, <2>2, <2>3 DEF Limit
  <1>5. FlightTimed' /\ FlightCovered' /\ OneEpochInFlight'
    BY <1>1, <1>4 DEF IInv, FlightTimed, FlightCovered, OneEpochInFlight, Covered, InFlight, Limit
  <1>6. SendTimed'
    BY <1>1, <1>4 DEF IInv, SendTimed, InFlight, Limit
  <1>7. OwnedRow'
    BY <1>1, ConstantsAssumption DEF IInv, TypeOK, OwnedRow, Row, Owner, TxNow, NoTx
  <1> QED
    BY <1>2, <1>3, <1>5, <1>6, <1>7 DEF IInv
-----------------------------------------------------------------------------
\* Every step keeps the inductive invariant.
LEMMA NextIInv == IInv /\ [Next]_vars => IInv'
  <1> SUFFICES ASSUME IInv, [Next]_vars PROVE IInv'
    OBVIOUS
  <1>1. CASE \E r \in Relay : ReconcileBegin(r) \/ ReleaseBegin(r)
    BY <1>1, TransactionOpened
  <1>2. CASE \E r \in Relay, desired \in [Partition -> Owner] : Reconcile(r, desired)
    BY <1>2, ReconcileKeeps
  <1>3. CASE \E r \in Relay : ReconcileFails(r) \/ ReleaseFails(r)
    BY <1>3, TransactionFails
  <1>4. CASE \E r \in Relay : Release(r)
    BY <1>4, ReleaseKeeps
  <1>5. CASE \E w \in Worker, p \in Partition : Claim(w, p)
    BY <1>5, ClaimKeeps
  <1>6. CASE \E w \in Worker : Begin(w)
    BY <1>6, BeginKeeps
  <1>7. CASE \E w \in Worker : Send(w)
    BY <1>7, SendKeeps
  <1>8. CASE \E w \in Worker : Finish(w)
    BY <1>8, FinishKeeps
  <1>9. CASE \E r \in Relay : Crash(r)
    BY <1>9, CrashKeeps
  <1>10. CASE Tick
    BY SMTT(30), <1>10, TickKeeps
  <1>11. CASE UNCHANGED vars
    BY <1>11 DEF vars, IInv, TypeOK, TxFresh, FlightTimed, SendTimed, OwnedRow, FlightCovered,
                 OneEpochInFlight, Covered, InFlight, Limit, TxNow
  <1> QED
    BY <1>1, <1>2, <1>3, <1>4, <1>5, <1>6, <1>7, <1>8, <1>9, <1>10, <1>11 DEF Next

\* The inductive invariant holds in every reachable state.
THEOREM Invariance == Spec => []IInv
  BY InitIInv, NextIInv, PTL DEF Spec

\* The rows, transactions and attempts keep the types their actions assume.
THEOREM TypeCorrect == Spec => []TypeOK
  <1>1. IInv => TypeOK
    BY DEF IInv
  <1> QED
    BY <1>1, Invariance, PTL

\* For every set of relays and every timing that meets MarginCoversDelays, the
\* handoff barrier keeps the publishes of two ownership epochs apart.
THEOREM HandoffSafe == Spec => []OneEpochInFlight
  <1>1. IInv => OneEpochInFlight
    BY DEF IInv
  <1> QED
    BY <1>1, Invariance, PTL

\* A sent request of the current epoch ends before its owner's lease does.
THEOREM LeaseCoversSend == Spec => []SentInsideLease
  <1>1. IInv => SentInsideLease
    <2> SUFFICES ASSUME IInv, NEW w \in Worker, attempt[w].pc = "sent",
                        part[attempt[w].partition].epoch = attempt[w].epoch
                 PROVE  /\ part[attempt[w].partition].owner = RelayOf[w]
                        /\ attempt[w].deadline < part[attempt[w].partition].until
      BY DEF SentInsideLease
    <2> DEFINE row == part[attempt[w].partition]
    <2>1. /\ attempt[w].partition \in Partition /\ attempt[w].epoch \in Nat
          /\ attempt[w].begun \in Nat /\ attempt[w].deadline \in Nat
      BY DEF IInv, TypeOK, Claimed, Begun, Sent, Idle
    <2>2. row.until \in Nat /\ row.epoch \in Nat
      BY <2>1 DEF IInv, TypeOK, Row
    <2>3. Covered(w) /\ attempt[w].deadline <= Limit(w)
      BY DEF IInv, FlightCovered, InFlight, SendTimed
    <2>4. row.owner = RelayOf[w] /\ Limit(w) < row.until
      BY <2>2, <2>3 DEF Covered
    <2>5. Limit(w) \in Nat
      BY <2>1, ConstantsAssumption DEF Limit
    <2> QED
      BY <2>1, <2>2, <2>3, <2>4, <2>5
  <1> QED
    BY <1>1, Invariance, PTL

\* No step takes an epoch back, and a change of owner is a new epoch.
LEMMA EpochsGrow ==
    ASSUME IInv, [Next]_vars, NEW p \in Partition
    PROVE  /\ part'[p].epoch >= part[p].epoch
           /\ part'[p].owner # part[p].owner => part'[p].epoch > part[p].epoch
  <1>1. part[p] \in Row /\ part[p].epoch \in Nat
    BY SMTT(30) DEF IInv, TypeOK, Row
  <1>2. \/ part' = part
        \/ \E r \in Relay, desired \in [Partition -> Owner] : Reconcile(r, desired)
        \/ \E r \in Relay : Release(r)
    BY SMTT(30) DEF Next, vars, ReconcileBegin, ReconcileFails, ReleaseBegin, ReleaseFails, Claim, Begin,
           Send, Finish, Crash, Tick
  <1>3. ASSUME NEW r \in Relay, NEW desired \in [Partition -> Owner], Reconcile(r, desired)
        PROVE  /\ part'[p].epoch >= part[p].epoch
               /\ part'[p].owner # part[p].owner => part'[p].epoch > part[p].epoch
    <2>1. TxNow(reconcileAt[r]) \in Nat
      BY TxNowFacts
    <2>2. part'[p] = ReconciledRow(part[p], r, desired[p], TxNow(reconcileAt[r]))
      BY <1>3 DEF Reconcile
    <2>3. desired[p] \in Owner
      OBVIOUS
    <2>4. \/ part'[p] = part[p]
          \/ part[p].owner = r /\ part'[p] = RenewedRow(part[p], r, TxNow(reconcileAt[r]))
          \/ NextEpoch(part'[p], part[p], r, TxNow(reconcileAt[r]))
      BY <1>1, <2>1, <2>2, <2>3, ReconciledRowFacts
    <2> QED
      BY SMTT(30), <1>1, <2>4 DEF RenewedRow, NextEpoch
  <1>4. ASSUME NEW r \in Relay, Release(r)
        PROVE  /\ part'[p].epoch >= part[p].epoch
               /\ part'[p].owner # part[p].owner => part'[p].epoch > part[p].epoch
    <2>1. part'[p] = part[p] \/ part'[p] = ReleasedRow(part[p], r, TxNow(releaseAt[r]))
      BY <1>4 DEF Release
    <2> QED
      BY <1>1, <2>1 DEF ReleasedRow
  <1> QED
    BY <1>1, <1>2, <1>3, <1>4

\* Every change of owner is a new epoch, so an epoch names one owner for good.
THEOREM EpochIsFence == Spec => EpochNamesOwner
  <1> DEFINE Grows == \A p \in Partition :
                          /\ part'[p].epoch >= part[p].epoch
                          /\ part'[p].owner # part[p].owner => part'[p].epoch > part[p].epoch
  <1>1. IInv /\ [Next]_vars => [Grows]_part
    BY EpochsGrow
  <1> QED
    BY <1>1, Invariance, PTL DEF Spec, EpochNamesOwner
-----------------------------------------------------------------------------
(* What a step does to an attempt.                                         *)

\* An attempt keeps its partition and epoch for as long as it lasts.
LEMMA AttemptKept ==
    ASSUME TypeOK, [Next]_vars, NEW w \in Worker, attempt[w].pc # "idle", attempt'[w].pc # "idle"
    PROVE  /\ attempt'[w].partition = attempt[w].partition
           /\ attempt'[w].epoch = attempt[w].epoch
  <1>0. attempt \in [Worker -> {Idle} \cup Claimed \cup Begun \cup Sent]
    BY DEF TypeOK
  <1>1. CASE UNCHANGED attempt
    BY <1>1
  <1>2. CASE \E v \in Worker, p \in Partition : Claim(v, p)
    <2>1. PICK v \in Worker, p \in Partition : Claim(v, p)
      BY <1>2
    <2>2. attempt[v] = Idle
      BY Zenon, <2>1 DEF Claim
    <2>3. v # w
      BY <2>2 DEF Idle
    <2> QED
      BY Zenon, <1>0, <2>1, <2>3 DEF Claim
  <1>3. CASE \E v \in Worker : Begin(v) \/ Send(v) \/ Finish(v)
    <2>1. PICK v \in Worker : Begin(v) \/ Send(v) \/ Finish(v)
      BY <1>3
    <2>2. v # w => attempt'[w] = attempt[w]
      BY Zenon, <1>0, <2>1 DEF Begin, Send, Finish
    <2>3. ASSUME Begin(w) PROVE /\ attempt'[w].partition = attempt[w].partition
                                /\ attempt'[w].epoch = attempt[w].epoch
      BY Zenon, <1>0, <2>3 DEF Begin
    <2>4. ASSUME Send(w) PROVE /\ attempt'[w].partition = attempt[w].partition
                               /\ attempt'[w].epoch = attempt[w].epoch
      BY Zenon, <1>0, <2>4 DEF Send
    <2>5. ~Finish(w)
      BY <1>0 DEF Finish, Idle
    <2> QED
      BY Zenon, <2>1, <2>2, <2>3, <2>4, <2>5
  <1>4. CASE \E r \in Relay : Crash(r)
    <2>1. attempt'[w] = Idle \/ attempt'[w] = attempt[w]
      BY Zenon, <1>4 DEF Crash
    <2> QED
      BY <2>1 DEF Idle
  <1> QED
    BY <1>1, <1>2, <1>3, <1>4
    DEF Next, vars, ReconcileBegin, Reconcile, ReconcileFails, ReleaseBegin, Release, ReleaseFails, Tick

\* A request enters flight only at BeginOrderedAttempt, in the present epoch.
LEMMA FlightEnters ==
    ASSUME TypeOK, [Next]_vars, NEW w \in Worker, InFlight(w)', ~InFlight(w)
    PROVE  /\ part' = part
           /\ attempt'[w].epoch = part[attempt'[w].partition].epoch
  <1>0. attempt \in [Worker -> {Idle} \cup Claimed \cup Begun \cup Sent]
    BY DEF TypeOK
  <1>1. attempt'[w] # attempt[w]
    BY Zenon DEF InFlight
  <1>2. CASE \E v \in Worker, p \in Partition : Claim(v, p)
    <2>1. PICK v \in Worker, p \in Partition : Claim(v, p)
      BY <1>2
    <2>2. v = w
      BY Zenon, <1>0, <1>1, <2>1 DEF Claim
    <2>3. attempt'[w].pc = "claimed"
      BY Zenon, <1>0, <2>1, <2>2 DEF Claim
    <2> QED
      BY <2>3 DEF InFlight
  <1>3. CASE \E v \in Worker : Begin(v)
    <2>1. PICK v \in Worker : Begin(v)
      BY <1>3
    <2>2. v = w
      BY Zenon, <1>0, <1>1, <2>1 DEF Begin
    <2>3. /\ attempt'[w].partition = attempt[w].partition /\ attempt'[w].epoch = attempt[w].epoch
          /\ part[attempt[w].partition].epoch = attempt[w].epoch /\ part' = part
      BY Zenon, <1>0, <2>1, <2>2 DEF Begin
    <2> QED
      BY Zenon, <2>3
  <1>4. CASE \E v \in Worker : Send(v) \/ Finish(v)
    <2>1. PICK v \in Worker : Send(v) \/ Finish(v)
      BY <1>4
    <2>2. v = w
      BY Zenon, <1>0, <1>1, <2>1 DEF Send, Finish
    <2>3. ~Send(w)
      BY Zenon DEF Send, InFlight
    <2>4. attempt'[w] = Idle
      BY Zenon, <1>0, <2>1, <2>2, <2>3 DEF Finish
    <2> QED
      BY <2>4 DEF InFlight, Idle
  <1>5. CASE \E r \in Relay : Crash(r)
    <2>1. attempt'[w] = Idle
      BY ZenonT(30), <1>1, <1>5 DEF Crash
    <2> QED
      BY <2>1 DEF InFlight, Idle
  <1> QED
    BY <1>1, <1>2, <1>3, <1>4, <1>5
    DEF Next, vars, ReconcileBegin, Reconcile, ReconcileFails, ReleaseBegin, Release, ReleaseFails, Tick

\* lease_owner and lease_until are written together.
LeaseShape == \A p \in Partition : part[p].owner # NoOwner <=> part[p].until # 0

\* A reconcile or a release writes both lease columns or neither.
LEMMA LeaseShapeNext ==
    ASSUME IInv, LeaseShape, [Next]_vars
    PROVE  LeaseShape'
  <1>1. ASSUME NEW r \in Relay, NEW p \in Partition, NEW t \in Nat
        PROVE  /\ ReleasedRow(part[p], r, t).owner = NoOwner
               /\ ReleasedRow(part[p], r, t).until = 0
               /\ RenewedRow(part[p], r, t).owner # NoOwner
               /\ RenewedRow(part[p], r, t).until # 0
               /\ AcquiredRow(part[p], r, t).owner # NoOwner
               /\ AcquiredRow(part[p], r, t).until # 0
    <2>1. t + OrderingLease[r] # 0 /\ r # NoOwner
      BY ConstantsAssumption
    <2>2. ReleasedRow(part[p], r, t).owner = NoOwner /\ ReleasedRow(part[p], r, t).until = 0
      BY Zenon DEF ReleasedRow
    <2>3. RenewedRow(part[p], r, t).owner = r /\ RenewedRow(part[p], r, t).until = t + OrderingLease[r]
      BY Zenon DEF RenewedRow
    <2>4. AcquiredRow(part[p], r, t).owner = r /\ AcquiredRow(part[p], r, t).until = t + OrderingLease[r]
      BY Zenon DEF AcquiredRow
    <2> QED
      BY Zenon, <2>1, <2>2, <2>3, <2>4
  <1>2. CASE \E r \in Relay, desired \in [Partition -> Owner] : Reconcile(r, desired)
    <2>1. PICK r \in Relay, desired \in [Partition -> Owner] : Reconcile(r, desired)
      BY <1>2
    <2> DEFINE t == TxNow(reconcileAt[r])
    <2>2. t \in Nat
      BY TxNowFacts
    <2>3. ASSUME NEW p \in Partition
          PROVE  part'[p].owner # NoOwner <=> part'[p].until # 0
      <3>1. part'[p] = ReconciledRow(part[p], r, desired[p], t)
        BY <2>1 DEF Reconcile
      <3>2. part'[p] \in {part[p], ReleasedRow(part[p], r, t), RenewedRow(part[p], r, t),
                          AcquiredRow(part[p], r, t)}
        BY <3>1 DEF ReconciledRow
      <3> HIDE DEF t
      <3> QED
        BY <1>1, <2>2, <3>2 DEF LeaseShape
    <2> QED
      BY <2>3 DEF LeaseShape
  <1>3. CASE \E r \in Relay : Release(r)
    <2>1. PICK r \in Relay : Release(r)
      BY <1>3
    <2>2. TxNow(releaseAt[r]) \in Nat
      BY TxNowFacts
    <2> QED
      BY <1>1, <2>1, <2>2 DEF Release, LeaseShape
  <1>4. CASE part' = part
    BY <1>4 DEF LeaseShape
  <1> QED
    BY <1>2, <1>3, <1>4
    DEF Next, vars, ReconcileBegin, ReconcileFails, ReleaseBegin, ReleaseFails, Claim, Begin, Send,
        Finish, Crash, Tick
=============================================================================
