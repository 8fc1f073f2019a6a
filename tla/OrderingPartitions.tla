------------------------- MODULE OrderingPartitions -------------------------
(***************************************************************************)
(* The handoff protocol of the virtual partitions: relays reconcile and    *)
(* release partition leases in PostgreSQL transactions while their worker  *)
(* goroutines claim, fence and send ordered publishes that no database     *)
(* fence can recall.                                                       *)
(*                                                                         *)
(* A transaction reads NOW() when it starts and becomes visible when it    *)
(* commits; between the two it may wait for the row locks of other relays. *)
(* A publish is fenced by BeginOrderedAttempt at the database and gets its *)
(* own deadline only when the relay creates the publish context.  TxDelay  *)
(* and SendDelay bound those two gaps; nothing in the code does, and the   *)
(* safety margin has to pay for both (MarginCoversDelays).                 *)
(*                                                                         *)
(* Which relay DesiredOwner picks is left open here: desired ownership is  *)
(* advisory, and the safety of a handoff must not depend on it.            *)
(***************************************************************************)
EXTENDS PartitionRow

CONSTANTS Partition,
          Worker,       \* dispatched goroutines, at most Concurrency per relay
          RelayOf,      \* [Worker -> Relay]
          TxDelay,      \* longest time from a transaction's NOW() to its commit
          SendDelay,    \* longest time from BeginOrderedAttempt to the broker call
          MaxTime,      \* bound on the clock
          MaxEpoch      \* bound on the ownership changes of a partition

NoTx == -1
Idle == [pc |-> "idle"]

VARIABLES now,          \* the PostgreSQL clock
          part,         \* emitlane.ordering_partitions
          reconcileAt,  \* NOW() of the relay's open reconcile transaction
          releaseAt,    \* NOW() of the relay's open release statement
          releaseSeen,  \* the rows that statement's snapshot shows it own
          attempt       \* what each worker is doing

vars == <<now, part, reconcileAt, releaseAt, releaseSeen, attempt>>

Claimed == [pc: {"claimed"}, partition: Partition, epoch: Nat]
Begun   == [pc: {"begun"}, partition: Partition, epoch: Nat, begun: Nat]
Sent    == [pc: {"sent"}, partition: Partition, epoch: Nat, begun: Nat, deadline: Nat]

ASSUME ConstantsAssumption ==
    /\ NoOwner \notin Relay
    /\ RelayOf \in [Worker -> Relay]
    /\ PublishTimeout \in [Relay -> Nat]
    /\ SafetyMargin \in [Relay -> Nat]
    /\ OrderingLease \in [Relay -> Nat \ {0}]
    /\ TxDelay \in Nat /\ SendDelay \in Nat

\* Config.Validate requires a positive margin; that it exceeds the two delays
\* is the timing assumption the protocol rests on.
ASSUME MarginCoversDelays ==
    \A r \in Relay : TxDelay + SendDelay < SafetyMargin[r]

TypeOK ==
    /\ now \in Nat
    /\ part \in [Partition -> Row]
    /\ reconcileAt \in [Relay -> Nat \cup {NoTx}]
    /\ releaseAt \in [Relay -> Nat \cup {NoTx}]
    /\ releaseSeen \in [Relay -> SUBSET Partition]
    /\ attempt \in [Worker -> {Idle} \cup Claimed \cup Begun \cup Sent]

Init ==
    /\ now = 0
    /\ part = [p \in Partition |-> SeedRow]
    /\ reconcileAt = [r \in Relay |-> NoTx]
    /\ releaseAt = [r \in Relay |-> NoTx]
    /\ releaseSeen = [r \in Relay |-> {}]
    /\ attempt = [w \in Worker |-> Idle]
-----------------------------------------------------------------------------
(* Partition transactions.  orderingLoop runs one reconcile at a time.      *)

\* The NOW() of a relay's transaction: read when it was opened, or now for one
\* that opens and commits with no step in between.
TxNow(at) == IF at = NoTx THEN now ELSE at

\* BEGIN, and activeOrderingMembers: NOW() and the members are read before any
\* row is locked.
ReconcileBegin(r) ==
    /\ reconcileAt[r] = NoTx
    /\ reconcileAt' = [reconcileAt EXCEPT ![r] = now]
    /\ UNCHANGED <<now, part, releaseAt, releaseSeen, attempt>>

\* The rows are locked, rewritten with the time read at the start, committed.
Reconcile(r, desired) ==
    /\ part' = [p \in Partition |->
                   ReconciledRow(part[p], r, desired[p], TxNow(reconcileAt[r]))]
    /\ \A p \in Partition : part'[p].epoch <= MaxEpoch
    /\ reconcileAt' = [reconcileAt EXCEPT ![r] = NoTx]
    /\ UNCHANGED <<now, releaseAt, releaseSeen, attempt>>

\* A database error or a cancelled context: the transaction rolls back.
ReconcileFails(r) ==
    /\ reconcileAt[r] # NoTx
    /\ reconcileAt' = [reconcileAt EXCEPT ![r] = NoTx]
    /\ UNCHANGED <<now, part, releaseAt, releaseSeen, attempt>>

\* Run's deferred release on shutdown.  It waits for orderingLoop for ten
\* seconds only, so a reconcile may still be open and win rows the statement's
\* snapshot does not show.
ReleaseBegin(r) ==
    /\ releaseAt[r] = NoTx
    /\ releaseAt' = [releaseAt EXCEPT ![r] = now]
    /\ releaseSeen' = [releaseSeen EXCEPT ![r] = {p \in Partition : part[p].owner = r}]
    /\ UNCHANGED <<now, part, reconcileAt, attempt>>

Release(r) ==
    /\ part' = [p \in Partition |->
                   IF part[p].owner = r /\ (releaseAt[r] = NoTx \/ p \in releaseSeen[r])
                   THEN ReleasedRow(part[p], r, TxNow(releaseAt[r]))
                   ELSE part[p]]
    /\ \A p \in Partition : part'[p].epoch <= MaxEpoch
    /\ releaseAt' = [releaseAt EXCEPT ![r] = NoTx]
    /\ releaseSeen' = [releaseSeen EXCEPT ![r] = {}]
    /\ UNCHANGED <<now, reconcileAt, attempt>>

ReleaseFails(r) ==
    /\ releaseAt[r] # NoTx
    /\ releaseAt' = [releaseAt EXCEPT ![r] = NoTx]
    /\ releaseSeen' = [releaseSeen EXCEPT ![r] = {}]
    /\ UNCHANGED <<now, part, reconcileAt, attempt>>
-----------------------------------------------------------------------------
(* Workers: dispatch, handle.                                               *)

\* ClaimOrdered hands the worker an event and the partition's current epoch.
Claim(w, p) ==
    /\ attempt[w] = Idle
    /\ MayPublish(part[p], RelayOf[w], now)
    /\ attempt' = [attempt EXCEPT ![w] =
                      [pc |-> "claimed", partition |-> p, epoch |-> part[p].epoch]]
    /\ UNCHANGED <<now, part, reconcileAt, releaseAt, releaseSeen>>

\* BeginOrderedAttempt, the last database fence before broker I/O.
Begin(w) ==
    /\ attempt[w].pc = "claimed"
    /\ LET a == attempt[w]
       IN  /\ MayPublish(part[a.partition], RelayOf[w], now)
           /\ part[a.partition].epoch = a.epoch
           /\ attempt' = [attempt EXCEPT ![w] =
                             [pc |-> "begun", partition |-> a.partition,
                              epoch |-> a.epoch, begun |-> now]]
    /\ UNCHANGED <<now, part, reconcileAt, releaseAt, releaseSeen>>

\* The publish context is created and the request leaves.
Send(w) ==
    /\ attempt[w].pc = "begun"
    /\ LET a == attempt[w]
       IN  attempt' = [attempt EXCEPT ![w] =
                          [pc |-> "sent", partition |-> a.partition, epoch |-> a.epoch,
                           begun |-> a.begun,
                           deadline |-> now + PublishTimeout[RelayOf[w]]]]
    /\ UNCHANGED <<now, part, reconcileAt, releaseAt, releaseSeen>>

\* The worker is fenced, fails, is answered, or times out.
Finish(w) ==
    /\ attempt[w] # Idle
    /\ attempt' = [attempt EXCEPT ![w] = Idle]
    /\ UNCHANGED <<now, part, reconcileAt, releaseAt, releaseSeen>>

\* The process dies.  Its transactions roll back and its goroutines are gone,
\* but a request it sent may still reach the broker until the deadline.
Crash(r) ==
    /\ attempt' = [w \in Worker |->
                      IF RelayOf[w] = r /\ attempt[w].pc # "sent" THEN Idle ELSE attempt[w]]
    /\ reconcileAt' = [reconcileAt EXCEPT ![r] = NoTx]
    /\ releaseAt' = [releaseAt EXCEPT ![r] = NoTx]
    /\ releaseSeen' = [releaseSeen EXCEPT ![r] = {}]
    /\ UNCHANGED <<now, part>>

\* Time passes, but not past a bound: an open transaction's commit, the start
\* of a fenced publish, the deadline of a request.
Tick ==
    /\ now < MaxTime
    /\ \A r \in Relay : reconcileAt[r] # NoTx => now < reconcileAt[r] + TxDelay
    /\ \A r \in Relay : releaseAt[r] # NoTx => now < releaseAt[r] + TxDelay
    /\ \A w \in Worker : attempt[w].pc = "begun" => now < attempt[w].begun + SendDelay
    /\ \A w \in Worker : attempt[w].pc = "sent" => now < attempt[w].deadline
    /\ now' = now + 1
    /\ UNCHANGED <<part, reconcileAt, releaseAt, releaseSeen, attempt>>

Next ==
    \/ \E r \in Relay : ReconcileBegin(r)
    \/ \E r \in Relay, desired \in [Partition -> Owner] : Reconcile(r, desired)
    \/ \E r \in Relay : ReconcileFails(r)
    \/ \E r \in Relay : ReleaseBegin(r)
    \/ \E r \in Relay : Release(r)
    \/ \E r \in Relay : ReleaseFails(r)
    \/ \E w \in Worker, p \in Partition : Claim(w, p)
    \/ \E w \in Worker : Begin(w)
    \/ \E w \in Worker : Send(w)
    \/ \E w \in Worker : Finish(w)
    \/ \E r \in Relay : Crash(r)
    \/ Tick

Spec == Init /\ [][Next]_vars
-----------------------------------------------------------------------------
\* A publish that passed the database fence and may still reach the broker.
InFlight(w) == attempt[w].pc \in {"begun", "sent"}

\* The handoff barrier works: at no time can publishes fenced under two
\* different ownership epochs of one partition reach the broker, whatever
\* relays crash, release, lose or take over the partition in between.
OneEpochInFlight ==
    \A v, w \in Worker :
        /\ InFlight(v) /\ InFlight(w)
        /\ attempt[v].partition = attempt[w].partition
        => attempt[v].epoch = attempt[w].epoch

\* The lease check of BeginOrderedAttempt is enough: while the partition stays
\* in the epoch a request was fenced under, the lease outlives the request.
SentInsideLease ==
    \A w \in Worker :
        attempt[w].pc = "sent" =>
            LET row == part[attempt[w].partition]
            IN  row.epoch = attempt[w].epoch =>
                    row.owner = RelayOf[w] /\ attempt[w].deadline < row.until

\* Epochs only grow, and every change of owner bumps the epoch: an epoch names
\* one owner for good, which is what lets a claim carry it as a fencing token.
EpochNamesOwner ==
    [][\A p \in Partition :
          /\ part'[p].epoch >= part[p].epoch
          /\ part'[p].owner # part[p].owner => part'[p].epoch > part[p].epoch]_part

\* docs/ORDERED_DELIVERY.md: when a relay loses a partition the barrier is at
\* least the time of the loss plus the old owner's window plus the margin.
BarrierFromLoss ==
    [][\A p \in Partition, r \in Relay :
          part[p].owner = r /\ part'[p].epoch # part[p].epoch =>
              part'[p].barrier >= now + part[p].window + SafetyMargin[r]]_part
=============================================================================
