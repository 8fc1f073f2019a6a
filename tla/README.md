# EmitLane in TLA+

EmitLane is a transactional outbox for PostgreSQL and Kafka. A business
transaction inserts events beside its own writes; relays lease the events,
publish them and record the result; a managed consumer applies them once.
This directory holds TLA+ models of that machinery, the TLC configurations that
check them on small instances, and proofs that hold for every instance.

`PROJECT.json` lists components, runs, mutants, hazards, findings, theorems and,
for every definition that models code, the lines it models.

## 1. The system

| part | source | state | operations that change it | model |
|---|---|---|---|---|
| outbox writer | `outbox/` | `outbox_events`, `ordering_streams` | Enqueue (ordered, unordered), stream initialisation | `OrderedDelivery`, `UnorderedRelay` |
| relay scheduler | `relay/relay.go` | active slots, running or draining | claim, dispatch, completion, cancel, drain, stop | `UnorderedRelay` |
| unordered delivery | `relay/relay.go`, `storage/postgres/store.go` | event lease, attempts, status | ClaimBatch, BeginAttempt, Publish, MarkDelivered, MarkRetry, MarkDead, cleanup | `UnorderedRelay` |
| ordering partitions | `storage/postgres/ordering.go`, `relay/ordering.go` | owner, lease, epoch, barrier, publish window per partition | reconcile (renew, take, release), release at shutdown | `PartitionRow`, `OrderingPartitions` |
| ordered delivery | `storage/postgres/ordered_delivery.go`, `relay/relay.go` | stream cursor, event lease, log | ClaimOrdered, BeginOrderedAttempt, the three marks | `OrderedDelivery` |
| managed inbox | `consumer/runtime.go`, `storage/postgres/inbox.go`, `inbox/lifecycle.go` | inbox row, lease token, effect | claim, renew, handler transaction, marks, operator retry | `ManagedInbox` |
| Kafka consumer | `broker/kafka/consumer.go` | assignment, position, paused partitions, committed offsets | poll, rewind, pause, resume, commit, rebalance | `ManagedInbox` |
| Process helper | `inbox/processor.go` | inbox row | one transaction | `ManagedInbox` |
| scheduler loop, notifications | `relay/relay.go`, `storage/postgres/notify.go` | wake channel, probe and idle backoff, turn | loop, claim of each class, select | `RelayScheduler` |
| presence and assignment | `storage/postgres/presence.go`, `internal/ordering/` | heartbeat rows, each relay's view | register, heartbeat, stop, reconcile by view | `RelayMembership` |
| backoff | `relay/retry.go`, `consumer/retry.go` | none (pure) | | `Backoff` |
| operator actions | `storage/postgres/admin.go`, `internal/admin/` | status, pause, clones, audit rows, row locks | retry, replay, batch replay, pause, resume | `Operations` |
| listings | `storage/postgres/admin.go`, `ordering_admin.go` | the reader's cursor | page | `KeysetListing` |
| integrity verifier | `integrity/`, `storage/postgres/ordering_admin.go` | the report | each rule, each finding | `IntegrityRules`, `IntegrityReport`, `OrderedIntegrity`, `InboxIntegrity` |
| migrations | `storage/postgres/migrate.go`, `migrations/` | version table, advisory lock, table locks | up, down | `Migrations` |
| soak harness | `cmd/emitlane-soak/` | ledger, faults in force, verdict | produce, inject, recover, audit, judge | `SoakHarness` |
| configuration, parsing, telemetry, examples | `config/`, `cmd/emitlane/`, `telemetry/` | none of their own | | section 6 |

How the parts interact: everything meets in PostgreSQL rows. Relays share no
memory, and a claim is a conditional `UPDATE`. Whether a mark still counts is
decided by what the row says when the mark runs: the owner's name (unordered),
owner, epoch and partition lease (ordered), or a lease token (inbox). The broker
is outside that fence. A request may be accepted after its publisher failed,
stopped or lost its lease, so the ordered path adds a time argument: the
partition lease covers the publish, and the next owner waits at a barrier.

What makes this hard, and hardly testable: leases that expire under live
handlers; answers lost after the database or the broker acted; clocks read
before a lock wait and used after it; restarts under the same instance ID;
requests that outlive their sender; rebalances between an effect and its offset
commit. The hazards in `PROJECT.json` name the line for each.

## 2. Modules

Read them in this order.

**`PartitionRow`** is one row of `emitlane.ordering_partitions` and the
functions the store computes on it: `ReleaseBarrier`, the released, renewed and
acquired rows, and the per-row decision of a reconcile. It is separate so that
the decisions can be read against the SQL without the protocol around them.

**`OrderingPartitions`** is the ownership protocol. `part` is the table; `attempt`
is where each publish worker is (claimed, begun, sent, with the epoch it was
fenced under); `reconcileAt`, `releaseAt` and `releaseSeen` are the transactions
a relay has open, with the clock each has already read. `Reconcile` and
`Release` write with that earlier clock, as `NOW()` in PostgreSQL is the
transaction's start. `Claim`, `Begin`, `Send` and `Finish` are what delivery
does to a partition; `Crash` forgets a relay's memory but leaves requests that
were sent. `Tick` advances the database clock.

**`OrderedDelivery`** extends it with events, stream cursors, writers' row locks,
the pause gate and the end of the broker's log. Each action that touches a
partition or an attempt is the `OrderingPartitions` action of the same meaning
conjoined with what it does to the rows; that is how the two compose, and why
the refinement theorem below holds. `MarkOrderedDelivered` is two steps
(`LockForDelivery`, then the update) because the statement checks the partition
in its snapshot and may then wait for the stream row a writer has locked.

**`AtLeastOnce`** is the abstract promise of the unordered path. An event is
owed from its commit until the broker has stored it or it is dead; only a stored
event can be called delivered; only a delivered event is forgotten.

**`UnorderedRelay`** is the relay on the default path: scheduler slots, claims,
the handler from claim to mark, shutdown, crash, pause, operator retry and
cleanup. `ImplementsAtLeastOnce` maps its rows to `AtLeastOnce`.

**`ManagedInbox`** is the consumer: Kafka's partitions and group membership, the
inbox row with its lease token, the handler's transaction (`HandlerSucceeds`
runs handler and MarkProcessed, `TxCommits` or `TxCommitFails` ends it), failure
transitions, offset commits, blocked partitions and `ResumeDue`.

**`RelayMembership`** is who should own a partition. `presence` is a relay's row in
`relay_instances` (none, fresh, stale or stopped), `view` the members its open
reconcile has read, `holder` the owner and validity of each lease. The barrier
and the epochs are `OrderingPartitions`' business and are left out here;
conversely `OrderingPartitions` lets any relay be desired, so that its safety rests on
nothing in this module. `LateHeartbeat` is the write that was on its way when the
relay marked itself stopped, and `RunStartsUnregistered` the start whose
registration failed.

**`RelayScheduler`** is the loop of one relay: the top, the claim of the class
whose turn it is, that of the other class when it may be probed, and the three
cases of the select. `told` remembers rows that were announced and not yet looked
for. What a handler does is `UnorderedRelay`'s and `OrderedDelivery`'s business;
here it returns.

**`Operations`** is the mutating half of the administration. A session is one
request in its transaction: it selects and locks its rows, clones them one at a
time, then writes its audit entry and commits, or fails at any statement. A batch
replay locks its rows one at a time too (`LockSource`): it holds the earlier ones
while it waits for the next.
Relays and cleanup act on the same rows. `ShareLocked` and `UpdateLocked` are
PostgreSQL's row locks, and the guards say who waits for which.

**`KeysetListing`** is a client that follows the cursor of a listing while rows
come and go.

**`Migrations`** runs `migrate up` and `migrate down` of binaries of different
age, beside writers of the state that a downgrade protects. A migration is one
transaction: advisory lock, versions, per-file DDL or lock, check, drop.

**`IntegrityRules`** holds the verifier's rules and, beside them, the
classifications the administration computes in SQL, as operators on a row.
**`OrderedIntegrity`** and **`InboxIntegrity`** evaluate them on the states of
`OrderedDelivery` and `ManagedInbox`. **`IntegrityReport`** is the accumulation of
findings up to the report and the exit code.

**`SoakHarness`** is the soak program as an oracle. The relays under test may
append or settle anything (`RelayAppends`, `RelaySettles`); the producer keeps its
ledger, the injector breaks and repairs the environment, and the runner
recovers, audits and judges.

**`Backoff`** has both retry schedules in two's complement arithmetic of `Width`
bits.

`MC*` modules give the constants their small values. `MCControlPlane` and
`MCProgress` check several components that share no state: a behaviour picks one
and the others stand still. `*Proofs` modules hold the theorems. Definitions that are
alternative forms of another one (for example `ReleaseBarrierNoWindow`) are the
mutants of `PROJECT.json`: each is a plausible slip in the code, and TLC finds the
property it is listed with violated.

### Choices a reader should know

- Ordered modules use integer database time, because their safety is a timing
  argument. `UnorderedRelay` and `ManagedInbox` need only "has the lease or delay
  run out" (`due`), so time there is a step that makes a row due. While a live
  handler holds the row that step is `LeaseLapses`, one of the counted faults.
- `SendDelay` is the time from the `NOW()` of BeginOrderedAttempt to the creation
  of the publish deadline, row-lock waits included. `TxDelay` is the time from a
  transaction's clock to its commit.
- `BeginSpan` and `HandleSpan` bound the time from a claim to
  BeginOrderedAttempt and to the end of the handler. The code does not enforce
  them. The passing ordered runs assume that both stay inside the event lease;
  `ordered_outlived_lease` shows what happens otherwise. `LateAccept` says whether
  the broker may accept a request whose publish already returned an error.
  Requests of crashed relays may be accepted until their deadline in every run.
- The partition check of the ordered retry and dead marks runs after any
  row-lock wait in the model; in PostgreSQL it uses the statement's snapshot.
- A batch claim is consecutive single claims. In the ordered modules the desired
  owner of a partition is any relay: no safety property rests on the hash or on
  presence.
- The claim sees the pause gate in its own snapshot, so claim and gate are one
  step. Scheduling an ordered event for later (`AvailableAt`) is left out;
  unordered events may be enqueued for later.
- A mark that errors after taking effect is the mark; one that errors without
  is `LeaveInflight`. So are forced stops and hook errors.
- In `UnorderedRelay` a broker may not append after the publish failed: that would
  only enlarge `stored`, which no property of the module bounds above.
- `retried` (unordered) is a history flag. A stale handler may mark an event dead
  after an operator's retry reset its attempts, so `DeadHasReason` is stated for
  events no operator retried.
- Inbox tokens are UUIDs; the number of the claim stands for them. The state
  `pending` is never committed and is left out.
- A batch replay's statement fixes its rows in one snapshot (`SelectBatch`), then
  visits them newest first: it waits for a row locked for update, re-checks its
  latest version, skips one that is gone, and stops at the limit plus one
  (`LockSource`); `CountSources` is what the handler makes of the rows. The replay
  of one event and the retry lock a single row, in one step.
- A down migration whose file the binary does not embed is an error of
  `downMigrationName`: `DropVersion` is not enabled and `MigrationFails` is.
- The listing orders by `created_at`, which is the start of the inserting
  transaction: a row may be committed behind a cursor that has passed it, so
  `ListingIsComplete` speaks of rows that were there from the first page on.
- `Requests` are what `normalizeMutation` and `normalizeEventFilter` let through;
  what they refuse never reaches the store.
- A migration's answer to its caller is not modelled, its effect is. The soak
  model keeps requests of a killed relay in the broker out of the picture: a
  record that lands after the audit listed the end offsets is not judged.
- The soak verdict is judged against the topics and the outbox as they are when it
  is given. A `SIGTERM` during the final integrity check makes the run "failed",
  although `docs/LOCAL_SOAK.md` says that the runner marks it aborted; no
  property is stated about that.
- Payloads, headers, destinations and error texts are left out.

## 3. Runs

Sizes are distinct states found by TLC. Every run also checks a type invariant, except
where a proof gives it (the inbox) or another run of the same module does.

| run | shows | bounds |
|---|---|---|
| `ordered_handoff` | cursor and rows agree, delivered implies accepted, the log is in order; a dead event keeps its stream blocked; "owned" on the partition page means that nobody else is publishing | two relays, one stream, two sequences, two attempts, 5 ticks, 3 epochs, no pauses; 0.39 M |
| `ordered_restart` | the log is in order for two workers of one relay that may crash and return under its ID, with producer-chosen starts and operators who pause and resume; the verifier reports no violation on any state, and agrees with the administration about the stream | 4 ticks, two sequences, 3 epochs; 0.31 M |
| `ordered_slow_handlers` | `LogFollowsEpochs` with handlers and requests that outlive their leases | three workers, one sequence, 5 ticks, 3 epochs, no pauses; 0.47 M |
| `barrier_from_loss`, `ordered_outlived_lease`, `ordered_late_accept`, `ordered_stale_advance` | violations, findings 1 to 4 | two relays or two workers, at most two sequences |
| `presence_registration` | violation, finding 5 | three relays, one partition, one failed statement |
| `inbox` | effects exactly once, offsets only past resolved records, head of line, the budget ends retries, no violation for the verifier; claimed events settle and partitions drain | two workers, two partitions sharing an event, a malformed record, operator retries up to the third claim of an event, two faults; 0.23 M |
| `relay` | slot counts are exact, dead has a reason, refinement of `AtLeastOnce`; events settle unless paused, shutdown ends | one event, two relays, two slots and three handlers for the first, two faults; 0.13 M |
| `control_plane` | *handoff*: `OneEpochInFlight`; *listing*: `ListingIsComplete`; *migrations*: `HistoryIsPrefix`, `NewerSchemaUntouched`, `DowngradeKeepsState`; *soak*: `PassIsEarned`; *report*: `ReportIsHonest`; *backoff*: `BackoffExact` | two relays with publish timeouts 2 and 1, leases 5 and 4, margin 2, transaction delay 1, send delay 0, 7 ticks, 3 epochs; five rows in pages of two, three writes; two migrators (versions 4 and 5), four commands on a schema of any version up to 4; one stream of two events and one fault; one finding kept of three; 6-bit durations, nine attempts; 0.72 M together |
| `progress` | *membership*: `OwnershipSettles`; *scheduler*: `NoLostWakeup`, `NoClassStarves`; *operations*: `ReplayIsWholeAndAudited`, `SourceOutlastsReplay`, `AnswerTellsTruth`, `RequestsAnswered` | three relays and one disturbance; two slots, batches of two, one trouble; two events, two requests, replay limit two; 0.45 M together |

Why the bounds are enough to be interesting. A takeover after a lapse is
the second epoch of a partition; a release is an epoch of its own, so a handoff by
release needs three. Different timeouts matter because the barrier uses the window
of the previous owner. Two sequences are what "out of order" needs, and two
attempts separate the first failure from the last. Two partitions that share an
event give the duplicate that an at-least-once outbox produces. Five rows in
pages of two give a full page, a page whose extra row is deleted and a short
one. A binary of version 4 and one of version 5 meet a schema newer than one of
them. Starting the schema at any version puts both an upgrade
from nothing and a downgrade from the top within four commands.
Three relays let two disagree about a third. Two requests over two events
collide on a row and leave one free. Six bits overflow after a few doublings, as
64 do after many. The fault budget exceeds what one counterexample needs: each
mutant is refuted within it.
`MaxTime` ends a behaviour of the ordered models, where `Tick` stops but the
protocol can still stutter through other steps.
Four ticks let an event lease of 3 lapse after a crash and the reclaimed event be
delivered. Seven ticks of `OrderingPartitions` complete a handoff by release from
either relay, and one after a lapse from the relay with the shorter lease. `Pauses` names the values operators give
the pause gate. No action but the claim reads the gate and no claim is obliged to
happen, so a run without pauses reaches the same rows; `ordered_restart` has pauses.
A send delay other than 0 only moves the deadline that the margin has to cover:
`HandoffSafe` covers every `SendDelay`, and TLC the transaction delay.

One event is enough for the slot count: a lapsed lease lets the same relay claim it
again, so both slots fill and a third handler is refused.

Symmetry is over workers of one relay, or over relays with equal settings taken
together with their workers, and never in a run with a liveness property. Deadlock
is not checked where a finite log, set of events or number of commands lets the
system finish.

**Fairness.** *Relay:* weak fairness on each handler step and completion (a
goroutine runs, database and broker calls have timeouts), on each relay's claim
(the scheduler polls; notifications are not needed), on `Start` (a supervisor
restarts the process), on `Stopped`, and on time. Nothing resumes a pause, so
`OutboxSettles` and `NoClassStarves` speak of behaviours in which the cluster is
unpaused again and again. *Inbox:* weak fairness on each worker, on ResumeDue (a
ticker), on reassignment by the group and on time. *Membership:* the ordering and
heartbeat loops tick, a shutdown is bounded by its timeouts, statements end and
time passes; no relay is obliged to start. *Scheduler:* the loop always has a
timer, handlers return, the probe interval passes. *Operations:* a transaction
that is not waiting proceeds or fails; its context bounds it. Operators are never
obliged to act. Faults are finite in number: with infinitely many, no event need
ever settle. So are operator retries and requests, and the properties that something
settles (`OutboxSettles`, `StopsCleanly`, `EventsSettle`, `PartitionsDrain`, `OwnershipSettles`,
`RequestsAnswered`) say that it does so for good once the last of them is past.
`ProgressFairness` asks fairness only of the component a behaviour has picked; the
others stand still, with none of their fair steps enabled.

## 4. Proofs

TLAPS checks all of them, for every set of relays, workers, partitions, streams,
events, rows, migrators and requests and for every configuration that satisfies
the modules' named assumptions.

**Handoff** (`OrderingPartitionsProofs`). `HandoffSafe` says that publishes fenced
under two epochs of a partition are never in flight together. It assumes
`MarginCoversDelays` (`TxDelay + SendDelay < SafetyMargin`), which
`Config.Validate` cannot check: it only asks for a positive margin. `OneEpochInFlight`
is not inductive, because nothing in it stops a new owner from beginning early.
The invariant adds `FlightCovered`: a publish in flight either belongs to the
current epoch and ends inside the current lease, or belongs to an older epoch and
ends before the barrier. To keep that across a release, `TxFresh` bounds how old
an open transaction's clock is, `FlightTimed` and `SendTimed` bound a publish by
the window its row records, and `OwnedRow` ties that window to the owner. From
the same invariant follow `TypeCorrect`, `LeaseCoversSend` (`SentInsideLease`) and
`EpochIsFence` (`EpochNamesOwner`), which are proved and not run.

**Ordered delivery** (`OrderedDeliveryProofs`). `DeliveryImplementsPartitions`
shows that every behaviour of the detailed module is one of the ownership
protocol, so `DeliveryHandoffSafe` follows. `CursorSafe` says that
`next_sequence` and the delivered rows never disagree, with no assumption about
how slow handlers, locks or the broker are. Its invariant adds `StreamOrdered`
and `WriterAhead`, without which a commit could insert a row below the cursor,
and `Tracked`, which ties a worker's job to its attempt. `DeliveryTypeCorrect`
includes that attempts never exceed `MaxAttempts`. `EpochsNeverInterleave` says that
the log of a stream never goes back to an earlier epoch: a request in flight is
linked to an attempt of its partition (`Linked`), the log's tail is never of a
later epoch than the partition (`TailBehind`), and `OneEpochInFlight` does the rest.

**What operators see of it** (`OrderedIntegrityProofs`). What they are told of the
ordering tables is right on every reachable state. `OrderingTablesClean` says that the verifier reports no violation, `ViewsConsistent`
that its classification of a stream and the administration's agree,
`OwnedPartitionsExclusive` that a partition shown as owned is published by its owner
only, and `DeadHoldsStream` that a stream does not move past a dead event. The rules
look at columns the cursor argument does not need, so `IntegrityInv` adds that every row,
committed or in an open transaction, belongs to a stream that starts no later
(`RowsBelong`), that a row being marked delivered stays in flight and has one locker
(`LocksHeld`), and that a partition has an owner exactly when it has an expiry
(`LeaseShape`, which needs leases of positive length: `Config.Validate`).

`LogInOrder` (`AppendsInOrder`) and `AdvanceIsStored` (`DeliveredWasAccepted`) have a
premise, `LeaseCoversHandling`: begin and handling end inside the event lease, and the
broker accepts no request that its relay has given up. The code enforces neither.
The configurations of `ordered_handoff` and `ordered_restart` satisfy it; the runs
`ordered_outlived_lease` and `ordered_late_accept` drop one half each and violate
`AppendsInOrder`, so the premise is needed and the theorem says exactly what findings 2 and 3
cost. `OrderInv` adds to `IntegrityInv` what each live handler knows about time and about the row
it claimed (`Timed`, `Staged`, `Held`), that a stream has one live handler
(`Alone`), and that the end of the log is the cursor's or the one before it
(`Stored`).

**Unordered relay** (`UnorderedRelayProofs`). `IInv` is the conjunction of the
module's invariants and `JobSound`, which says what a handler's memory implies
about the broker: an acknowledged job's event is stored, a refused one's was
rejected. `DeliveredSafe` (a delivered event is stored), `DeadJustified`,
`SlotsExact` and `RelayTypeCorrect` follow, and with them `RelayImplements`, the refinement.

**Inbox** (`ManagedInboxProofs`). The steps of the module are first reduced to
a few kinds of row step, and `Lifecycle` is shown for those: tokens are unique to
a claim (`Tokens`), a worker that has marked its row still holds it (`Marked`),
an open record is unresolved (`InHand`, `Resolved`). `EffectsOnce` follows.
`Progress` then relates positions and offsets to resolved records (`Passed`,
`Standing`), which gives `OffsetsSafe`, `HeadOfLineSafe` and `CommitsOrdered` (commits
of a partition never go back). `BudgetHolds` needs one fact more, that the token of a
lease in force counts the claims of its row (`LeaseIsClaim`): the worker compares its
own token with `MaxAttempts`, not the row. `InboxRowsClean` says that the verifier's
inbox rules find no violation on any reachable row.

**Migrations** (`OperationsProofs`). `Alone` is the advisory lock: one transaction
at a time is past it. `Consistent` says what that transaction has done against
the committed history, and that beyond the check of a downgrade it holds the
table lock over a table without protected rows or uncommitted writers.
`PrefixAlways`, `NewerSchemaSafe`, `DowngradeSafe` and `MigrationsTypesCorrect` follow.

**Listings** (`ControlPlaneProofs`). `ListingInv` says that every row that has
been there since the first page is either shown or behind the cursor, and that what is
shown is ahead of it. The lemmas are about the first *n* rows of a finite set: they are
ahead of the others, a page is empty only when the set is, and a short page is all of it.

**Soak harness** (`ControlPlaneProofs`). `CompletedMeansCorrect` says that a run that
ends "completed" has every acknowledged event in the topics, in order, and an empty
queue, whatever the relays under test did, for any number of events, relays and
faults. The audit is a fold over the topics (`Scan`); `ScanKnows` says what it knows
after *n* records. `FaultsBounded` and `AuditQuiet` carry it from the audit to the verdict: the
injector has finished before recovery begins, no relay runs while the topics are
scanned, and the end offsets listed before the scan are still the ends after it.

**Integrity report** (`ControlPlaneProofs`). `ReportTruthful`: result, truncation and
exit code say what the checks found, for any findings and any limit. `ReportInv` ties
the counters and the kept findings to the ghost sequence of findings made.

**Backoff** (`ControlPlaneProofs`). `SchedulesExact`: for any width, any legal delays and
any number of attempts both schedules equal the capped exponential; no product or
shift wraps. The lemmas are about powers of two below the width (`PowGrows`, `NoWrap`)
and one pass of each loop.

**Operations** (`OperationsProofs`). `OperationsInv` says for an open transaction
(`OpenOK`) which rows it has locked and cloned, that shared rows are terminal and
stay so, that no row is shared and updated at once, and that clones have fresh and
distinct identifiers; for a finished one that its audit entry and clones
exist only if it committed. `ReplayWhole`, `SourcesOutlast` and `AnswersAreTrue`
follow. `OperationsTypesCorrect` includes that no audited replay exceeds the limit:
a transaction that has locked its rows and goes on has at most `ReplayLimit` sources
(`OperationsBounds`), and its clones map one-to-one into them. `WaitsNeverCircular`
is the safety half of `RequestsAnswered`: a request that others wait for has its first
lock; if it waits itself it is a batch that waits for a retry, and that retry has the
only row it will ever lock. So a chain of waits has at most two links, and
the fairness of a transaction that is not waiting ends them all.

**Scheduler** (`ProgressProofs`). `NoLostWakeup` speaks of one place in the loop.
The invariant adds what holds on the way there: while an announced row has no wake-up
left, the ordered class is due for a probe, and between the two claims the class asked
first has none (`Announced`); a claim in progress has a free slot and less than its
limit (`Claiming`). `WakeupsArrive` and `SlotsSuffice` follow.

**Membership** (`ProgressProofs`). `BestExists` and `OwnerIsBest`: for any scores, colliding ones
included, a membership that is not empty has exactly one desired owner, and it is a member.
`RendezvousMovesLittle`: a relay that leaves moves only its own partitions, and one that joins
moves partitions only to itself. `SettledOwnershipStays` is the safety half
of `OwnershipSettles`: once ownership has settled (`AtRest`) and nobody crashes, stalls or starts,
no heartbeat, reconcile or expiration moves a partition again. That it settles is
liveness and stays with TLC.

**Composition** (`ProgressProofs`). `MCProgress` implements each of its components, so
`ProgressTypesCorrect` follows from the components' type theorems.

**Induction over data.** The library's induction theorems take an operator, which the
provers cannot instantiate. `ControlPlaneProofs` goes around them: a nonempty set of
numbers has a least element (`LeastNumber`, from the well-foundedness of `<`), so a set
that has 0 and with each number the next has all of them (`CountUp`), so functions defined by
recursion over `0 .. N` exist (`Recursion`), and their values are found by
`CountUp`. The audit's scan and the two schedules are proved this way. `BestExists` uses the
smallest membership without an owner.

**Model-checked only.** Liveness (`OutboxSettles`, `StopsCleanly`,
`EventsSettle`, `PartitionsDrain`, `OwnershipSettles`,
`NoClassStarves`, `RequestsAnswered`), which is out of the prover's reach. Every invariant
and every action property of a passing run is a theorem, but for `ControlPlaneTypeOK`: its
conjuncts are (`TypeCorrect`, `MigrationsTypesCorrect`, `SoakTypesCorrect`), each for its own
component.

## 5. Where code and documents disagree

Each has a run in which TLC violates the statement. The first four are in the
ordered path.

1. `docs/ORDERED_DELIVERY.md` puts the barrier a full window and margin after
   the loss of ownership. Reconcile computes it from a clock read before its lock
   wait. `HandoffSafe` shows that the margin absorbs this if it exceeds the delays.
2. BeginOrderedAttempt asks for an unexpired event lease, not for one that covers
   the publish. A handler that begins late is still publishing `N` when its own
   relay has reclaimed and delivered `N` and published `N+1`.
3. A retry can be claimed before the deadline of the request it replaces. If the
   broker accepts that request late but within its deadline, the log reads `N, N+1,
   N`.
4. MarkOrderedDelivered checks the epoch before it waits for the stream row, so
   a stale epoch can advance a stream. The cursor stays right (`CursorSafe`).
5. `relay/store.go` says that presence failures never stop delivery because
   `relay_instances` is not delivery state. Ordering membership is read from that
   table, registration is tried once, and a heartbeat only updates: a relay whose
   registration failed is never a member, and a cluster of such relays delivers no
   ordered event. Unordered delivery does go on.

Across epochs none of the first four matters to the log: `EpochsNeverInterleave`
holds with slow handlers and late requests.

## 6. Not modelled

- Telemetry (`telemetry/`, the refresh loops): nothing reads it back.
- Configuration loading, TLS and SASL, printing, routing, authentication, the
  `doctor` command: no state that the properties speak of. What `Validate` guarantees is
  an `ASSUME` of the module concerned.
- Validation of events and JSON (`outbox/event.go`, `outbox/json.go`,
  `consumer/message.go`): an invalid event is refused before anything is
  written; a malformed record is a value of the inbox model.
- Previews and statistics: they only read. The preview of a range replay may be
  out of date when the replay runs; the code ties nothing to it.
- `ListDeadInbox` pages by offset and can skip a row after a retry; no text
  promises otherwise.
- Schema checks of the verifier beyond whether they let the others run, and the SQL of
  each migration beyond what it locks, checks and drops.
- Containers, run leases and progress files of the soak harness; benchmarks and
  examples.
