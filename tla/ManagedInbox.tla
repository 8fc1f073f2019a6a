---------------------------- MODULE ManagedInbox ----------------------------
(***************************************************************************)
(* The managed consumer: workers, each one member of a Kafka consumer      *)
(* group, process records under durable Inbox leases and commit an offset  *)
(* only after the handler's PostgreSQL transaction committed.              *)
(*                                                                         *)
(* Time is abstract.  A row is "due" when its lease has expired (inflight) *)
(* or its retry delay has passed (retry_wait); a blocked partition may     *)
(* resume at any later moment.  A lease token is the number of the claim   *)
(* that created it: attempts grow with every claim and are never reset, so *)
(* no two claims of an event share one, like the random UUIDs of the code. *)
(*                                                                         *)
(* faults counts what the environment does to the consumer: database and   *)
(* broker errors, crashes, rebalances, starved lease renewals.  MaxFaults  *)
(* bounds them, so that the liveness properties speak of a system that is  *)
(* disturbed finitely often.                                               *)
(***************************************************************************)
EXTENDS Naturals, Sequences

CONSTANTS Worker,       \* workers of all instances of one consumer
          Partition,    \* the topic's Kafka partitions
          Event,        \* event identities
          Malformed,    \* a record ResolveEventID rejects
          Log,          \* [Partition -> Seq(Event \cup {Malformed})]
          MaxAttempts,  \* Config.MaxAttempts
          MaxClaims,    \* bound on the claims of an event an operator retries
          MaxFaults     \* bound on disturbances

NoWorker == "nobody"
NoToken  == 0
Idle     == [stage |-> "idle"]

ASSUME InboxConstants ==
    /\ NoWorker \notin Worker
    /\ Malformed \notin Event
    /\ Log \in [Partition -> Seq(Event \cup {Malformed})]
    /\ MaxAttempts \in Nat /\ MaxClaims \in Nat /\ MaxFaults \in Nat

VARIABLES row,        \* emitlane.inbox_events of this consumer
          effect,     \* committed handler transactions of each event
          job,        \* the record each worker is processing
          owner,      \* the group's assignment
          position,   \* the owner's fetch position
          blocked,    \* why the owner has paused the partition
          committed,  \* the group's committed offset: records resolved
          faults

kafka == <<owner, position, blocked, committed>>
vars == <<row, effect, job, kafka, faults>>

Status == {"absent", "inflight", "retry_wait", "processed", "dead"}
Stage  == {"polled", "running", "marked", "failed", "resolved"}
Reason == {"no", "retry", "dead", "protocol"}

InboxRow == [status: Status, attempts: Nat, token: Nat, due: BOOLEAN]
Job      == [stage: Stage, partition: Partition, offset: Nat, token: Nat, permanent: BOOLEAN]

InboxTypeOK ==
    /\ row \in [Event -> InboxRow]
    /\ effect \in [Event -> Nat]
    /\ job \in [Worker -> {Idle} \cup Job]
    /\ owner \in [Partition -> Worker \cup {NoWorker}]
    /\ position \in [Partition -> Nat]
    /\ blocked \in [Partition -> Reason]
    /\ committed \in [Partition -> Nat]
    /\ faults \in 0..MaxFaults

NewRow(status, attempts, token) ==
    [status |-> status, attempts |-> attempts, token |-> token, due |-> FALSE]

InboxInit ==
    /\ row = [e \in Event |-> NewRow("absent", 0, NoToken)]
    /\ effect = [e \in Event |-> 0]
    /\ job = [w \in Worker |-> Idle]
    /\ owner = [p \in Partition |-> NoWorker]
    /\ position = [p \in Partition |-> 0]
    /\ blocked = [p \in Partition |-> "no"]
    /\ committed = [p \in Partition |-> 0]
    /\ faults = 0

Fault == faults < MaxFaults /\ faults' = faults + 1

Record(w) == Log[job[w].partition][job[w].offset + 1]

\* The WHERE clause of Renew, MarkProcessed, MarkRetry and MarkDead.
HoldsLease(w) ==
    row[Record(w)].status = "inflight" /\ row[Record(w)].token = job[w].token

\* MarkProcessed has locked the row in a handler transaction still open.
RowLocked(e) == \E v \in Worker : job[v].stage = "marked" /\ Record(v) = e
-----------------------------------------------------------------------------
(* How run ends a record.                                                   *)

UnresolvedNoRewind(w, reason) ==
    LET p == job[w].partition
    IN  /\ job' = [job EXCEPT ![w] = Idle]
        /\ blocked' = IF owner[p] = w THEN [blocked EXCEPT ![p] = reason] ELSE blocked
        /\ UNCHANGED <<owner, position, committed>>

\* Rewind, Pause and block, then AllowRebalance.  When the group has taken the
\* partition away meanwhile, the Lost callback undoes all three.
Unresolved(w, reason) ==
    LET p == job[w].partition
    IN  /\ job' = [job EXCEPT ![w] = Idle]
        /\ IF owner[p] = w
           THEN /\ position' = [position EXCEPT ![p] = job[w].offset]
                /\ blocked' = [blocked EXCEPT ![p] = reason]
           ELSE UNCHANGED <<position, blocked>>
        /\ UNCHANGED <<owner, committed>>

Moves(w, stage) ==
    job' = [job EXCEPT ![w].stage = stage] /\ UNCHANGED kafka
-----------------------------------------------------------------------------
(* process, step by step.                                                   *)

Poll(w, p) ==
    /\ job[w] = Idle
    /\ owner[p] = w /\ blocked[p] = "no"
    /\ position[p] < Len(Log[p])
    /\ job' = [job EXCEPT ![w] = [stage |-> "polled", partition |-> p, offset |-> position[p],
                                  token |-> NoToken, permanent |-> FALSE]]
    /\ position' = [position EXCEPT ![p] = @ + 1]
    /\ UNCHANGED <<row, effect, owner, blocked, committed, faults>>

ProtocolErrorSkips(w) ==
    /\ job[w].stage = "polled"
    /\ Record(w) = Malformed
    /\ Moves(w, "resolved")
    /\ UNCHANGED <<row, effect, faults>>

\* ResolveEventID fails: the partition is blocked for good.
ProtocolError(w) ==
    /\ job[w].stage = "polled"
    /\ Record(w) = Malformed
    /\ Unresolved(w, "protocol")
    /\ UNCHANGED <<row, effect, faults>>

\* The row Claim leaves: a new one, one whose delay passed, one whose lease
\* expired.  The attempt budget is not looked at here.
Claimable(e) ==
    \/ row[e].status = "absent"
    \/ row[e].status \in {"retry_wait", "inflight"} /\ row[e].due
ClaimedRow(e) == NewRow("inflight", row[e].attempts + 1, row[e].attempts + 1)

\* Claim, when it commits and the worker hears of it.
Claim(w) ==
    /\ job[w].stage = "polled"
    /\ Record(w) # Malformed
    /\ ~RowLocked(Record(w))
    /\ LET e == Record(w)
       IN  \/ /\ Claimable(e)
              /\ row' = [row EXCEPT ![e] = ClaimedRow(e)]
              /\ job' = [job EXCEPT ![w].stage = "running", ![w].token = ClaimedRow(e).token]
              /\ UNCHANGED kafka
           \/ /\ row[e].status = "processed"
              /\ Moves(w, "resolved")
              /\ UNCHANGED row
           \/ /\ row[e].status = "dead"
              /\ Unresolved(w, "dead")
              /\ UNCHANGED row
           \/ /\ ~Claimable(e) /\ row[e].status \in {"retry_wait", "inflight"}
              /\ Unresolved(w, "retry")
              /\ UNCHANGED row
    /\ UNCHANGED <<effect, faults>>

\* Claim returns an error; its transaction rolled back, or committed a lease
\* whose token nobody knows.
ClaimFails(w) ==
    /\ job[w].stage = "polled"
    /\ Record(w) # Malformed
    /\ Fault
    /\ LET e == Record(w)
       IN  \/ UNCHANGED row
           \/ Claimable(e) /\ ~RowLocked(e) /\ row' = [row EXCEPT ![e] = ClaimedRow(e)]
    /\ Unresolved(w, "retry")
    /\ UNCHANGED effect

\* A tick of renewLease; it renews an expired lease too if nobody claimed it.
Renew(w) ==
    /\ job[w].stage = "running"
    /\ HoldsLease(w)
    /\ row[Record(w)].due
    /\ row' = [row EXCEPT ![Record(w)].due = FALSE]
    /\ UNCHANGED <<effect, job, kafka, faults>>

\* ErrLeaseLost cancels the handler and rolls back; the lease is another's.
RenewLost(w) ==
    /\ job[w].stage = "running"
    /\ ~HoldsLease(w)
    /\ Unresolved(w, "retry")
    /\ UNCHANGED <<row, effect, faults>>

HandlerSucceedsUnfenced(w) ==
    /\ job[w].stage = "running"
    /\ Moves(w, "marked")
    /\ UNCHANGED <<row, effect, faults>>

\* The handler returns nil and MarkProcessed runs in its transaction.
HandlerSucceeds(w) ==
    /\ job[w].stage = "running"
    /\ IF HoldsLease(w) THEN Moves(w, "marked") ELSE Unresolved(w, "retry")
    /\ UNCHANGED <<row, effect, faults>>

\* MarkProcessed itself fails: roll back and wait for the lease to expire.
MarkProcessedFails(w) ==
    /\ job[w].stage = "running"
    /\ Fault
    /\ Unresolved(w, "retry")
    /\ UNCHANGED <<row, effect>>

\* An error of the handler or of a renewal, the handler timeout, a rebalance
\* that cancels the handler (RebalanceBlocked), or shutdown.  The transaction
\* is rolled back.
HandlerFails(w, permanent) ==
    /\ job[w].stage = "running"
    /\ job' = [job EXCEPT ![w].stage = "failed", ![w].permanent = permanent]
    /\ UNCHANGED <<row, effect, kafka, faults>>

ProcessedBy(w) ==
    /\ row' = [row EXCEPT ![Record(w)] = NewRow("processed", @.attempts, NoToken)]
    /\ effect' = [effect EXCEPT ![Record(w)] = @ + 1]

TxCommits(w) ==
    /\ job[w].stage = "marked"
    /\ ProcessedBy(w)
    /\ Moves(w, "resolved")
    /\ UNCHANGED faults

\* COMMIT returns an error: it was rolled back, or it took effect.
TxCommitFails(w) ==
    /\ job[w].stage = "marked"
    /\ Fault
    /\ ProcessedBy(w) \/ UNCHANGED <<row, effect>>
    /\ Unresolved(w, "retry")

ExhaustedExactly(w) == job[w].permanent \/ job[w].token = MaxAttempts

\* transitionFailure: MarkDead or MarkRetry under the token.
Exhausted(w) == job[w].permanent \/ job[w].token >= MaxAttempts
FailedRowKeepsLease(w) ==
    NewRow(IF Exhausted(w) THEN "dead" ELSE "retry_wait", row[Record(w)].attempts, job[w].token)

FailedRow(w) ==
    NewRow(IF Exhausted(w) THEN "dead" ELSE "retry_wait", row[Record(w)].attempts, NoToken)

TransitionFailure(w) ==
    /\ job[w].stage = "failed"
    /\ IF HoldsLease(w)
       THEN /\ row' = [row EXCEPT ![Record(w)] = FailedRow(w)]
            /\ Unresolved(w, IF Exhausted(w) THEN "dead" ELSE "retry")
       ELSE UNCHANGED row /\ Unresolved(w, "retry")
    /\ UNCHANGED <<effect, faults>>

\* The transition's statement reports an error, having run or not.
TransitionFails(w) ==
    /\ job[w].stage = "failed"
    /\ Fault
    /\ \/ UNCHANGED row
       \/ HoldsLease(w) /\ row' = [row EXCEPT ![Record(w)] = FailedRow(w)]
    /\ Unresolved(w, "retry")
    /\ UNCHANGED effect

\* source.Commit.  The group refuses a member that no longer owns the partition.
OffsetCommit(w) ==
    /\ job[w].stage = "resolved"
    /\ owner[job[w].partition] = w
    /\ committed' = [committed EXCEPT ![job[w].partition] = job[w].offset + 1]
    /\ job' = [job EXCEPT ![w] = Idle]
    /\ UNCHANGED <<row, effect, owner, position, blocked, faults>>

OffsetCommitRefused(w) ==
    /\ job[w].stage = "resolved"
    /\ owner[job[w].partition] # w
    /\ Unresolved(w, "retry")
    /\ UNCHANGED <<row, effect, faults>>

\* The commit times out, having reached the coordinator or not.
OffsetCommitFails(w) ==
    /\ job[w].stage = "resolved"
    /\ LET p == job[w].partition
       IN  /\ owner[p] = w
           /\ committed' = committed \/
              committed' = [committed EXCEPT ![p] = job[w].offset + 1]
           /\ position' = [position EXCEPT ![p] = job[w].offset]
           /\ blocked' = [blocked EXCEPT ![p] = "retry"]
    /\ Fault
    /\ job' = [job EXCEPT ![w] = Idle]
    /\ UNCHANGED <<row, effect, owner>>

ResumeDueOnly(w, p, reason) ==
    /\ job[w] = Idle
    /\ owner[p] = w
    /\ blocked[p] = reason
    /\ row[Log[p][position[p] + 1]].status # "dead"
    /\ blocked' = [blocked EXCEPT ![p] = "no"]
    /\ UNCHANGED <<row, effect, job, owner, position, committed, faults>>
ResumeDueRetryOnly(w, p) == ResumeDueOnly(w, p, "retry")
ResumeDueDeadOnly(w, p) == ResumeDueOnly(w, p, "dead")

\* resumeDue, between two polls of the owner.
ResumeDue(w, p) ==
    /\ job[w] = Idle
    /\ owner[p] = w
    /\ \/ blocked[p] = "retry"
       \/ blocked[p] = "dead" /\ row[Log[p][position[p] + 1]].status # "dead"
    /\ blocked' = [blocked EXCEPT ![p] = "no"]
    /\ UNCHANGED <<row, effect, job, owner, position, committed, faults>>
-----------------------------------------------------------------------------
(* The consumer group, crashes, operators, the Process helper and time.     *)

\* Assigned: the new owner starts at the committed offset.  A member takes part
\* in a rebalance only between records (BlockRebalanceOnPoll).
Assign(w, p) ==
    /\ owner[p] = NoWorker
    /\ job[w] = Idle
    /\ owner' = [owner EXCEPT ![p] = w]
    /\ position' = [position EXCEPT ![p] = committed[p]]
    /\ UNCHANGED <<row, effect, job, blocked, committed, faults>>

Revoke(w, p) ==
    /\ owner[p] = w
    /\ job[w] = Idle
    /\ Fault
    /\ owner' = [owner EXCEPT ![p] = NoWorker]
    /\ blocked' = [blocked EXCEPT ![p] = "no"]
    /\ UNCHANGED <<row, effect, job, position, committed>>

DropsAll(w) ==
    /\ owner' = [p \in Partition |-> IF owner[p] = w THEN NoWorker ELSE owner[p]]
    /\ blocked' = [p \in Partition |-> IF owner[p] = w THEN "no" ELSE blocked[p]]
    /\ UNCHANGED <<position, committed>>

\* The session or the rebalance times out: the group goes on without the
\* member, which may still be processing its record.
Expel(w) ==
    /\ \E p \in Partition : owner[p] = w
    /\ Fault
    /\ DropsAll(w)
    /\ UNCHANGED <<row, effect, job>>

\* The process dies: open transactions roll back, the member is dropped.
Crash(w) ==
    /\ Fault
    /\ job' = [job EXCEPT ![w] = Idle]
    /\ DropsAll(w)
    /\ UNCHANGED <<row, effect>>

\* The audited operator retry keeps the attempt count.
RetryDead(e) ==
    /\ row[e].status = "dead"
    /\ row[e].attempts < MaxClaims
    /\ row' = [row EXCEPT ![e] =
                              [status |-> "retry_wait", attempts |-> @.attempts,
                               token |-> NoToken, due |-> TRUE]]
    /\ UNCHANGED <<effect, job, kafka, faults>>

\* inbox.Process in an application's own transaction, under the same consumer
\* name: it takes an unseen event, and refuses one in the managed lifecycle.
Process(e) ==
    /\ row[e].status = "absent"
    /\ Fault
    /\ row' = [row EXCEPT ![e] = NewRow("processed", 0, NoToken)]
    /\ effect' = [effect EXCEPT ![e] = @ + 1]
    /\ UNCHANGED <<job, kafka>>

\* A live worker has the lease: it renews it, or is about to give it back.
Held(e) ==
    \E w \in Worker : job[w].stage \in {"running", "marked", "failed"} /\ Record(w) = e /\ HoldsLease(w)

\* A retry delay passes, or a lease nobody renews any more expires.
TimePasses(e) ==
    /\ row[e].status \in {"retry_wait", "inflight"} /\ ~row[e].due
    /\ ~Held(e)
    /\ row' = [row EXCEPT ![e].due = TRUE]
    /\ UNCHANGED <<effect, job, kafka, faults>>

\* A live holder does not renew, or give the lease back, in time.
LeaseLapses(e) ==
    /\ Held(e) /\ ~row[e].due
    /\ Fault
    /\ row' = [row EXCEPT ![e].due = TRUE]
    /\ UNCHANGED <<effect, job, kafka>>

WorkerStep(w) ==
    \/ \E p \in Partition : Poll(w, p)
    \/ ProtocolError(w)
    \/ Claim(w)
    \/ RenewLost(w)
    \/ HandlerSucceeds(w)
    \/ \E permanent \in BOOLEAN : HandlerFails(w, permanent)
    \/ TxCommits(w)
    \/ TransitionFailure(w)
    \/ OffsetCommit(w)
    \/ OffsetCommitRefused(w)

InboxNext ==
    \/ \E w \in Worker : WorkerStep(w)
    \/ \E w \in Worker, p \in Partition : ResumeDue(w, p)
    \/ \E w \in Worker : Renew(w)
    \/ \E w \in Worker : ClaimFails(w)
    \/ \E w \in Worker : MarkProcessedFails(w)
    \/ \E w \in Worker : TxCommitFails(w)
    \/ \E w \in Worker : TransitionFails(w)
    \/ \E w \in Worker : OffsetCommitFails(w)
    \/ \E w \in Worker, p \in Partition : Assign(w, p)
    \/ \E w \in Worker, p \in Partition : Revoke(w, p)
    \/ \E w \in Worker : Expel(w)
    \/ \E w \in Worker : Crash(w)
    \/ \E e \in Event : RetryDead(e)
    \/ \E e \in Event : Process(e)
    \/ \E e \in Event : TimePasses(e)
    \/ \E e \in Event : LeaseLapses(e)

InboxSpec == InboxInit /\ [][InboxNext]_vars

\* A worker's loop goes on by itself (HandlerTimeout and the database timeouts
\* end every step of it), resumeDue runs on every iteration, the group assigns
\* free partitions, and time passes.
InboxFairness ==
    /\ \A w \in Worker : WF_vars(WorkerStep(w))
    /\ \A w \in Worker, p \in Partition : WF_vars(ResumeDue(w, p))
    /\ \A p \in Partition : WF_vars(\E w \in Worker : Assign(w, p))
    /\ \A e \in Event : WF_vars(TimePasses(e))

FairInboxSpec == InboxSpec /\ InboxFairness
-----------------------------------------------------------------------------
\* docs/CONSUMER_RELIABILITY.md: the handler's PostgreSQL writes take effect
\* once per event and exactly when the row says processed, although leases are
\* reclaimed under live handlers, commits report errors after taking effect and
\* the same event arrives at several offsets.
EffectOnceProcessed ==
    \A e \in Event : effect[e] = IF row[e].status = "processed" THEN 1 ELSE 0

\* Offsets advance only over processed events: never over a pending, inflight,
\* retrying or dead one, and never over a record without an identity.
OffsetsResolved ==
    \A p \in Partition : \A o \in 1..committed[p] :
        Log[p][o] \in Event /\ row[Log[p][o]].status = "processed"

\* A late or refused commit never moves the group back or forth over a record:
\* committed offsets move one resolved record at a time.
CommitsInOrder ==
    [][\A p \in Partition :
          committed'[p] \in {committed[p], committed[p] + 1}]_committed

\* An unresolved record blocks the later ones of its partition: nobody, not
\* even a worker the group has expelled, handles a record before all earlier
\* ones are processed.
HeadOfLine ==
    \A w \in Worker : job[w] # Idle =>
        \A o \in 1..job[w].offset :
            LET e == Log[job[w].partition][o]
            IN  e \in Event /\ row[e].status = "processed"

\* Config.MaxAttempts ends the automatic retries, also when crashes have let the
\* attempts run past it (a claim does not look at them): a failure reported at
\* or beyond the limit never schedules another retry.
BudgetEndsRetries ==
    [][\A e \in Event :
          row[e].status = "inflight" /\ row'[e].status = "retry_wait"
              => row[e].attempts < MaxAttempts]_row

\* Once disturbances and operator retries end, every event that entered the
\* lifecycle leaves it for good: it is processed, or dead and waiting for an
\* operator.
EventsSettle == <>[](\A e \in Event : row[e].status \notin {"inflight", "retry_wait"})

Stuck(p) ==
    /\ committed[p] < Len(Log[p])
    /\ LET e == Log[p][committed[p] + 1]
       IN  e = Malformed \/ row[e].status = "dead"

\* Every partition is consumed to its end, or up to a record that stops it on
\* purpose: a dead event or a record without an identity.
PartitionsDrain ==
    <>[](\A p \in Partition : committed[p] = Len(Log[p]) \/ Stuck(p))
=============================================================================
