--------------------------- MODULE OrderedDelivery ---------------------------
(***************************************************************************)
(* Ordered delivery end to end: writers enqueue sequenced events, relays   *)
(* claim the expected sequence of a stream, publish it under the partition *)
(* fence, and record the result.  Every step that touches a partition or a *)
(* publish attempt is the step of OrderingPartitions of the same meaning,  *)
(* conjoined with what it does to events, streams and the broker's log.    *)
(***************************************************************************)
EXTENDS OrderingPartitions

CONSTANTS Stream,        \* (destination, ordering_key) pairs
          PartitionOf,   \* [Stream -> Partition], ordering.Partition
          Starts,        \* OrderingStartSequence values producers pass; 0 is unset
          MaxSeq,        \* bound on sequence numbers
          EventLease,    \* LeaseDuration of each relay
          MaxAttempts,   \* publish attempts of an event
          Delays,        \* values retry.delay may return
          BeginSpan,     \* longest time from a claim to BeginOrderedAttempt
          HandleSpan,    \* longest time from a claim to the end of handle
          LateAccept,    \* may the broker accept a request whose publish failed?
          Pauses         \* values operators set the pause gate to

Seqs == 1..MaxSeq

ASSUME DeliveryConstants ==
    /\ PartitionOf \in [Stream -> Partition]
    /\ MaxSeq \in Nat /\ MaxAttempts \in Nat
    /\ Starts \subseteq Nat /\ Delays \subseteq Nat
    /\ EventLease \in [Relay -> Nat]
    /\ BeginSpan \in Nat /\ HandleSpan \in Nat
    /\ LateAccept \in BOOLEAN /\ Pauses \subseteq BOOLEAN

VARIABLES event,    \* the ordered rows of emitlane.outbox_events
          stream,   \* emitlane.ordering_streams; start 0 when there is no row
          writer,   \* the caller transaction that holds the stream's row lock
          paused,   \* emitlane.runtime_control
          job,      \* where each worker is in handle
          tail      \* the last record of the stream in the broker's log

deliveryVars == <<event, stream, writer, paused, job, tail>>
allVars == <<vars, deliveryVars>>

NoJob    == [stage |-> "none"]
NoWriter == [start |-> 0, seqs |-> {}]
NoRecord == [seq |-> 0, epoch |-> 0]

\* A row no relay leases, and one that relay r leases until t.
Unleased(status, attempts, available) ==
    [status |-> status, owner |-> NoOwner, until |-> 0,
     attempts |-> attempts, available |-> available]
Leased(e, r, t) ==
    [status |-> "inflight", owner |-> r, until |-> t,
     attempts |-> e.attempts, available |-> e.available]
Absent == Unleased("absent", 0, 0)

Status == {"absent", "pending", "inflight", "delivered", "dead", "deleted"}
Stage  == {"claimed", "begun", "sent", "acked", "failed", "rejected", "locked", "orphan"}

EventRow == [status: Status, owner: Owner, until: Nat, attempts: 0..MaxAttempts, available: Nat]
Job      == [stage: Stage, stream: Stream, seq: Seqs, epoch: Nat, since: Nat,
             attempts: 0..MaxAttempts, accepted: BOOLEAN]

DeliveryTypeOK ==
    /\ TypeOK
    /\ event \in [Stream -> [Seqs -> EventRow]]
    /\ stream \in [Stream -> [start: Nat, next: Nat]]
    /\ writer \in [Stream -> [start: Nat, seqs: SUBSET Seqs]]
    /\ paused \in BOOLEAN
    /\ job \in [Worker -> {NoJob} \cup Job]
    /\ tail \in [Stream -> [seq: Nat, epoch: Nat]]

DeliveryInit ==
    /\ Init
    /\ event = [st \in Stream |-> [n \in Seqs |-> Absent]]
    /\ stream = [st \in Stream |-> [start |-> 0, next |-> 0]]
    /\ writer = [st \in Stream |-> NoWriter]
    /\ paused = FALSE
    /\ job = [w \in Worker |-> NoJob]
    /\ tail = [st \in Stream |-> NoRecord]

\* The attempt budget, checked by handle, by BeginOrderedAttempt's WHERE clause
\* and by onPublishFailure.
AttemptsLeftOffByOne(attempts) == attempts <= MaxAttempts
AttemptsLeft(attempts) == attempts < MaxAttempts

\* MarkOrderedDelivered locks the event row while it waits for the stream row.
RowLocked(st, n) ==
    \E w \in Worker : job[w].stage = "locked" /\ job[w].stream = st /\ job[w].seq = n
-----------------------------------------------------------------------------
(* Writers.  Enqueue runs in the caller's transaction, which holds the      *)
(* stream's row lock from initializeOrderingStream until it ends.           *)

\* The stream row the transaction sees after INSERT ... ON CONFLICT DO NOTHING.
StreamRow(st, start) ==
    IF stream[st].start # 0 THEN stream[st]
    ELSE LET s == IF writer[st].start # 0 THEN writer[st].start
                  ELSE IF start = 0 THEN 1 ELSE start
         IN  [start |-> s, next |-> s]

Enqueue(st, n, start) ==
    /\ start <= n
    /\ start = 0 \/ StreamRow(st, start).start = start
    /\ n >= StreamRow(st, start).next
    /\ event[st][n].status = "absent" /\ n \notin writer[st].seqs
    /\ writer' = [writer EXCEPT ![st] = [start |-> StreamRow(st, start).start, seqs |-> @.seqs \cup {n}]]
    /\ UNCHANGED <<vars, event, stream, paused, job, tail>>

WriterCommits(st) ==
    /\ writer[st] # NoWriter
    /\ event' = [event EXCEPT ![st] =
                    [n \in Seqs |-> IF n \in writer[st].seqs
                                    THEN Unleased("pending", 0, now)
                                    ELSE @[n]]]
    /\ stream' = [stream EXCEPT ![st] = StreamRow(st, 0)]
    /\ writer' = [writer EXCEPT ![st] = NoWriter]
    /\ UNCHANGED <<vars, paused, job, tail>>

WriterRollsBack(st) ==
    /\ writer[st] # NoWriter
    /\ writer' = [writer EXCEPT ![st] = NoWriter]
    /\ UNCHANGED <<vars, event, stream, paused, job, tail>>
-----------------------------------------------------------------------------
(* The relay's worker: claim, fence, publish.                               *)

\* The sequence of the stream a claim may take: the join on next_sequence.
ExpectedAnyPending(st) ==
    IF \E n \in Seqs : event[st][n].status = "pending"
    THEN CHOOSE n \in Seqs : event[st][n].status = "pending"
    ELSE stream[st].next
Expected(st) == stream[st].next

ClaimOrdered(w, st) ==
    LET n == Expected(st)
        e == event[st][n]
    IN  /\ job[w] = NoJob
        /\ ~paused
        /\ n \in Seqs
        /\ e.available <= now
        /\ e.status = "pending" \/ (e.status = "inflight" /\ e.until <= now)
        /\ ~RowLocked(st, n)
        /\ Claim(w, PartitionOf[st])
        /\ event' = [event EXCEPT ![st][n] =
                        Leased(e, RelayOf[w], now + EventLease[RelayOf[w]])]
        /\ job' = [job EXCEPT ![w] =
                      [stage |-> "claimed", stream |-> st, seq |-> n,
                       epoch |-> part[PartitionOf[st]].epoch, since |-> now,
                       attempts |-> e.attempts, accepted |-> FALSE]]
        /\ UNCHANGED <<stream, writer, paused, tail>>

BeginOrderedAttempt(w) ==
    /\ job[w].stage = "claimed"
    /\ LET j == job[w]
           e == event[j.stream][j.seq]
       IN  /\ AttemptsLeft(j.attempts)
           /\ ~RowLocked(j.stream, j.seq)
           /\ e.owner = RelayOf[w] /\ e.status = "inflight" /\ e.until > now
           /\ AttemptsLeft(e.attempts)
           /\ Begin(w)
           /\ event' = [event EXCEPT ![j.stream][j.seq].attempts = @ + 1]
           /\ job' = [job EXCEPT ![w].stage = "begun", ![w].attempts = e.attempts + 1]
    /\ UNCHANGED <<stream, writer, paused, tail>>

Publish(w) ==
    /\ job[w].stage = "begun"
    /\ Send(w)
    /\ job' = [job EXCEPT ![w].stage = "sent"]
    /\ UNCHANGED <<event, stream, writer, paused, tail>>

\* The broker appends the record of a request that is still in flight.
BrokerAccepts(w) ==
    /\ job[w] # NoJob
    /\ attempt[w].pc = "sent"
    /\ ~job[w].accepted
    /\ tail' = [tail EXCEPT ![job[w].stream] = [seq |-> job[w].seq, epoch |-> job[w].epoch]]
    /\ job' = [job EXCEPT ![w].accepted = TRUE]
    /\ UNCHANGED <<vars, event, stream, writer, paused>>

BrokerAcks(w) ==
    /\ job[w].stage = "sent"
    /\ job[w].accepted
    /\ Finish(w)
    /\ job' = [job EXCEPT ![w].stage = "acked"]
    /\ UNCHANGED <<event, stream, writer, paused, tail>>

PublishFailsAsSuccess(w) ==
    /\ job[w].stage = "sent"
    /\ job' = [job EXCEPT ![w].stage = "acked"]
    /\ IF LateAccept THEN UNCHANGED vars ELSE Finish(w)
    /\ UNCHANGED <<event, stream, writer, paused, tail>>

\* Publish returns an error before it is answered: the record was accepted or
\* not, and under LateAccept the request lives on until its deadline.
PublishFails(w) ==
    /\ job[w].stage = "sent"
    /\ job' = [job EXCEPT ![w].stage = "failed"]
    /\ IF LateAccept THEN UNCHANGED vars ELSE Finish(w)
    /\ UNCHANGED <<event, stream, writer, paused, tail>>

\* A permanent error (isPermanent): the broker has refused the record.
BrokerRejects(w) ==
    /\ job[w].stage = "sent"
    /\ ~job[w].accepted
    /\ Finish(w)
    /\ job' = [job EXCEPT ![w].stage = "rejected"]
    /\ UNCHANGED <<event, stream, writer, paused, tail>>
-----------------------------------------------------------------------------
(* Recording the result.                                                    *)

\* handle returns.  A request that was cancelled, or whose publish failed under
\* LateAccept, outlives its handler.
Done(w) ==
    \/ /\ attempt[w].pc = "sent"
       /\ job' = [job EXCEPT ![w].stage = "orphan"]
       /\ UNCHANGED vars
    \/ /\ attempt[w].pc \in {"claimed", "begun"}
       /\ job' = [job EXCEPT ![w] = NoJob]
       /\ Finish(w)
    \/ /\ attempt[w] = Idle
       /\ job' = [job EXCEPT ![w] = NoJob]
       /\ UNCHANGED vars

\* The conditions MarkOrderedRetry and MarkOrderedDead put on event and partition.
HoldsEvent(w) ==
    LET j == job[w]
        e == event[j.stream][j.seq]
    IN  /\ e.status = "inflight" /\ e.owner = RelayOf[w]
        /\ MayRecord(part[PartitionOf[j.stream]], RelayOf[w], j.epoch, now)

\* MarkOrderedDelivered, first half: authority is checked against the snapshot
\* and the event row locked.
LockForDelivery(w) ==
    /\ job[w].stage = "acked"
    /\ LET j == job[w]
       IN  /\ ~RowLocked(j.stream, j.seq)
           /\ HoldsEvent(w)
           /\ event[j.stream][j.seq].until > now
    /\ job' = [job EXCEPT ![w].stage = "locked"]
    /\ UNCHANGED <<vars, event, stream, writer, paused, tail>>

\* Second half: when no writer holds the stream row, progress and event move
\* together; if the stream expects another sequence nothing does.
MarkOrderedDelivered(w) ==
    /\ job[w].stage = "locked"
    /\ LET j == job[w]
       IN  /\ writer[j.stream] = NoWriter
           /\ IF stream[j.stream].next = j.seq
              THEN /\ stream' = [stream EXCEPT ![j.stream].next = j.seq + 1]
                   /\ event' = [event EXCEPT ![j.stream][j.seq] =
                                   Unleased("delivered", @.attempts, @.available)]
              ELSE UNCHANGED <<stream, event>>
    /\ Done(w)
    /\ UNCHANGED <<writer, paused, tail>>

MarkOrderedRetry(w, delay) ==
    /\ job[w].stage = "failed"
    /\ LET j == job[w]
       IN  /\ AttemptsLeft(j.attempts)
           /\ ~RowLocked(j.stream, j.seq)
           /\ HoldsEvent(w)
           /\ event' = [event EXCEPT ![j.stream][j.seq] =
                           Unleased("pending", @.attempts, now + delay)]
    /\ Done(w)
    /\ UNCHANGED <<stream, writer, paused, tail>>

\* A permanent error, the last attempt failing, or a claim that finds the
\* attempt budget already spent.
MarkOrderedDead(w) ==
    /\ \/ job[w].stage = "rejected"
       \/ job[w].stage \in {"failed", "claimed"} /\ ~AttemptsLeft(job[w].attempts)
    /\ LET j == job[w]
       IN  /\ ~RowLocked(j.stream, j.seq)
           /\ HoldsEvent(w)
           /\ event' = [event EXCEPT ![j.stream][j.seq] =
                           Unleased("dead", @.attempts, @.available)]
    /\ Done(w)
    /\ UNCHANGED <<stream, writer, paused, tail>>

\* handle gives up without a database change: ErrFenced, a SQL error, the ten
\* second limit of a result transition, or shutdown.  The row stays as it is.
LeaveInflight(w) ==
    /\ job[w].stage \in Stage \ {"orphan"}
    /\ Done(w)
    /\ UNCHANGED <<event, stream, writer, paused, tail>>

\* The request of a dead or cancelled handler is answered to nobody or expires.
RequestEnds(w) ==
    /\ job[w].stage = "orphan"
    /\ Finish(w)
    /\ job' = [job EXCEPT ![w] = NoJob]
    /\ UNCHANGED <<event, stream, writer, paused, tail>>

RelayCrashes(r) ==
    /\ Crash(r)
    /\ job' = [w \in Worker |->
                  IF RelayOf[w] # r THEN job[w]
                  ELSE IF attempt[w].pc = "sent" THEN [job[w] EXCEPT !.stage = "orphan"]
                  ELSE NoJob]
    /\ UNCHANGED <<event, stream, writer, paused, tail>>
-----------------------------------------------------------------------------
(* Operators, retention, partition ownership and time.                      *)

RetryDeadAnyTerminal(st, n) ==
    /\ event[st][n].status \in {"dead", "delivered"}
    /\ event' = [event EXCEPT ![st][n] = Unleased("pending", 0, now)]
    /\ UNCHANGED <<vars, stream, writer, paused, job, tail>>

RetryDead(st, n) ==
    /\ event[st][n].status = "dead"
    /\ event' = [event EXCEPT ![st][n] = Unleased("pending", 0, now)]
    /\ UNCHANGED <<vars, stream, writer, paused, job, tail>>

CleanupTerminal(st, n) ==
    /\ event[st][n].status \in {"delivered", "dead"}
    /\ event' = [event EXCEPT ![st][n] = Unleased("deleted", 0, 0)]
    /\ UNCHANGED <<vars, stream, writer, paused, job, tail>>

\* The retention period is not modelled: any delivered row may be due.
CleanupDelivered(st, n) ==
    /\ event[st][n].status = "delivered"
    /\ event' = [event EXCEPT ![st][n] = Unleased("deleted", 0, 0)]
    /\ UNCHANGED <<vars, stream, writer, paused, job, tail>>

SetPaused(value) ==
    /\ paused # value
    /\ paused' = value
    /\ UNCHANGED <<vars, event, stream, writer, job, tail>>

\* Partition transactions.  OrderingPartitions covers the slow ones; one that
\* rewrites no row is a stuttering step.
Ownership ==
    /\ \E r \in Relay : \/ \E desired \in [Partition -> Owner] : Reconcile(r, desired)
                        \/ Release(r)
    /\ part' # part
    /\ UNCHANGED deliveryVars

TimePasses ==
    /\ Tick
    /\ \A w \in Worker :
          /\ job[w].stage = "claimed" => now < job[w].since + BeginSpan
          /\ job[w].stage \in Stage \ {"orphan"} => now < job[w].since + HandleSpan
    /\ UNCHANGED deliveryVars

DeliveryNext ==
    \/ \E st \in Stream, n \in Seqs, start \in Starts : Enqueue(st, n, start)
    \/ \E st \in Stream : WriterCommits(st)
    \/ \E st \in Stream : WriterRollsBack(st)
    \/ \E w \in Worker, st \in Stream : ClaimOrdered(w, st)
    \/ \E w \in Worker : BeginOrderedAttempt(w)
    \/ \E w \in Worker : Publish(w)
    \/ \E w \in Worker : BrokerAccepts(w)
    \/ \E w \in Worker : BrokerAcks(w)
    \/ \E w \in Worker : PublishFails(w)
    \/ \E w \in Worker : BrokerRejects(w)
    \/ \E w \in Worker : LockForDelivery(w)
    \/ \E w \in Worker : MarkOrderedDelivered(w)
    \/ \E w \in Worker, delay \in Delays : MarkOrderedRetry(w, delay)
    \/ \E w \in Worker : MarkOrderedDead(w)
    \/ \E w \in Worker : LeaveInflight(w)
    \/ \E w \in Worker : RequestEnds(w)
    \/ \E r \in Relay : RelayCrashes(r)
    \/ \E st \in Stream, n \in Seqs : RetryDead(st, n)
    \/ \E st \in Stream, n \in Seqs : CleanupDelivered(st, n)
    \/ \E value \in Pauses : SetPaused(value)
    \/ Ownership
    \/ TimePasses

DeliverySpec == DeliveryInit /\ [][DeliveryNext]_allVars
-----------------------------------------------------------------------------
\* next_sequence is the truth about the stream: exactly the sequences from the
\* start up to it are delivered (or delivered and cleaned up), and none above.
\* It is what the integrity verifier's checkEvents looks for on live data.
CursorMatchesEvents ==
    \A st \in Stream, n \in Seqs :
        event[st][n].status \in {"delivered", "deleted"} <=>
            stream[st].start # 0 /\ stream[st].start <= n /\ n < stream[st].next

\* docs/ORDERED_DELIVERY.md: 1, 2, 2, 3 is a valid log of a stream, 1, 3, 2 and
\* 1, 2, 1 are not.  A record never follows a later one or skips one.
AppendsInOrder ==
    [][\A st \in Stream :
          tail'[st] # tail[st] =>
              IF tail[st] = NoRecord THEN tail'[st].seq = stream[st].start
              ELSE tail'[st].seq \in {tail[st].seq, tail[st].seq + 1}]_tail

\* The stream never moves past a sequence the broker has not stored, although
\* acknowledgements are lost, handlers die and others take their work over.
DeliveredWasAccepted ==
    \A st \in Stream : stream[st].start # 0 => stream[st].next <= tail[st].seq + 1
                                              \/ stream[st].next = stream[st].start

\* Two ownership epochs never interleave in the log of a stream.
LogFollowsEpochs ==
    [][\A st \in Stream : tail'[st].epoch >= tail[st].epoch]_tail

\* docs/ORDERED_DELIVERY.md: a stale epoch cannot advance a stream.
AdvanceIsCurrent ==
    [][\A w \in Worker :
          job[w].stage = "locked" /\ stream' # stream /\ job'[w] = NoJob =>
              part[PartitionOf[job[w].stream]].epoch = job[w].epoch]_allVars
=============================================================================
