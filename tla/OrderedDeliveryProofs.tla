----------------------- MODULE OrderedDeliveryProofs -----------------------
(***************************************************************************)
(* Ordered delivery implements the partition protocol, so what is proved   *)
(* of the handoff holds of it; and the stream cursor agrees with the event *)
(* rows for every set of streams, relays and timings.                      *)
(***************************************************************************)
EXTENDS OrderedDelivery, OrderingPartitionsProofs

\* Returning from handle is a step of the worker's attempt, or none.
LEMMA DoneImplements ==
    ASSUME NEW w \in Worker, Done(w)
    PROVE  [Next]_vars
  BY Zenon DEF Done, Next

\* Every step of ordered delivery is a step of the partition protocol or leaves
\* its variables alone.
LEMMA StepImplements ==
    ASSUME [DeliveryNext]_allVars
    PROVE  [Next]_vars
  <1>1. CASE \/ \E st \in Stream, n \in Seqs, start \in Starts : Enqueue(st, n, start)
             \/ \E st \in Stream : WriterCommits(st)
             \/ \E st \in Stream : WriterRollsBack(st)
             \/ \E w \in Worker : BrokerAccepts(w)
             \/ \E w \in Worker : LockForDelivery(w)
             \/ \E st \in Stream, n \in Seqs : RetryDead(st, n)
             \/ \E st \in Stream, n \in Seqs : CleanupDelivered(st, n)
             \/ \E value \in Pauses : SetPaused(value)
             \/ UNCHANGED allVars
    BY Zenon, <1>1 DEF Enqueue, WriterCommits, WriterRollsBack, BrokerAccepts, LockForDelivery, RetryDead,
                CleanupDelivered, SetPaused, allVars
  <1>2. CASE \E w \in Worker, st \in Stream : ClaimOrdered(w, st)
    BY Zenon, <1>2, DeliveryConstants DEF Expected, ClaimOrdered, Next
  <1>3. CASE \E w \in Worker : BeginOrderedAttempt(w)
    BY Zenon, <1>3 DEF AttemptsLeft, BeginOrderedAttempt, Next
  <1>4. CASE \E w \in Worker : Publish(w)
    BY <1>4 DEF Publish, Next
  <1>5. CASE \E w \in Worker : BrokerAcks(w) \/ PublishFails(w) \/ BrokerRejects(w) \/ RequestEnds(w)
    BY <1>5 DEF BrokerAcks, PublishFails, BrokerRejects, RequestEnds, Next
  <1>6. CASE \/ \E w \in Worker : MarkOrderedDelivered(w)
             \/ \E w \in Worker, delay \in Delays : MarkOrderedRetry(w, delay)
             \/ \E w \in Worker : MarkOrderedDead(w)
             \/ \E w \in Worker : LeaveInflight(w)
    BY Zenon, <1>6, DoneImplements
    DEF MarkOrderedDelivered, MarkOrderedRetry, MarkOrderedDead, LeaveInflight
  <1>7. CASE \E r \in Relay : RelayCrashes(r)
    BY <1>7 DEF RelayCrashes, Next
  <1>8. CASE Ownership
    BY Zenon, <1>8 DEF Ownership, Next
  <1>9. CASE TimePasses
    BY <1>9 DEF TimePasses, Next
  <1> QED
    BY Zenon, <1>1, <1>2, <1>3, <1>4, <1>5, <1>6, <1>7, <1>8, <1>9 DEF DeliveryNext

\* Ordered delivery implements OrderingPartitions.
THEOREM DeliveryImplementsPartitions == DeliverySpec => Spec
  <1>1. DeliveryInit => Init
    BY DEF DeliveryInit
  <1>2. [DeliveryNext]_allVars => [Next]_vars
    BY StepImplements
  <1> QED
    BY <1>1, <1>2, PTL DEF DeliverySpec, Spec

\* The handoff of a partition is safe in the composed system.
THEOREM DeliveryHandoffSafe == DeliverySpec => []OneEpochInFlight
  BY DeliveryImplementsPartitions, HandoffSafe, PTL
-----------------------------------------------------------------------------
\* The part of DeliveryTypeOK that OrderingPartitions does not give.
TablesTyped ==
    /\ event \in [Stream -> [Seqs -> EventRow]]
    /\ stream \in [Stream -> [start: Nat, next: Nat]]
    /\ writer \in [Stream -> [start: Nat, seqs: SUBSET Seqs]]
    /\ paused \in BOOLEAN
    /\ job \in [Worker -> {NoJob} \cup Job]
    /\ tail \in [Stream -> [seq: Nat, epoch: Nat]]

\* A stream row exists exactly when it has a start, and next never precedes it.
StreamOrdered ==
    \A st \in Stream :
        /\ stream[st].start = 0 => stream[st].next = 0
        /\ stream[st].start <= stream[st].next

\* What an open caller transaction will insert is absent and not yet passed.
WriterAhead ==
    \A st \in Stream :
        /\ writer[st].start = 0 => writer[st].seqs = {}
        /\ stream[st].start # 0 /\ writer[st].start # 0 => writer[st].start = stream[st].start
        /\ \A n \in writer[st].seqs :
              event[st][n].status = "absent" /\ n >= stream[st].next

CInv ==
    /\ TablesTyped
    /\ StreamOrdered
    /\ WriterAhead
    /\ CursorMatchesEvents

\* A worker with an attempt has a job.
Tracked ==
    \A w \in Worker : attempt[w].pc # "idle" => job[w].stage \in Stage

\* The rows the store writes without a lease.
LEMMA UnleasedTyped ==
    ASSUME NEW status \in Status, NEW attempts \in 0..MaxAttempts, NEW available \in Nat
    PROVE  /\ Unleased(status, attempts, available) \in EventRow
           /\ Unleased(status, attempts, available).status = status
  BY DEF Unleased, EventRow, Owner

\* Writing one row of the event table.
LEMMA RowWritten ==
    ASSUME NEW table \in [Stream -> [Seqs -> EventRow]], NEW st \in Stream, NEW n \in Seqs,
           NEW row \in EventRow, NEW written, written = [table EXCEPT ![st][n] = row]
    PROVE  /\ written \in [Stream -> [Seqs -> EventRow]] /\ written[st][n] = row
           /\ \A s \in Stream, m \in Seqs : s # st \/ m # n => written[s][m] = table[s][m]
  OBVIOUS

\* What a row of the event table holds.
LEMMA RowFields ==
    ASSUME NEW e \in EventRow
    PROVE  e.status \in Status /\ e.attempts \in 0..MaxAttempts /\ e.available \in Nat
  BY DEF EventRow

\* Moving a job to another stage.
LEMMA JobMoved ==
    ASSUME NEW jobs \in [Worker -> {NoJob} \cup Job], NEW w \in Worker, jobs[w] \in Job,
           NEW s \in Stage, NEW moved, moved = [jobs EXCEPT ![w].stage = s]
    PROVE  moved \in [Worker -> {NoJob} \cup Job]
  <1>1. [jobs[w] EXCEPT !.stage = s] \in Job
    BY DEF Job
  <1>2. moved = [jobs EXCEPT ![w] = [jobs[w] EXCEPT !.stage = s]]
    OBVIOUS
  <1> QED
    BY <1>1, <1>2

\* Without events and streams the cursor invariant holds.
LEMMA CInvInit == DeliveryInit => CInv
  <1> SUFFICES ASSUME DeliveryInit PROVE CInv
    OBVIOUS
  <1>1. Absent \in EventRow
    BY DeliveryConstants DEF Absent, Unleased, EventRow, Status, Owner
  <1>2. TablesTyped
    BY Zenon, <1>1 DEF DeliveryInit, TablesTyped, NoWriter, NoRecord
  <1>3. StreamOrdered /\ WriterAhead /\ CursorMatchesEvents
    BY DEF DeliveryInit, StreamOrdered, WriterAhead, CursorMatchesEvents, NoWriter, Absent,
           Unleased
  <1> QED
    BY <1>2, <1>3 DEF CInv

\* Events keep their place when no row is delivered, deleted, created or removed.
Settled == {"absent", "delivered", "deleted"}

\* A step that settles and unsettles no event keeps the cursor invariant.
LEMMA StatusKept ==
    ASSUME CInv, stream' = stream, writer' = writer,
           \A st \in Stream, n \in Seqs :
               \/ event'[st][n].status = event[st][n].status
               \/ event[st][n].status \notin Settled /\ event'[st][n].status \notin Settled
    PROVE  StreamOrdered' /\ WriterAhead' /\ CursorMatchesEvents'
  <1>1. \A st \in Stream : writer[st].seqs \subseteq Seqs
    BY Zenon DEF CInv, TablesTyped
  <1> QED
    BY <1>1 DEF CInv, StreamOrdered, WriterAhead, CursorMatchesEvents, Settled

\* The stream row a writer sees.
LEMMA StreamRowFacts ==
    ASSUME CInv, NEW st \in Stream, NEW start \in Nat
    PROVE  /\ StreamRow(st, start) \in [start: Nat, next: Nat]
           /\ StreamRow(st, start).start # 0
           /\ StreamRow(st, start).start <= StreamRow(st, start).next
           /\ stream[st].start # 0 => StreamRow(st, start) = stream[st]
           /\ stream[st].start = 0 => StreamRow(st, start).next = StreamRow(st, start).start
           /\ writer[st].start # 0 => StreamRow(st, start).start = writer[st].start
           /\ stream[st].next <= StreamRow(st, start).next
  BY DEF CInv, TablesTyped, StreamOrdered, WriterAhead, StreamRow

\* Enqueue only adds sequences at or above the cursor to its transaction.
LEMMA EnqueueKeeps ==
    ASSUME CInv, NEW st \in Stream, NEW n \in Seqs, NEW start \in Starts, Enqueue(st, n, start)
    PROVE  CInv'
  <1> DEFINE row == StreamRow(st, start)
  <1>1. start \in Nat
    BY Zenon, DeliveryConstants
  <1>2. /\ row \in [start: Nat, next: Nat] /\ row.start # 0 /\ stream[st].next <= row.next
        /\ stream[st].start # 0 => row = stream[st]
        /\ writer[st].start # 0 => row.start = writer[st].start
    BY Zenon, <1>1, StreamRowFacts
  <1>3. /\ event' = event /\ stream' = stream /\ job' = job /\ tail' = tail /\ paused' = paused
        /\ writer' = [writer EXCEPT ![st] = [start |-> row.start, seqs |-> writer[st].seqs \cup {n}]]
        /\ n >= row.next /\ event[st][n].status = "absent"
    BY DEF Enqueue
  <1>4. n \in Nat /\ stream[st].next \in Nat
    BY DeliveryConstants DEF Seqs, CInv, TablesTyped
  <1> HIDE DEF row
  <1>5. TablesTyped'
    BY Zenon, <1>2, <1>3 DEF CInv, TablesTyped
  <1>6. writer'[st] = [start |-> row.start, seqs |-> writer[st].seqs \cup {n}]
        /\ \A s \in Stream : s # st => writer'[s] = writer[s]
    BY Zenon, <1>3 DEF CInv, TablesTyped
  <1>7. WriterAhead'
    BY <1>2, <1>3, <1>4, <1>6 DEF CInv, WriterAhead
  <1> QED
    BY <1>3, <1>5, <1>7 DEF CInv, StreamOrdered, CursorMatchesEvents

\* A committed writer creates pending events at or above the cursor.
LEMMA WriterCommitsKeeps ==
    ASSUME CInv, now \in Nat, NEW st \in Stream, WriterCommits(st)
    PROVE  CInv'
  <1> DEFINE row == StreamRow(st, 0)
             pending == Unleased("pending", 0, now)
  <1>1. /\ row \in [start: Nat, next: Nat] /\ row.start # 0 /\ row.start <= row.next
        /\ stream[st].start # 0 => row = stream[st]
        /\ stream[st].start = 0 => row.next = row.start
    BY StreamRowFacts
  <1>2. pending \in EventRow /\ pending.status = "pending"
    BY DeliveryConstants DEF Unleased, EventRow, Status, Owner
  <1>3. /\ event' = [event EXCEPT ![st] =
                        [n \in Seqs |-> IF n \in writer[st].seqs THEN pending ELSE event[st][n]]]
        /\ stream' = [stream EXCEPT ![st] = row]
        /\ writer' = [writer EXCEPT ![st] = NoWriter]
        /\ job' = job /\ tail' = tail /\ paused' = paused
    BY DEF WriterCommits
  <1> HIDE DEF row, pending
  <1>4. /\ \A n \in Seqs : event'[st][n] = IF n \in writer[st].seqs THEN pending ELSE event[st][n]
        /\ stream'[st] = row /\ writer'[st] = NoWriter
        /\ \A s \in Stream : s # st => event'[s] = event[s] /\ stream'[s] = stream[s]
                                        /\ writer'[s] = writer[s]
    BY Zenon, <1>3 DEF CInv, TablesTyped
  <1>5. TablesTyped'
    BY Zenon, <1>1, <1>2, <1>3 DEF CInv, TablesTyped, NoWriter
  <1>6. StreamOrdered'
    BY Zenon, <1>1, <1>4 DEF CInv, StreamOrdered
  <1>7. WriterAhead'
    BY <1>4 DEF CInv, WriterAhead, NoWriter
  <1>8. ASSUME NEW n \in Seqs
        PROVE  event'[st][n].status \in {"delivered", "deleted"} <=>
                   row.start # 0 /\ row.start <= n /\ n < row.next
    <2>1. n \in Nat /\ row.start \in Nat /\ row.next \in Nat
      BY <1>1, DeliveryConstants DEF Seqs
    <2>2. event[st][n].status \in {"delivered", "deleted"} <=>
              stream[st].start # 0 /\ stream[st].start <= n /\ n < stream[st].next
      BY Zenon DEF CInv, CursorMatchesEvents
    <2>3. n \in writer[st].seqs => event[st][n].status = "absent"
      BY Zenon DEF CInv, WriterAhead
    <2>4. event'[st][n].status \in {"delivered", "deleted"} <=>
              event[st][n].status \in {"delivered", "deleted"}
      BY Zenon, <1>2, <1>4, <2>3
    <2> QED
      BY <1>1, <2>1, <2>2, <2>4
  <1>9. CursorMatchesEvents'
    BY <1>4, <1>8 DEF CInv, CursorMatchesEvents
  <1> QED
    BY Zenon, <1>5, <1>6, <1>7, <1>9 DEF CInv

\* A rolled-back writer leaves no event.
LEMMA WriterRollsBackKeeps ==
    ASSUME CInv, NEW st \in Stream, WriterRollsBack(st)
    PROVE  CInv'
  <1>1. TablesTyped'
    BY Zenon DEF CInv, TablesTyped, WriterRollsBack, NoWriter
  <1>2. WriterAhead'
    BY DEF CInv, TablesTyped, WriterAhead, WriterRollsBack, NoWriter
  <1> QED
    BY Zenon, <1>1, <1>2 DEF CInv, StreamOrdered, CursorMatchesEvents, WriterRollsBack

\* Where handle ends, the worker's job is over or becomes an orphaned request.
LEMMA DoneTyped ==
    ASSUME CInv, NEW w \in Worker, job[w] \in Job, Done(w)
    PROVE  job' \in [Worker -> {NoJob} \cup Job]
  <1>1. CASE job' = [job EXCEPT ![w] = NoJob]
    BY <1>1 DEF CInv, TablesTyped
  <1>2. CASE job' = [job EXCEPT ![w].stage = "orphan"]
    BY Zenon, <1>2, JobMoved DEF CInv, TablesTyped, Stage
  <1> QED
    BY <1>1, <1>2 DEF Done

\* A worker past "none" has a job.
LEMMA JobTyped ==
    ASSUME CInv, NEW w \in Worker, job[w].stage \in Stage
    PROVE  /\ job[w] \in Job /\ job[w].stream \in Stream /\ job[w].seq \in Seqs
           /\ event[job[w].stream][job[w].seq] \in EventRow
  <1>1. job[w] \in {NoJob} \cup Job
    BY DEF CInv, TablesTyped
  <1>2. job[w] # NoJob
    BY DEF NoJob, Stage
  <1> QED
    BY <1>1, <1>2 DEF CInv, TablesTyped, Job

\* A claim leases an unsettled event.
LEMMA ClaimOrderedKeeps ==
    ASSUME CInv, TypeOK, NEW w \in Worker, NEW st \in Stream, ClaimOrdered(w, st)
    PROVE  CInv'
  <1> DEFINE n == stream[st].next
             e == event[st][n]
             row == Leased(e, RelayOf[w], now + EventLease[RelayOf[w]])
  <1>1. /\ n \in Seqs /\ e.status \in {"pending", "inflight"}
        /\ event' = [event EXCEPT ![st][n] = row]
        /\ stream' = stream /\ writer' = writer /\ paused' = paused /\ tail' = tail
    BY Zenon DEF Expected, ClaimOrdered
  <1>2. e \in EventRow /\ RelayOf[w] \in Relay /\ now + EventLease[RelayOf[w]] \in Nat
    BY <1>1, ConstantsAssumption, DeliveryConstants DEF CInv, TablesTyped, TypeOK
  <1>3. row \in EventRow /\ row.status = "inflight"
    BY Zenon, <1>2 DEF Leased, EventRow, Status, Owner
  <1>4. job' \in [Worker -> {NoJob} \cup Job]
    <2>1. part[PartitionOf[st]].epoch \in Nat
      BY DeliveryConstants DEF TypeOK, Row
    <2>2. job' = [job EXCEPT ![w] =
                     [stage |-> "claimed", stream |-> st, seq |-> n,
                      epoch |-> part[PartitionOf[st]].epoch, since |-> now,
                      attempts |-> e.attempts, accepted |-> FALSE]]
      BY Zenon DEF Expected, ClaimOrdered
    <2>3. e.attempts \in 0..MaxAttempts /\ now \in Nat
      BY Zenon, <1>2 DEF EventRow, TypeOK
    <2> QED
      BY Zenon, <1>1, <2>1, <2>2, <2>3 DEF CInv, TablesTyped, Job, Stage
  <1> HIDE DEF row
  <1>5. /\ event' \in [Stream -> [Seqs -> EventRow]] /\ event'[st][n] = row
        /\ \A s \in Stream, m \in Seqs : s # st \/ m # n => event'[s][m] = event[s][m]
    BY <1>1, <1>3, RowWritten DEF CInv, TablesTyped
  <1> HIDE DEF n, e
  <1>6. TablesTyped'
    BY Zenon, <1>1, <1>4, <1>5 DEF CInv, TablesTyped
  <1>7. StreamOrdered' /\ WriterAhead' /\ CursorMatchesEvents'
    BY <1>1, <1>3, <1>5, StatusKept DEF Settled, e
  <1> QED
    BY Zenon, <1>6, <1>7 DEF CInv

\* Counting an attempt settles nothing, and the count stays within MaxAttempts.
LEMMA BeginOrderedAttemptKeeps ==
    ASSUME CInv, NEW w \in Worker, BeginOrderedAttempt(w)
    PROVE  CInv'
  <1> DEFINE st == job[w].stream
             n == job[w].seq
             e == event[st][n]
  <1>1. /\ job[w] \in Job /\ st \in Stream /\ n \in Seqs /\ e \in EventRow
    BY Zenon, JobTyped DEF AttemptsLeft, BeginOrderedAttempt, Stage
  <1>2. /\ e.attempts < MaxAttempts
        /\ event' = [event EXCEPT ![st][n].attempts = e.attempts + 1]
        /\ job' = [job EXCEPT ![w].stage = "begun", ![w].attempts = e.attempts + 1]
        /\ stream' = stream /\ writer' = writer /\ paused' = paused /\ tail' = tail
    BY Zenon DEF AttemptsLeft, BeginOrderedAttempt
  <1>3. e.attempts + 1 \in 0..MaxAttempts
    <2>1. e.attempts \in 0..MaxAttempts
      BY Zenon, <1>1 DEF EventRow
    <2> HIDE DEF e
    <2> QED
      BY <1>2, <2>1, DeliveryConstants
  <1>4. event' \in [Stream -> [Seqs -> EventRow]]
    BY Zenon, <1>1, <1>2, <1>3 DEF CInv, TablesTyped, EventRow
  <1>5. job' \in [Worker -> {NoJob} \cup Job]
    BY Zenon, <1>1, <1>2, <1>3 DEF CInv, TablesTyped, Job, Stage
  <1>6. \A s \in Stream, m \in Seqs : event'[s][m].status = event[s][m].status
    BY Zenon, <1>1, <1>2 DEF CInv, TablesTyped, EventRow
  <1>7. TablesTyped'
    BY Zenon, <1>2, <1>4, <1>5 DEF CInv, TablesTyped
  <1> QED
    BY Zenon, <1>2, <1>6, <1>7, StatusKept DEF CInv

\* Steps between the fence and the result touch no table.
LEMMA RequestKeeps ==
    ASSUME CInv, NEW w \in Worker,
           \/ Publish(w) \/ BrokerAcks(w) \/ PublishFails(w) \/ BrokerRejects(w)
           \/ BrokerAccepts(w) \/ LockForDelivery(w) \/ RequestEnds(w) \/ LeaveInflight(w)
    PROVE  CInv'
  <1>1. event' = event /\ stream' = stream /\ writer' = writer /\ paused' = paused
    BY DEF Publish, BrokerAcks, PublishFails, BrokerRejects, BrokerAccepts, LockForDelivery,
           RequestEnds, LeaveInflight
  <1>2. job' \in [Worker -> {NoJob} \cup Job] /\ tail' \in [Stream -> [seq: Nat, epoch: Nat]]
    <2>1. CASE Publish(w) \/ BrokerAcks(w) \/ PublishFails(w) \/ BrokerRejects(w)
               \/ LockForDelivery(w)
      <3>1. job[w] \in Job
        BY Zenon, <2>1, JobTyped
        DEF Publish, BrokerAcks, PublishFails, BrokerRejects, LockForDelivery, Stage
      <3>2. PICK s \in Stage : job' = [job EXCEPT ![w].stage = s]
        BY <2>1 DEF Publish, BrokerAcks, PublishFails, BrokerRejects, LockForDelivery, Stage
      <3>3. tail' = tail
        BY <2>1 DEF Publish, BrokerAcks, PublishFails, BrokerRejects, LockForDelivery
      <3> QED
        BY Zenon, <3>1, <3>2, <3>3, JobMoved DEF CInv, TablesTyped
    <2>2. CASE BrokerAccepts(w)
      <3>1. job[w] \in Job
        BY <2>2 DEF BrokerAccepts, CInv, TablesTyped
      <3>2. job' = [job EXCEPT ![w].accepted = TRUE]
            /\ tail' = [tail EXCEPT ![job[w].stream] = [seq |-> job[w].seq, epoch |-> job[w].epoch]]
        BY <2>2 DEF BrokerAccepts
      <3>3. job[w].seq \in Nat /\ job[w].epoch \in Nat
        BY <3>1, DeliveryConstants DEF Job, Seqs
      <3>4. job' \in [Worker -> {NoJob} \cup Job]
        BY Zenon, <3>1, <3>2 DEF CInv, TablesTyped, Job
      <3> QED
        BY Zenon, <3>2, <3>3, <3>4 DEF CInv, TablesTyped
    <2>3. CASE RequestEnds(w)
      BY <2>3 DEF RequestEnds, CInv, TablesTyped
    <2>4. CASE LeaveInflight(w)
      BY <2>4, JobTyped, DoneTyped DEF LeaveInflight, CInv, TablesTyped
    <2> QED
      BY <2>1, <2>2, <2>3, <2>4
  <1>3. TablesTyped'
    BY <1>1, <1>2 DEF CInv, TablesTyped
  <1> QED
    BY Zenon, <1>1, <1>3, StatusKept DEF CInv

\* A crash changes no table.
LEMMA RelayCrashesKeeps ==
    ASSUME CInv, Tracked, NEW r \in Relay, RelayCrashes(r)
    PROVE  CInv'
  <1>1. event' = event /\ stream' = stream /\ writer' = writer /\ paused' = paused /\ tail' = tail
    BY DEF RelayCrashes
  <1>2. job' \in [Worker -> {NoJob} \cup Job]
    <2>1. job' = [w \in Worker |->
                     IF RelayOf[w] # r THEN job[w]
                     ELSE IF attempt[w].pc = "sent" THEN [job[w] EXCEPT !.stage = "orphan"]
                     ELSE NoJob]
      BY DEF RelayCrashes
    <2>2. ASSUME NEW w \in Worker, attempt[w].pc = "sent"
          PROVE  [job[w] EXCEPT !.stage = "orphan"] \in Job
      <3>1. job[w] \in Job
        BY <2>2, JobTyped DEF Tracked
      <3> QED
        BY <3>1 DEF Job, Stage
    <2> QED
      BY <2>1, <2>2 DEF CInv, TablesTyped
  <1>3. TablesTyped'
    BY <1>1, <1>2 DEF CInv, TablesTyped
  <1> QED
    BY <1>1, <1>3, StatusKept DEF CInv

\* The delivered mark moves the cursor and its event together, or neither.
LEMMA MarkOrderedDeliveredKeeps ==
    ASSUME CInv, NEW w \in Worker, MarkOrderedDelivered(w)
    PROVE  CInv'
  <1> DEFINE st == job[w].stream
             n == job[w].seq
             e == event[st][n]
             row == Unleased("delivered", e.attempts, e.available)
  <1>1. job[w] \in Job /\ st \in Stream /\ n \in Seqs /\ e \in EventRow
    BY JobTyped DEF MarkOrderedDelivered, Stage
  <1>2. /\ writer[st] = NoWriter /\ writer' = writer /\ paused' = paused /\ tail' = tail
        /\ job' \in [Worker -> {NoJob} \cup Job]
    BY <1>1, DoneTyped DEF MarkOrderedDelivered
  <1>3. row \in EventRow /\ row.status = "delivered" /\ n \in Nat /\ n # 0
    <2>1. row \in EventRow /\ row.status = "delivered"
      <3> HIDE DEF e
      <3> QED
        BY <1>1, RowFields, UnleasedTyped DEF Status
    <2>2. n \in Nat /\ n # 0
      <3> HIDE DEF n
      <3> QED
        BY <1>1, DeliveryConstants DEF Seqs
    <2> QED
      BY Zenon, <2>1, <2>2
  <1>4. CASE stream[st].next # n
    <2>1. event' = event /\ stream' = stream
      BY <1>4 DEF MarkOrderedDelivered
    <2>2. TablesTyped'
      BY <1>2, <2>1 DEF CInv, TablesTyped
    <2> QED
      BY <1>2, <2>1, <2>2, StatusKept DEF CInv
  <1>5. CASE stream[st].next = n
    <2>1. /\ stream' = [stream EXCEPT ![st].next = n + 1]
          /\ event' = [event EXCEPT ![st][n] = row]
      BY <1>5 DEF MarkOrderedDelivered
    <2> HIDE DEF row
    <2>2. /\ event' \in [Stream -> [Seqs -> EventRow]] /\ event'[st][n] = row
          /\ \A s \in Stream, m \in Seqs : s # st \/ m # n => event'[s][m] = event[s][m]
      BY <1>1, <1>3, <2>1, RowWritten DEF CInv, TablesTyped
    <2>3. /\ stream' \in [Stream -> [start: Nat, next: Nat]]
          /\ stream'[st].next = n + 1 /\ stream'[st].start = stream[st].start
          /\ \A s \in Stream : s # st => stream'[s] = stream[s]
      <3> DEFINE k == n + 1
      <3>1. k \in Nat /\ stream' = [stream EXCEPT ![st].next = k]
        BY <1>3, <2>1
      <3> HIDE DEF k
      <3>2. /\ stream' \in [Stream -> [start: Nat, next: Nat]]
            /\ stream'[st].next = k /\ stream'[st].start = stream[st].start
            /\ \A s \in Stream : s # st => stream'[s] = stream[s]
        BY <1>1, <3>1 DEF CInv, TablesTyped
      <3> QED
        BY <3>2 DEF k
    <2>4. stream[st].start # 0 /\ stream[st].start <= n /\ stream[st].start \in Nat
      BY <1>1, <1>3, <1>5 DEF CInv, TablesTyped, StreamOrdered
    <2> HIDE DEF st, n, e
    <2>5. StreamOrdered'
      BY <1>1, <1>3, <2>3, <2>4 DEF CInv, StreamOrdered
    <2>6. WriterAhead'
      <3>1. \A s \in Stream : writer[s].seqs \subseteq Seqs
        BY DEF CInv, TablesTyped
      <3> QED
        BY SMTT(30), <1>2, <2>2, <2>3, <3>1 DEF CInv, WriterAhead, NoWriter
    <2>7. CursorMatchesEvents'
      <3>1. ASSUME NEW m \in Seqs
            PROVE  event'[st][m].status \in {"delivered", "deleted"} <=>
                       stream[st].start # 0 /\ stream[st].start <= m /\ m < n + 1
        <4>1. m \in Nat
          BY DeliveryConstants DEF Seqs
        <4>2. event[st][m].status \in {"delivered", "deleted"} <=>
                  stream[st].start # 0 /\ stream[st].start <= m /\ m < n
          BY <1>1, <1>5 DEF CInv, CursorMatchesEvents
        <4>3. CASE m = n
          BY <1>1, <1>3, <2>2, <2>4, <4>3
        <4>4. CASE m # n
          BY <1>1, <1>3, <2>2, <4>1, <4>2, <4>4
        <4> QED
          BY <4>3, <4>4
      <3>2. ASSUME NEW s \in Stream, s # st, NEW m \in Seqs
            PROVE  event'[s][m].status \in {"delivered", "deleted"} <=>
                       stream'[s].start # 0 /\ stream'[s].start <= m /\ m < stream'[s].next
        <4>1. event'[s][m] = event[s][m] /\ stream'[s] = stream[s]
          BY <2>2, <2>3, <3>2
        <4> QED
          BY <4>1 DEF CInv, CursorMatchesEvents
      <3> QED
        BY <2>3, <3>1, <3>2 DEF CursorMatchesEvents
    <2>8. TablesTyped'
      BY <1>2, <2>2, <2>3 DEF CInv, TablesTyped
    <2> QED
      BY <2>5, <2>6, <2>7, <2>8 DEF CInv
  <1> QED
    BY <1>4, <1>5

\* The retry mark settles nothing.
LEMMA MarkOrderedRetryKeeps ==
    ASSUME CInv, TypeOK, NEW w \in Worker, NEW delay \in Delays, MarkOrderedRetry(w, delay)
    PROVE  CInv'
  <1> DEFINE st == job[w].stream
             n == job[w].seq
             e == event[st][n]
             row == Unleased("pending", e.attempts, now + delay)
  <1>1. job[w] \in Job /\ st \in Stream /\ n \in Seqs /\ e \in EventRow
    BY Zenon, JobTyped DEF MarkOrderedRetry, Stage
  <1>2. /\ writer' = writer /\ paused' = paused /\ tail' = tail /\ stream' = stream
        /\ job' \in [Worker -> {NoJob} \cup Job]
        /\ e.status = "inflight" /\ event' = [event EXCEPT ![st][n] = row]
    BY <1>1, DoneTyped DEF MarkOrderedRetry, HoldsEvent
  <1>3. now + delay \in Nat
    BY DeliveryConstants DEF TypeOK
  <1>4. row \in EventRow /\ row.status = "pending"
    <2> HIDE DEF e
    <2> QED
      BY <1>1, <1>3, RowFields, UnleasedTyped DEF Status
  <1> HIDE DEF row
  <1>5. /\ event' \in [Stream -> [Seqs -> EventRow]] /\ event'[st][n] = row
        /\ \A s \in Stream, m \in Seqs : s # st \/ m # n => event'[s][m] = event[s][m]
    BY <1>1, <1>2, <1>4, RowWritten DEF CInv, TablesTyped
  <1>6. TablesTyped'
    BY ZenonT(30), <1>2, <1>5 DEF CInv, TablesTyped
  <1>7. StreamOrdered' /\ WriterAhead' /\ CursorMatchesEvents'
    BY <1>2, <1>4, <1>5, StatusKept DEF Settled
  <1> QED
    BY <1>6, <1>7 DEF CInv

\* The dead mark leaves the event unsettled below no cursor.
LEMMA MarkOrderedDeadKeeps ==
    ASSUME CInv, NEW w \in Worker, MarkOrderedDead(w)
    PROVE  CInv'
  <1> DEFINE st == job[w].stream
             n == job[w].seq
             e == event[st][n]
             row == Unleased("dead", e.attempts, e.available)
  <1>1. job[w] \in Job /\ st \in Stream /\ n \in Seqs /\ e \in EventRow
    BY Zenon, JobTyped DEF AttemptsLeft, MarkOrderedDead, Stage
  <1>2. /\ writer' = writer /\ paused' = paused /\ tail' = tail /\ stream' = stream
        /\ job' \in [Worker -> {NoJob} \cup Job]
        /\ e.status = "inflight" /\ event' = [event EXCEPT ![st][n] = row]
    BY <1>1, DoneTyped DEF AttemptsLeft, MarkOrderedDead, HoldsEvent
  <1>3. row \in EventRow /\ row.status = "dead"
    <2> HIDE DEF e
    <2> QED
      BY <1>1, RowFields, UnleasedTyped DEF Status
  <1> HIDE DEF row
  <1>4. /\ event' \in [Stream -> [Seqs -> EventRow]] /\ event'[st][n] = row
        /\ \A s \in Stream, m \in Seqs : s # st \/ m # n => event'[s][m] = event[s][m]
    BY <1>1, <1>2, <1>3, RowWritten DEF CInv, TablesTyped
  <1>5. TablesTyped'
    BY ZenonT(30), <1>2, <1>4 DEF CInv, TablesTyped
  <1>6. StreamOrdered' /\ WriterAhead' /\ CursorMatchesEvents'
    BY <1>2, <1>3, <1>4, StatusKept DEF Settled
  <1> QED
    BY Zenon, <1>5, <1>6 DEF CInv

\* Operator actions, retention, ownership and time.
LEMMA RetryDeadKeeps ==
    ASSUME CInv, TypeOK, NEW st \in Stream, NEW n \in Seqs, RetryDead(st, n)
    PROVE  CInv'
  <1> DEFINE row == Unleased("pending", 0, now)
  <1>1. /\ event[st][n].status = "dead" /\ event' = [event EXCEPT ![st][n] = row]
        /\ stream' = stream /\ writer' = writer /\ paused' = paused /\ job' = job /\ tail' = tail
    BY DEF RetryDead
  <1>2. row \in EventRow /\ row.status = "pending"
    BY DeliveryConstants DEF Unleased, EventRow, Status, Owner, TypeOK
  <1> HIDE DEF row
  <1>3. /\ event' \in [Stream -> [Seqs -> EventRow]] /\ event'[st][n] = row
        /\ \A s \in Stream, m \in Seqs : s # st \/ m # n => event'[s][m] = event[s][m]
    BY <1>1, <1>2, RowWritten DEF CInv, TablesTyped
  <1>4. TablesTyped'
    BY <1>1, <1>3 DEF CInv, TablesTyped
  <1>5. StreamOrdered' /\ WriterAhead' /\ CursorMatchesEvents'
    BY <1>1, <1>2, <1>3, StatusKept DEF Settled
  <1> QED
    BY <1>4, <1>5 DEF CInv

\* Cleanup removes only events below the cursor.
LEMMA CleanupDeliveredKeeps ==
    ASSUME CInv, NEW st \in Stream, NEW n \in Seqs, CleanupDelivered(st, n)
    PROVE  CInv'
  <1> DEFINE row == Unleased("deleted", 0, 0)
  <1>1. /\ event[st][n].status = "delivered" /\ event' = [event EXCEPT ![st][n] = row]
        /\ stream' = stream /\ writer' = writer /\ paused' = paused /\ job' = job /\ tail' = tail
    BY DEF CleanupDelivered
  <1>2. row \in EventRow /\ row.status = "deleted"
    BY DeliveryConstants DEF Unleased, EventRow, Status, Owner
  <1> HIDE DEF row
  <1>3. /\ event' \in [Stream -> [Seqs -> EventRow]] /\ event'[st][n] = row
        /\ \A s \in Stream, m \in Seqs : s # st \/ m # n => event'[s][m] = event[s][m]
    BY <1>1, <1>2, RowWritten DEF CInv, TablesTyped
  <1>4. TablesTyped'
    BY <1>1, <1>3 DEF CInv, TablesTyped
  <1>5. CursorMatchesEvents' /\ StreamOrdered'
    BY <1>1, <1>2, <1>3 DEF CInv, CursorMatchesEvents, StreamOrdered
  <1>6. WriterAhead'
    <2>1. \A s \in Stream : writer[s].seqs \subseteq Seqs
      BY DEF CInv, TablesTyped
    <2> QED
      BY <1>1, <1>3, <2>1 DEF CInv, WriterAhead
  <1> QED
    BY <1>4, <1>5, <1>6 DEF CInv

\* Every step keeps the cursor invariant.
LEMMA CInvNext ==
    ASSUME CInv, Tracked, TypeOK, [DeliveryNext]_allVars
    PROVE  CInv'
  <1>1. CASE \E st \in Stream, n \in Seqs, start \in Starts : Enqueue(st, n, start)
    BY <1>1, EnqueueKeeps
  <1>2. CASE \E st \in Stream : WriterCommits(st) \/ WriterRollsBack(st)
    BY <1>2, WriterCommitsKeeps, WriterRollsBackKeeps DEF TypeOK
  <1>3. CASE \E w \in Worker, st \in Stream : ClaimOrdered(w, st)
    BY <1>3, ClaimOrderedKeeps
  <1>4. CASE \E w \in Worker : BeginOrderedAttempt(w)
    BY <1>4, BeginOrderedAttemptKeeps
  <1>5. CASE \E w \in Worker :
                \/ Publish(w) \/ BrokerAcks(w) \/ PublishFails(w) \/ BrokerRejects(w)
                \/ BrokerAccepts(w) \/ LockForDelivery(w) \/ RequestEnds(w) \/ LeaveInflight(w)
    BY <1>5, RequestKeeps
  <1>6. CASE \E w \in Worker : MarkOrderedDelivered(w)
    BY <1>6, MarkOrderedDeliveredKeeps
  <1>7. CASE \E w \in Worker, delay \in Delays : MarkOrderedRetry(w, delay)
    BY <1>7, MarkOrderedRetryKeeps
  <1>8. CASE \E w \in Worker : MarkOrderedDead(w)
    BY <1>8, MarkOrderedDeadKeeps
  <1>9. CASE \E r \in Relay : RelayCrashes(r)
    BY <1>9, RelayCrashesKeeps
  <1>10. CASE \E st \in Stream, n \in Seqs : RetryDead(st, n)
    BY <1>10, RetryDeadKeeps
  <1>11. CASE \E st \in Stream, n \in Seqs : CleanupDelivered(st, n)
    BY <1>11, CleanupDeliveredKeeps
  <1>12. CASE (\E value \in Pauses : SetPaused(value)) \/ Ownership \/ TimePasses
              \/ UNCHANGED allVars
    <2>1. /\ event' = event /\ stream' = stream /\ writer' = writer /\ job' = job /\ tail' = tail
          /\ paused' \in BOOLEAN
      BY <1>12, DeliveryConstants
      DEF SetPaused, Ownership, TimePasses, deliveryVars, allVars, CInv, TablesTyped
    <2> QED
      BY <2>1 DEF CInv, TablesTyped, StreamOrdered, WriterAhead, CursorMatchesEvents
  <1> QED
    BY <1>1, <1>2, <1>3, <1>4, <1>5, <1>6, <1>7, <1>8, <1>9, <1>10, <1>11, <1>12 DEF DeliveryNext

\* Every step keeps the jobs and the attempts together.
LEMMA TrackedNext ==
    ASSUME CInv, Tracked, TypeOK, [DeliveryNext]_allVars
    PROVE  Tracked'
  <1>0. \A w \in Worker : job[w] = NoJob \/ job[w] \in Job
    BY DEF CInv, TablesTyped
  <1>1. CASE attempt' = attempt /\ job' = job
    BY <1>1 DEF Tracked
  <1>2. CASE \E w \in Worker, st \in Stream : ClaimOrdered(w, st)
    <2>1. PICK w \in Worker, st \in Stream : ClaimOrdered(w, st)
      BY <1>2
    <2>2. /\ job'[w].stage = "claimed"
          /\ \A v \in Worker : v # w => job'[v] = job[v] /\ attempt'[v] = attempt[v]
      BY Zenon, <2>1 DEF Expected, ClaimOrdered, Claim, CInv, TablesTyped, TypeOK
    <2> QED
      BY <2>2 DEF Tracked, Stage
  <1>3. CASE \E w \in Worker : \/ BeginOrderedAttempt(w) \/ Publish(w) \/ BrokerAcks(w)
                               \/ PublishFails(w) \/ BrokerRejects(w) \/ LockForDelivery(w)
    <2>1. PICK w \in Worker : \/ BeginOrderedAttempt(w) \/ Publish(w) \/ BrokerAcks(w)
                              \/ PublishFails(w) \/ BrokerRejects(w) \/ LockForDelivery(w)
      BY <1>3
    <2>2. job[w] \in Job
      BY Zenon, <2>1, JobTyped DEF AttemptsLeft, BeginOrderedAttempt, Publish, BrokerAcks, PublishFails, BrokerRejects,
                            LockForDelivery, Stage
    <2>3. /\ job'[w].stage \in Stage
          /\ \A v \in Worker : v # w => job'[v] = job[v]
      BY <2>1, <2>2 DEF AttemptsLeft, BeginOrderedAttempt, Publish, BrokerAcks, PublishFails, BrokerRejects,
                        LockForDelivery, Stage, CInv, TablesTyped, Job
    <2>4. \A v \in Worker : v # w => attempt'[v] = attempt[v]
      BY Zenon, <2>1 DEF AttemptsLeft, BeginOrderedAttempt, Publish, BrokerAcks, PublishFails, BrokerRejects,
                  LockForDelivery, Begin, Send, Finish, TypeOK, vars
    <2> QED
      BY <2>3, <2>4 DEF Tracked
  <1>4. CASE \E w \in Worker : BrokerAccepts(w)
    <2>1. PICK w \in Worker : BrokerAccepts(w)
      BY <1>4
    <2>2. job[w] \in Job
      BY <2>1, <1>0 DEF BrokerAccepts
    <2>3. attempt' = attempt /\ \A v \in Worker : job'[v].stage = job[v].stage
      BY <2>1, <2>2 DEF BrokerAccepts, vars, CInv, TablesTyped, Job
    <2> QED
      BY <2>3 DEF Tracked
  <1>5. CASE \E w \in Worker : Done(w) /\ job[w].stage \in Stage
    <2>1. PICK w \in Worker : Done(w) /\ job[w].stage \in Stage
      BY <1>5
    <2>2. job[w] \in Job
      BY <2>1, JobTyped
    <2>3. \A v \in Worker : v # w => job'[v] = job[v] /\ attempt'[v] = attempt[v]
      BY <2>1 DEF Done, Finish, CInv, TablesTyped, TypeOK, vars
    <2>4. attempt'[w].pc # "idle" => job'[w].stage \in Stage
      BY <2>1, <2>2 DEF Done, Finish, CInv, TablesTyped, TypeOK, vars, Idle, Stage, Job
    <2> QED
      BY <2>3, <2>4 DEF Tracked
  <1>6. CASE \E w \in Worker : RequestEnds(w)
    BY <1>6 DEF RequestEnds, Finish, Tracked, CInv, TablesTyped, TypeOK, Idle
  <1>7. CASE \E r \in Relay : RelayCrashes(r)
    <2>1. PICK r \in Relay : RelayCrashes(r)
      BY <1>7
    <2>2. ASSUME NEW w \in Worker, attempt'[w].pc # "idle"
          PROVE  job'[w].stage \in Stage
      <3>1. attempt'[w] = attempt[w] /\ (RelayOf[w] = r => attempt[w].pc = "sent")
        BY <2>1, <2>2 DEF RelayCrashes, Crash, Idle
      <3>2. job[w].stage \in Stage /\ job[w] \in Job
        BY <2>2, <3>1, JobTyped DEF Tracked
      <3>3. RelayOf[w] = r => job'[w] = [job[w] EXCEPT !.stage = "orphan"]
        BY <2>1, <3>1 DEF RelayCrashes
      <3>4. RelayOf[w] # r => job'[w] = job[w]
        BY <2>1 DEF RelayCrashes
      <3> QED
        BY <3>2, <3>3, <3>4 DEF Job, Stage
    <2> QED
      BY <2>2 DEF Tracked
  <1>8. CASE TimePasses \/ Ownership
    BY <1>1, <1>8 DEF TimePasses, Ownership, Tick, Reconcile, Release, deliveryVars
  <1>9. CASE \/ \E st \in Stream, n \in Seqs, start \in Starts : Enqueue(st, n, start)
             \/ \E st \in Stream : WriterCommits(st) \/ WriterRollsBack(st)
             \/ \E st \in Stream, n \in Seqs : RetryDead(st, n) \/ CleanupDelivered(st, n)
             \/ \E value \in Pauses : SetPaused(value)
             \/ UNCHANGED allVars
    <2>1. UNCHANGED <<vars, job>>
      BY <1>9, Zenon DEF Enqueue, WriterCommits, WriterRollsBack, RetryDead, CleanupDelivered,
                         SetPaused, allVars, deliveryVars
    <2> QED
      BY <1>1, <2>1 DEF vars
  <1>10. CASE \/ \E w \in Worker : MarkOrderedDelivered(w)
              \/ \E w \in Worker, delay \in Delays : MarkOrderedRetry(w, delay)
              \/ \E w \in Worker : MarkOrderedDead(w)
              \/ \E w \in Worker : LeaveInflight(w)
    BY Zenon, <1>5, <1>10 DEF MarkOrderedDelivered, MarkOrderedRetry, MarkOrderedDead, LeaveInflight, Stage
  <1> QED
    BY <1>2, <1>3, <1>4, <1>6, <1>7, <1>8, <1>9, <1>10 DEF DeliveryNext

\* The inductive invariant holds in every reachable state.
LEMMA DeliveryInvariance == DeliverySpec => [](CInv /\ Tracked)
  <1>1. DeliveryInit => CInv /\ Tracked
    <2>1. DeliveryInit => Tracked
      BY DEF DeliveryInit, Init, Idle, Tracked
    <2> QED
      BY <2>1, CInvInit
  <1>2. CInv /\ Tracked /\ TypeOK /\ [DeliveryNext]_allVars => (CInv /\ Tracked)'
    BY CInvNext, TrackedNext
  <1>3. DeliverySpec => []TypeOK
    BY DeliveryImplementsPartitions, TypeCorrect, PTL
  <1> QED
    BY <1>1, <1>2, <1>3, PTL DEF DeliverySpec

\* The rows of the delivery tables keep their types.
THEOREM DeliveryTypeCorrect == DeliverySpec => []DeliveryTypeOK
  <1>1. CInv /\ TypeOK => DeliveryTypeOK
    BY DEF CInv, TablesTyped, DeliveryTypeOK
  <1>2. DeliverySpec => []TypeOK
    BY DeliveryImplementsPartitions, TypeCorrect, PTL
  <1> QED
    BY <1>1, <1>2, DeliveryInvariance, PTL

\* However handlers stall, writers hold stream locks and relays die, the cursor
\* of a stream and its delivered rows never disagree.
THEOREM CursorSafe == DeliverySpec => []CursorMatchesEvents
  <1>1. CInv => CursorMatchesEvents
    BY DEF CInv
  <1> QED
    BY <1>1, DeliveryInvariance, PTL
-----------------------------------------------------------------------------
\* A worker's attempt is at the partition and in the epoch of its job.
Linked ==
    \A w \in Worker :
        attempt[w].pc # "idle" =>
            /\ attempt[w].partition = PartitionOf[job[w].stream]
            /\ attempt[w].epoch = job[w].epoch

\* Nothing in the log is of a later epoch than the partition, nor than any
\* request that may still be appended.
TailBehind ==
    \A st \in Stream :
        /\ tail[st].epoch <= part[PartitionOf[st]].epoch
        /\ \A w \in Worker :
              InFlight(w) /\ attempt[w].partition = PartitionOf[st] =>
                  tail[st].epoch <= attempt[w].epoch

\* A worker that has an attempt after a step has just claimed, or had it before
\* and keeps the stream and the epoch of its job.
LEMMA JobKept ==
    ASSUME CInv, Tracked, TypeOK, [DeliveryNext]_allVars, NEW w \in Worker,
           attempt'[w].pc # "idle"
    PROVE  \/ \E st \in Stream : ClaimOrdered(w, st)
           \/ /\ attempt[w].pc # "idle"
              /\ job'[w].stream = job[w].stream /\ job'[w].epoch = job[w].epoch
  <1> DEFINE Kept == /\ attempt[w].pc # "idle"
                     /\ job'[w].stream = job[w].stream /\ job'[w].epoch = job[w].epoch
  <1>0. \A v \in Worker : job[v] = NoJob \/ job[v] \in Job
    BY Zenon DEF CInv, TablesTyped
  <1>1. CASE attempt' = attempt /\ job' = job
    BY <1>1
  <1>2. CASE \E v \in Worker, st \in Stream : ClaimOrdered(v, st)
    <2>1. PICK v \in Worker, st \in Stream : ClaimOrdered(v, st)
      BY <1>2
    <2>2. v # w => job'[w] = job[w] /\ attempt'[w] = attempt[w]
      BY Zenon, <2>1 DEF Expected, ClaimOrdered, Claim, CInv, TablesTyped, TypeOK
    <2> QED
      BY <2>1, <2>2
  <1>3. CASE \E v \in Worker : \/ BeginOrderedAttempt(v) \/ Publish(v) \/ BrokerAcks(v)
                               \/ PublishFails(v) \/ BrokerRejects(v) \/ LockForDelivery(v)
    <2>1. PICK v \in Worker : \/ BeginOrderedAttempt(v) \/ Publish(v) \/ BrokerAcks(v)
                              \/ PublishFails(v) \/ BrokerRejects(v) \/ LockForDelivery(v)
      BY <1>3
    <2>2. job[v] \in Job
      BY Zenon, <2>1, JobTyped DEF AttemptsLeft, BeginOrderedAttempt, Publish, BrokerAcks, PublishFails,
                            BrokerRejects, LockForDelivery, Stage
    <2>3. job'[w].stream = job[w].stream /\ job'[w].epoch = job[w].epoch
      <3>1. \/ \E s \in Stage : job' = [job EXCEPT ![v].stage = s]
            \/ \E n : job' = [job EXCEPT ![v].stage = "begun", ![v].attempts = n]
        BY Zenon, <2>1 DEF BeginOrderedAttempt, Publish, BrokerAcks, PublishFails, BrokerRejects,
                    LockForDelivery, Stage
      <3>2. ASSUME NEW t \in Stage, job' = [job EXCEPT ![v].stage = t]
            PROVE  job'[w].stream = job[w].stream /\ job'[w].epoch = job[w].epoch
        BY <2>2, <3>2 DEF CInv, TablesTyped, Job
      <3>3. ASSUME NEW n, job' = [job EXCEPT ![v].stage = "begun", ![v].attempts = n]
            PROVE  job'[w].stream = job[w].stream /\ job'[w].epoch = job[w].epoch
        BY <2>2, <3>3 DEF CInv, TablesTyped, Job
      <3> QED
        BY <3>1, <3>2, <3>3
    <2>4. attempt[w].pc # "idle"
      <3>1. \/ Begin(v) \/ Send(v) \/ Finish(v) \/ attempt' = attempt
        BY Zenon, <2>1 DEF BeginOrderedAttempt, Publish, BrokerAcks, PublishFails, BrokerRejects,
                    LockForDelivery, vars
      <3>2. v # w => attempt'[w] = attempt[w]
        BY ZenonT(30), <3>1 DEF Begin, Send, Finish, TypeOK
      <3>3. v = w => attempt[w].pc # "idle"
        BY <3>1 DEF Begin, Send, Finish, TypeOK, Idle
      <3> QED
        BY <3>2, <3>3
    <2> QED
      BY <2>3, <2>4
  <1>4. CASE \E v \in Worker : BrokerAccepts(v)
    <2>1. PICK v \in Worker : BrokerAccepts(v)
      BY <1>4
    <2>2. job[v] \in Job
      BY <2>1, <1>0 DEF BrokerAccepts
    <2>3. attempt' = attempt /\ job'[w].stream = job[w].stream /\ job'[w].epoch = job[w].epoch
      BY Zenon, <2>1, <2>2 DEF BrokerAccepts, vars, CInv, TablesTyped, Job
    <2> QED
      BY <2>3
  <1>5. CASE \E v \in Worker : Done(v) /\ job[v].stage \in Stage
    <2>1. PICK v \in Worker : Done(v) /\ job[v].stage \in Stage
      BY Zenon, <1>5
    <2>2. job[v] \in Job
      BY <2>1, JobTyped
    <2>3. v # w => job'[w] = job[w] /\ attempt'[w] = attempt[w]
      BY <2>1 DEF Done, Finish, CInv, TablesTyped, TypeOK, vars
    <2>4. v = w => Kept
      BY <2>1, <2>2 DEF Done, Finish, CInv, TablesTyped, TypeOK, vars, Idle, Job
    <2> QED
      BY <2>3, <2>4
  <1>6. CASE \E v \in Worker : RequestEnds(v)
    BY <1>6 DEF RequestEnds, Finish, CInv, TablesTyped, TypeOK, Idle
  <1>7. CASE \E r \in Relay : RelayCrashes(r)
    <2>1. PICK r \in Relay : RelayCrashes(r)
      BY <1>7
    <2>2. attempt'[w] = attempt[w] /\ (RelayOf[w] = r => attempt[w].pc = "sent")
      BY Zenon, <2>1 DEF RelayCrashes, Crash, Idle
    <2>3. job[w] \in Job
      BY <2>2, JobTyped DEF Tracked
    <2>4. \/ job'[w] = [job[w] EXCEPT !.stage = "orphan"]
          \/ job'[w] = job[w]
      BY Zenon, <2>1, <2>2 DEF RelayCrashes
    <2> QED
      BY <2>2, <2>3, <2>4 DEF Job
  <1>8. CASE TimePasses \/ Ownership
    BY <1>1, <1>8 DEF TimePasses, Ownership, Tick, Reconcile, Release, deliveryVars
  <1>9. CASE \/ \E st \in Stream, n \in Seqs, start \in Starts : Enqueue(st, n, start)
             \/ \E st \in Stream : WriterCommits(st) \/ WriterRollsBack(st)
             \/ \E st \in Stream, n \in Seqs : RetryDead(st, n) \/ CleanupDelivered(st, n)
             \/ \E value \in Pauses : SetPaused(value)
             \/ UNCHANGED allVars
    <2>1. UNCHANGED <<vars, job>>
      BY <1>9, Zenon DEF Enqueue, WriterCommits, WriterRollsBack, RetryDead, CleanupDelivered,
                         SetPaused, allVars, deliveryVars
    <2> QED
      BY <1>1, <2>1 DEF vars
  <1>10. CASE \/ \E v \in Worker : MarkOrderedDelivered(v)
              \/ \E v \in Worker, delay \in Delays : MarkOrderedRetry(v, delay)
              \/ \E v \in Worker : MarkOrderedDead(v)
              \/ \E v \in Worker : LeaveInflight(v)
    BY Zenon, <1>5, <1>10 DEF MarkOrderedDelivered, MarkOrderedRetry, MarkOrderedDead, LeaveInflight, Stage
  <1> QED
    BY Zenon, <1>2, <1>3, <1>4, <1>6, <1>7, <1>8, <1>9, <1>10 DEF DeliveryNext

\* Every step keeps attempts and jobs linked.
LEMMA LinkedNext ==
    ASSUME CInv, Tracked, TypeOK, Linked, [DeliveryNext]_allVars
    PROVE  Linked'
  <1> SUFFICES ASSUME NEW w \in Worker, attempt'[w].pc # "idle"
               PROVE  /\ attempt'[w].partition = PartitionOf[job'[w].stream]
                      /\ attempt'[w].epoch = job'[w].epoch
    BY DEF Linked
  <1>1. CASE \E st \in Stream : ClaimOrdered(w, st)
    <2>1. PICK st \in Stream : ClaimOrdered(w, st)
      BY Zenon, <1>1
    <2>2. attempt'[w] = [pc |-> "claimed", partition |-> PartitionOf[st],
                         epoch |-> part[PartitionOf[st]].epoch]
      BY <2>1 DEF ClaimOrdered, Claim, TypeOK
    <2>3. job'[w].stream = st /\ job'[w].epoch = part[PartitionOf[st]].epoch
      BY Zenon, <2>1 DEF ClaimOrdered, CInv, TablesTyped
    <2> QED
      BY <2>2, <2>3
  <1>2. CASE /\ attempt[w].pc # "idle"
             /\ job'[w].stream = job[w].stream /\ job'[w].epoch = job[w].epoch
    BY <1>2, StepImplements, AttemptKept DEF Linked
  <1> QED
    BY Zenon, <1>1, <1>2, JobKept

\* Only the broker's acceptance touches the log.
LEMMA TailKept ==
    ASSUME [DeliveryNext]_allVars, ~ \E w \in Worker : BrokerAccepts(w)
    PROVE  tail' = tail
  BY Zenon DEF DeliveryNext, allVars, deliveryVars, Enqueue, WriterCommits, WriterRollsBack,
         ClaimOrdered, BeginOrderedAttempt, Publish, BrokerAcks, PublishFails, BrokerRejects,
         LockForDelivery, MarkOrderedDelivered, MarkOrderedRetry, MarkOrderedDead, LeaveInflight,
         RequestEnds, RelayCrashes, RetryDead, CleanupDelivered, SetPaused, Ownership, TimePasses

\* A record the broker appends is of no earlier epoch than the one before, and
\* of the only epoch that may still be appended.
LEMMA AcceptKeeps ==
    ASSUME CInv, Tracked, IInv, Linked, TailBehind, NEW w \in Worker, BrokerAccepts(w)
    PROVE  /\ TailBehind'
           /\ \A st \in Stream : tail'[st].epoch >= tail[st].epoch
  <1> DEFINE st == job[w].stream
             p == PartitionOf[st]
  <1>1. /\ job[w] \in Job /\ st \in Stream /\ p \in Partition
        /\ InFlight(w) /\ attempt[w].partition = p /\ attempt[w].epoch = job[w].epoch
        /\ attempt' = attempt /\ part' = part
    BY JobTyped, DeliveryConstants DEF BrokerAccepts, Tracked, Linked, InFlight, vars
  <1>2. /\ tail'[st].epoch = attempt[w].epoch
        /\ \A s \in Stream : s # st => tail'[s] = tail[s]
    BY Zenon, <1>1 DEF BrokerAccepts, CInv, TablesTyped
  <1>3. /\ attempt[w].epoch \in Nat /\ part[p].epoch \in Nat
        /\ \A s \in Stream : tail[s].epoch \in Nat
    BY Zenon, <1>1 DEF Job, IInv, TypeOK, Row, CInv, TablesTyped
  <1>4. attempt[w].epoch <= part[p].epoch
    BY <1>1, <1>3 DEF IInv, FlightCovered, Covered
  <1>5. tail[st].epoch <= attempt[w].epoch
    BY Zenon, <1>1 DEF TailBehind
  <1>6. \A v \in Worker : InFlight(v) /\ attempt[v].partition = p => attempt[v].epoch = attempt[w].epoch
    BY Zenon, <1>1 DEF IInv, OneEpochInFlight
  <1>7. TailBehind'
    <2> SUFFICES ASSUME NEW s \in Stream
                 PROVE  /\ tail'[s].epoch <= part[PartitionOf[s]].epoch
                        /\ \A v \in Worker :
                              InFlight(v) /\ attempt[v].partition = PartitionOf[s] =>
                                  tail'[s].epoch <= attempt[v].epoch
      BY Zenon, <1>1 DEF TailBehind, InFlight
    <2>1. CASE s = st
      <3>1. tail'[s].epoch = attempt[w].epoch /\ PartitionOf[s] = p
        BY <2>1, <1>2
      <3> HIDE DEF p
      <3> QED
        BY <3>1, <1>3, <1>4, <1>6
    <2>2. CASE s # st
      BY Zenon, <2>2, <1>2 DEF TailBehind
    <2> QED
      BY Zenon, <2>1, <2>2
  <1>8. \A s \in Stream : tail'[s].epoch >= tail[s].epoch
    BY <1>2, <1>3, <1>5
  <1> QED
    BY <1>7, <1>8

\* Every step keeps the log behind the requests in flight.
LEMMA TailBehindNext ==
    ASSUME CInv, Tracked, IInv, Linked, TailBehind, [DeliveryNext]_allVars
    PROVE  /\ TailBehind'
           /\ \A st \in Stream : tail'[st].epoch >= tail[st].epoch
  <1>1. CASE \E w \in Worker : BrokerAccepts(w)
    BY <1>1, AcceptKeeps
  <1>2. CASE ~ \E w \in Worker : BrokerAccepts(w)
    <2>1. tail' = tail /\ [Next]_vars /\ TypeOK
      BY <1>2, TailKept, StepImplements DEF IInv
    <2>2. TypeOK'
      BY <2>1, NextIInv DEF IInv
    <2>3. \A st \in Stream : tail[st].epoch \in Nat /\ PartitionOf[st] \in Partition
      BY DeliveryConstants DEF CInv, TablesTyped
    <2>4. \A p \in Partition : /\ part[p].epoch \in Nat /\ part'[p].epoch \in Nat
                               /\ part'[p].epoch >= part[p].epoch
      BY <2>1, <2>2, EpochsGrow DEF TypeOK, Row
    <2>5. ASSUME NEW st \in Stream, NEW w \in Worker, InFlight(w)',
                 attempt'[w].partition = PartitionOf[st]
          PROVE  tail[st].epoch <= attempt'[w].epoch
      <3>1. CASE InFlight(w)
        <4>1. attempt'[w].partition = attempt[w].partition /\ attempt'[w].epoch = attempt[w].epoch
          BY <2>1, <2>5, <3>1, AttemptKept DEF InFlight
        <4> QED
          BY Zenon, <2>5, <3>1, <4>1 DEF TailBehind
      <3>2. CASE ~InFlight(w)
        BY <2>1, <2>5, <3>2, FlightEnters DEF TailBehind
      <3> QED
        BY <3>1, <3>2
    <2>6. \A st \in Stream : tail[st].epoch <= part'[PartitionOf[st]].epoch
      <3> TAKE st \in Stream
      <3>1. tail[st].epoch <= part[PartitionOf[st]].epoch
        BY DEF TailBehind
      <3> QED
        BY <2>3, <2>4, <3>1
    <2> QED
      BY <2>1, <2>3, <2>5, <2>6 DEF TailBehind
  <1> QED
    BY <1>1, <1>2

\* However late a request is accepted and however slow a handler is, the log of
\* a stream never goes back to an earlier ownership epoch.
THEOREM EpochsNeverInterleave == DeliverySpec => LogFollowsEpochs
  <1>1. DeliveryInit => Linked /\ TailBehind
    <2>1. DeliveryInit => Linked
      BY DEF DeliveryInit, Init, Idle, Linked
    <2>2. DeliveryInit => TailBehind
      <3> SUFFICES ASSUME DeliveryInit PROVE TailBehind
        OBVIOUS
      <3>1. \A w \in Worker : ~InFlight(w)
        BY Zenon DEF DeliveryInit, Init, Idle, InFlight
      <3>2. \A st \in Stream : tail[st].epoch = 0 /\ part[PartitionOf[st]].epoch = 0
        BY DeliveryConstants DEF DeliveryInit, Init, NoRecord, SeedRow
      <3> QED
        BY <3>1, <3>2 DEF TailBehind
    <2> QED
      BY Zenon, <2>1, <2>2
  <1>2. CInv /\ Tracked /\ IInv /\ Linked /\ TailBehind /\ [DeliveryNext]_allVars
            => (Linked /\ TailBehind)'
    BY LinkedNext, TailBehindNext DEF IInv
  <1>3. CInv /\ Tracked /\ IInv /\ Linked /\ TailBehind /\ [DeliveryNext]_allVars
            => [\A st \in Stream : tail'[st].epoch >= tail[st].epoch]_tail
    BY TailBehindNext
  <1>4. DeliverySpec => []IInv
    BY DeliveryImplementsPartitions, Invariance, PTL
  <1> QED
    BY <1>1, <1>2, <1>3, <1>4, DeliveryInvariance, PTL DEF DeliverySpec, LogFollowsEpochs
-----------------------------------------------------------------------------
(* What one step may do to a row, a stream and a worker, and the invariants *)
(* of rows, locks and leases that rest on it.                               *)

\* The worker is handling sequence n of the stream.
At(w, st, n) == job[w].stage \in Stage /\ job[w].stream = st /\ job[w].seq = n

\* What one step may do to an event row: nothing, or what one of these does.
RowEvolves(st, n) ==
    \/ event'[st][n] = event[st][n]
    \/ WriterCommits(st) /\ n \in writer[st].seqs
    \/ \E w \in Worker : ClaimOrdered(w, st) /\ n = Expected(st)
    \/ \E w \in Worker : BeginOrderedAttempt(w) /\ At(w, st, n)
    \/ \E w \in Worker : MarkOrderedDelivered(w) /\ At(w, st, n) /\ n = stream[st].next
    \/ \E w \in Worker, delay \in Delays : MarkOrderedRetry(w, delay) /\ At(w, st, n)
    \/ \E w \in Worker : MarkOrderedDead(w) /\ At(w, st, n)
    \/ RetryDead(st, n)
    \/ CleanupDelivered(st, n)

\* What one step may do to a stream row.
StreamEvolves(st) ==
    \/ stream'[st] = stream[st]
    \/ WriterCommits(st) /\ stream'[st] = StreamRow(st, 0)
    \/ \E w \in Worker :
          /\ MarkOrderedDelivered(w) /\ job[w].stream = st /\ job[w].seq = stream[st].next
          /\ stream'[st] = [stream[st] EXCEPT !.next = @ + 1]

\* Claims, results, writers, operators and cleanup are all that touch a row.
LEMMA RowsEvolve ==
    ASSUME CInv, [DeliveryNext]_allVars, NEW st \in Stream, NEW n \in Seqs
    PROVE  RowEvolves(st, n)
  <1>0. event \in [Stream -> [Seqs -> EventRow]]
    BY Zenon DEF CInv, TablesTyped
  <1>1. CASE event' = event
    BY Zenon, <1>1 DEF RowEvolves
  <1>2. CASE \E s \in Stream : WriterCommits(s)
    <2>1. PICK s \in Stream : WriterCommits(s)
      BY <1>2
    <2>2. ~(s = st /\ n \in writer[st].seqs) => event'[st][n] = event[st][n]
      BY ZenonT(30), <2>1, <1>0 DEF WriterCommits
    <2> QED
      BY Zenon, <2>1, <2>2 DEF RowEvolves
  <1>3. CASE \E w \in Worker, s \in Stream : ClaimOrdered(w, s)
    <2>1. PICK w \in Worker, s \in Stream : ClaimOrdered(w, s)
      BY Zenon, <1>3
    <2>2. ~(s = st /\ n = Expected(s)) => event'[st][n] = event[st][n]
      BY Zenon, <2>1, <1>0 DEF ClaimOrdered
    <2> QED
      BY Zenon, <2>1, <2>2 DEF RowEvolves
  <1>4. ASSUME NEW w \in Worker, job[w].stage \in Stage,
               \/ BeginOrderedAttempt(w) \/ MarkOrderedDelivered(w) \/ MarkOrderedDead(w)
               \/ \E delay \in Delays : MarkOrderedRetry(w, delay)
        PROVE  RowEvolves(st, n)
    <2>1. ~At(w, st, n) => event'[st][n] = event[st][n]
      <3>1. CASE BeginOrderedAttempt(w)
        BY Zenon, <1>0, <1>4, <3>1 DEF BeginOrderedAttempt, At
      <3>2. CASE MarkOrderedDelivered(w)
        <4> DEFINE old == event[job[w].stream][job[w].seq]
                   row == Unleased("delivered", old.attempts, old.available)
        <4>1. event' = event \/ event' = [event EXCEPT ![job[w].stream][job[w].seq] = row]
          BY Zenon, <3>2 DEF MarkOrderedDelivered
        <4> HIDE DEF row
        <4> QED
          BY ZenonT(30), <1>0, <1>4, <4>1 DEF At
      <3>3. CASE MarkOrderedDead(w)
        BY Zenon, <1>0, <1>4, <3>3 DEF MarkOrderedDead, At
      <3>4. ASSUME NEW delay \in Delays, MarkOrderedRetry(w, delay), ~At(w, st, n)
            PROVE  event'[st][n] = event[st][n]
        <4> DEFINE row == Unleased("pending", event[job[w].stream][job[w].seq].attempts, now + delay)
        <4>1. event' = [event EXCEPT ![job[w].stream][job[w].seq] = row]
          BY Zenon, <3>4 DEF MarkOrderedRetry
        <4> HIDE DEF row
        <4> QED
          BY Zenon, <1>0, <1>4, <3>4, <4>1 DEF At
      <3> QED
        BY Zenon, <1>4, <3>1, <3>2, <3>3, <3>4
    <2>2. MarkOrderedDelivered(w) /\ At(w, st, n) /\ n # stream[st].next => event' = event
      BY DEF MarkOrderedDelivered, At
    <2> QED
      BY Zenon, <1>4, <2>1, <2>2 DEF RowEvolves
  <1>5. CASE \/ \E w \in Worker : BeginOrderedAttempt(w) \/ MarkOrderedDelivered(w)
                                  \/ MarkOrderedDead(w)
             \/ \E w \in Worker, delay \in Delays : MarkOrderedRetry(w, delay)
    <2>1. PICK w \in Worker : \/ BeginOrderedAttempt(w) \/ MarkOrderedDelivered(w)
                              \/ MarkOrderedDead(w)
                              \/ \E delay \in Delays : MarkOrderedRetry(w, delay)
      BY <1>5
    <2>2. job[w].stage \in Stage
      BY Zenon, <2>1 DEF BeginOrderedAttempt, MarkOrderedDelivered, MarkOrderedDead, MarkOrderedRetry, Stage
    <2> QED
      BY <1>4, <2>1, <2>2
  <1>6. CASE \E s \in Stream, m \in Seqs : RetryDead(s, m) \/ CleanupDelivered(s, m)
    <2>1. PICK s \in Stream, m \in Seqs : RetryDead(s, m) \/ CleanupDelivered(s, m)
      BY <1>6
    <2>2. s # st \/ m # n => event'[st][n] = event[st][n]
      BY <2>1, <1>0 DEF RetryDead, CleanupDelivered
    <2> QED
      BY Zenon, <2>1, <2>2 DEF RowEvolves
  <1> QED
    BY Zenon, <1>1, <1>2, <1>3, <1>5, <1>6
    DEF DeliveryNext, allVars, deliveryVars, Enqueue, WriterRollsBack, Publish, BrokerAccepts,
        BrokerAcks, PublishFails, BrokerRejects, LockForDelivery, LeaveInflight, RequestEnds,
        RelayCrashes, SetPaused, Ownership, TimePasses

\* Writers create a stream and delivered marks advance it; nothing else does.
LEMMA StreamsEvolve ==
    ASSUME CInv, [DeliveryNext]_allVars, NEW st \in Stream
    PROVE  StreamEvolves(st)
  <1>0. stream \in [Stream -> [start: Nat, next: Nat]]
    BY DEF CInv, TablesTyped
  <1>1. CASE stream' = stream
    BY <1>1 DEF StreamEvolves
  <1>2. CASE \E s \in Stream : WriterCommits(s)
    BY Zenon, <1>2, <1>0 DEF WriterCommits, StreamEvolves
  <1>3. CASE \E w \in Worker : MarkOrderedDelivered(w)
    <2>1. PICK w \in Worker : MarkOrderedDelivered(w)
      BY <1>3
    <2>2. CASE stream[job[w].stream].next = job[w].seq /\ job[w].stream = st
      <3>1. stream' = [stream EXCEPT ![st].next = stream[st].next + 1]
        BY <2>1, <2>2 DEF MarkOrderedDelivered
      <3> QED
        BY <2>1, <2>2, <3>1, <1>0 DEF StreamEvolves
    <2>3. CASE ~(stream[job[w].stream].next = job[w].seq /\ job[w].stream = st)
      BY Zenon, <2>1, <2>3, <1>0 DEF MarkOrderedDelivered, StreamEvolves
    <2> QED
      BY <2>2, <2>3
  <1> QED
    BY Zenon, <1>1, <1>2, <1>3
    DEF DeliveryNext, allVars, deliveryVars, Enqueue, WriterRollsBack, ClaimOrdered,
        BeginOrderedAttempt, Publish, BrokerAccepts, BrokerAcks, PublishFails, BrokerRejects,
        LockForDelivery, MarkOrderedRetry, MarkOrderedDead, LeaveInflight, RequestEnds,
        RelayCrashes, RetryDead, CleanupDelivered, SetPaused, Ownership, TimePasses

\* What one step may do to a worker's job and attempt.
WorkerEvolves(w) ==
    \/ job'[w] = job[w] /\ attempt'[w] = attempt[w]
    \/ \E st \in Stream : ClaimOrdered(w, st)
    \/ BeginOrderedAttempt(w) \/ Publish(w)
    \/ BrokerAccepts(w) \/ BrokerAcks(w) \/ PublishFails(w) \/ BrokerRejects(w)
    \/ LockForDelivery(w)
    \/ Done(w) /\ job[w].stage \in Stage \ {"orphan"}
    \/ RequestEnds(w)
    \/ RelayCrashes(RelayOf[w])

\* No worker touches the job or the attempt of another; a crash ends those of
\* its relay.
LEMMA WorkersEvolve ==
    ASSUME CInv, TypeOK, [DeliveryNext]_allVars, NEW w \in Worker
    PROVE  WorkerEvolves(w)
  <1>0. /\ job \in [Worker -> {NoJob} \cup Job]
        /\ attempt \in [Worker -> {Idle} \cup Claimed \cup Begun \cup Sent]
    BY Zenon DEF CInv, TablesTyped, TypeOK
  <1>1. CASE job' = job /\ attempt' = attempt
    BY Zenon, <1>1 DEF WorkerEvolves
  <1>2. CASE \E v \in Worker, st \in Stream : ClaimOrdered(v, st)
    <2>1. PICK v \in Worker, st \in Stream : ClaimOrdered(v, st)
      BY <1>2
    <2>2. v # w => job'[w] = job[w] /\ attempt'[w] = attempt[w]
      BY Zenon, <2>1, <1>0 DEF ClaimOrdered, Claim
    <2> QED
      BY Zenon, <2>1, <2>2 DEF WorkerEvolves
  <1>3. CASE \E v \in Worker : \/ BeginOrderedAttempt(v) \/ Publish(v) \/ BrokerAccepts(v)
                               \/ BrokerAcks(v) \/ PublishFails(v) \/ BrokerRejects(v)
                               \/ LockForDelivery(v) \/ RequestEnds(v)
    <2>1. PICK v \in Worker : \/ BeginOrderedAttempt(v) \/ Publish(v) \/ BrokerAccepts(v)
                              \/ BrokerAcks(v) \/ PublishFails(v) \/ BrokerRejects(v)
                              \/ LockForDelivery(v) \/ RequestEnds(v)
      BY <1>3
    <2>2. v # w => job'[w] = job[w]
      BY Zenon, <2>1, <1>0 DEF BeginOrderedAttempt, Publish, BrokerAccepts, BrokerAcks, PublishFails,
                        BrokerRejects, LockForDelivery, RequestEnds
    <2>3. v # w => attempt'[w] = attempt[w]
      BY Zenon, <2>1, <1>0 DEF BeginOrderedAttempt, Publish, BrokerAccepts, BrokerAcks, PublishFails,
                        BrokerRejects, LockForDelivery, RequestEnds, Begin, Send, Finish, vars
    <2> QED
      BY Zenon, <2>1, <2>2, <2>3 DEF WorkerEvolves
  <1>4. CASE \/ \E v \in Worker : MarkOrderedDelivered(v) \/ MarkOrderedDead(v) \/ LeaveInflight(v)
             \/ \E v \in Worker, delay \in Delays : MarkOrderedRetry(v, delay)
    <2>1. PICK v \in Worker : Done(v) /\ job[v].stage \in Stage \ {"orphan"}
      BY Zenon, <1>4 DEF MarkOrderedDelivered, MarkOrderedDead, MarkOrderedRetry, LeaveInflight, Stage
    <2>2. v # w => job'[w] = job[w] /\ attempt'[w] = attempt[w]
      BY SMTT(30), <2>1, <1>0 DEF Done, Finish, vars
    <2> QED
      BY Zenon, <2>1, <2>2 DEF WorkerEvolves
  <1>5. CASE \E r \in Relay : RelayCrashes(r)
    <2>1. PICK r \in Relay : RelayCrashes(r)
      BY <1>5
    <2>2. r # RelayOf[w] => job'[w] = job[w] /\ attempt'[w] = attempt[w]
      BY Zenon, <2>1 DEF RelayCrashes, Crash
    <2> QED
      BY <2>1, <2>2 DEF WorkerEvolves
  <1>6. CASE TimePasses \/ Ownership
    BY <1>1, <1>6 DEF TimePasses, Ownership, Tick, Reconcile, Release, deliveryVars
  <1>7. CASE \/ \E st \in Stream, n \in Seqs, start \in Starts : Enqueue(st, n, start)
             \/ \E st \in Stream : WriterCommits(st) \/ WriterRollsBack(st)
             \/ \E st \in Stream, n \in Seqs : RetryDead(st, n) \/ CleanupDelivered(st, n)
             \/ \E value \in Pauses : SetPaused(value)
             \/ UNCHANGED allVars
    <2>1. UNCHANGED <<vars, job>>
      BY <1>7, Zenon DEF Enqueue, WriterCommits, WriterRollsBack, RetryDead, CleanupDelivered,
                         SetPaused, allVars, deliveryVars
    <2> QED
      BY <1>1, <2>1 DEF vars
  <1> QED
    BY Zenon, <1>2, <1>3, <1>4, <1>5, <1>6, <1>7 DEF DeliveryNext

\* A row belongs to a stream that exists and starts no later; the rows of an
\* open transaction will.
RowsBelong ==
    \A st \in Stream :
        /\ \A n \in Seqs : event[st][n].status # "absent" =>
                               stream[st].start # 0 /\ stream[st].start <= n
        /\ \A n \in writer[st].seqs : writer[st].start # 0 /\ writer[st].start <= n

\* Rows come into being with their stream, and no stream moves its start.
LEMMA RowsBelongNext ==
    ASSUME CInv, RowsBelong, [DeliveryNext]_allVars
    PROVE  RowsBelong'
  <1>0. /\ stream \in [Stream -> [start: Nat, next: Nat]]
        /\ writer \in [Stream -> [start: Nat, seqs: SUBSET Seqs]]
        /\ \A n \in Seqs : n \in Nat
    BY DeliveryConstants DEF CInv, TablesTyped, Seqs
  <1>1. ASSUME NEW st \in Stream
        PROVE  /\ stream[st].start # 0 => stream'[st].start = stream[st].start
               /\ WriterCommits(st) => stream'[st] = StreamRow(st, 0)
    <2>1. StreamRow(st, 0).start = stream[st].start \/ stream[st].start = 0
      BY DEF StreamRow
    <2>2. WriterCommits(st) => stream'[st] = StreamRow(st, 0)
      BY <1>0 DEF WriterCommits
    <2> QED
      BY ZenonT(30), <1>0, <2>1, <2>2, StreamsEvolve DEF StreamEvolves
  <1>2. ASSUME NEW st \in Stream, NEW n \in Seqs, event'[st][n].status # "absent"
        PROVE  stream'[st].start # 0 /\ stream'[st].start <= n
    <2>1. CASE event[st][n].status # "absent"
      BY Zenon, <1>1, <2>1 DEF RowsBelong
    <2>2. CASE WriterCommits(st) /\ n \in writer[st].seqs
      <3>1. stream'[st] = StreamRow(st, 0)
        BY Zenon, <1>1, <2>2
      <3>2. /\ writer[st].start # 0 /\ writer[st].start <= n
            /\ StreamRow(st, 0).start = writer[st].start
        BY Zenon, <2>2, StreamRowFacts DEF RowsBelong
      <3> QED
        BY <3>1, <3>2
    <2>3. CASE n = stream[st].next
      <3>1. n # 0
        BY DeliveryConstants DEF Seqs
      <3> QED
        BY <3>1, <2>3, <1>0, <1>1 DEF CInv, StreamOrdered
    <2>4. CASE event[st][n].status = "absent" /\ ~(WriterCommits(st) /\ n \in writer[st].seqs)
               /\ n # stream[st].next
      <3>1. event'[st][n] = event[st][n]
        BY Zenon, <2>4, RowsEvolve DEF RowEvolves, Expected, RetryDead, CleanupDelivered,
                                BeginOrderedAttempt, MarkOrderedRetry, MarkOrderedDead,
                                HoldsEvent, At
      <3> QED
        BY Zenon, <1>2, <2>4, <3>1
    <2> QED
      BY <2>1, <2>2, <2>3, <2>4
  <1>3. ASSUME NEW st \in Stream, NEW n \in writer'[st].seqs
        PROVE  writer'[st].start # 0 /\ writer'[st].start <= n
    <2>1. CASE writer' = writer
      BY Zenon, <1>3, <2>1 DEF RowsBelong
    <2>2. CASE \E s \in Stream : WriterCommits(s) \/ WriterRollsBack(s)
      <3>1. PICK s \in Stream : writer' = [writer EXCEPT ![s] = NoWriter]
        BY <2>2 DEF WriterCommits, WriterRollsBack
      <3> QED
        BY Zenon, <1>0, <1>3, <3>1 DEF NoWriter, RowsBelong
    <2>3. CASE \E s \in Stream, m \in Seqs, start \in Starts : Enqueue(s, m, start)
      <3>1. PICK s \in Stream, m \in Seqs, start \in Starts : Enqueue(s, m, start)
        BY Zenon, <2>3
      <3> DEFINE row == StreamRow(s, start)
      <3>2. /\ row.start # 0 /\ row.start <= row.next /\ row \in [start: Nat, next: Nat]
            /\ writer[s].start # 0 => row.start = writer[s].start
        BY Zenon, StreamRowFacts, DeliveryConstants
      <3>3. /\ writer' = [writer EXCEPT ![s] = [start |-> row.start, seqs |-> writer[s].seqs \cup {m}]]
            /\ m >= row.next
        BY Zenon, <3>1 DEF Enqueue
      <3> HIDE DEF row
      <3>4. row.start <= m
        BY <1>0, <3>2, <3>3
      <3>5. CASE s = st
        <4>1. writer'[st].start = row.start /\ (n \in writer[st].seqs \/ n = m)
          BY Zenon, <1>0, <1>3, <3>3, <3>5
        <4> QED
          BY Zenon, <3>2, <3>4, <3>5, <4>1 DEF RowsBelong
      <3>6. CASE s # st
        BY <1>0, <1>3, <3>3, <3>6 DEF RowsBelong
      <3> QED
        BY <3>5, <3>6
    <2> QED
      BY Zenon, <2>1, <2>2, <2>3
      DEF DeliveryNext, allVars, deliveryVars, ClaimOrdered, BeginOrderedAttempt, Publish,
          BrokerAccepts, BrokerAcks, PublishFails, BrokerRejects, LockForDelivery,
          MarkOrderedDelivered, MarkOrderedRetry, MarkOrderedDead, LeaveInflight, RequestEnds,
          RelayCrashes, RetryDead, CleanupDelivered, SetPaused, Ownership, TimePasses
  <1> QED
    BY Zenon, <1>2, <1>3 DEF RowsBelong


\* The row MarkOrderedDelivered has locked stays in flight, and has one locker.
LocksHeld ==
    /\ \A w \in Worker :
          job[w].stage = "locked" => event[job[w].stream][job[w].seq].status = "inflight"
    /\ \A v, w \in Worker :
          /\ job[v].stage = "locked" /\ job[w].stage = "locked"
          /\ job[v].stream = job[w].stream /\ job[v].seq = job[w].seq
          => v = w

\* Where handle ends there is no job, or an orphaned request.
LEMMA DoneEnds ==
    ASSUME CInv, NEW w \in Worker, Done(w), job[w].stage \in Stage
    PROVE  /\ job'[w].stage \in {"none", "orphan"}
           /\ job'[w].stage = "orphan" => attempt[w].pc = "sent" /\ attempt' = attempt
  <1>1. job[w] \in Job /\ job \in [Worker -> {NoJob} \cup Job]
    BY JobTyped DEF CInv, TablesTyped
  <1> QED
    BY <1>1 DEF Done, NoJob, Job, vars

\* The stage each step of handle leaves its worker in.
LEMMA NextStage ==
    ASSUME CInv, NEW w \in Worker, job[w].stage \in Stage
    PROVE  /\ BeginOrderedAttempt(w) => job'[w].stage = "begun"
           /\ Publish(w) => job'[w].stage = "sent"
           /\ BrokerAcks(w) => job'[w].stage = "acked"
           /\ PublishFails(w) => job'[w].stage = "failed"
           /\ BrokerRejects(w) => job'[w].stage = "rejected"
           /\ LockForDelivery(w) => /\ job'[w].stage = "locked"
                                    /\ job'[w].stream = job[w].stream /\ job'[w].seq = job[w].seq
  <1>1. job \in [Worker -> {NoJob} \cup Job] /\ job[w] \in Job
    BY Zenon, JobTyped DEF CInv, TablesTyped
  <1>2. ASSUME NEW stage, job' = [job EXCEPT ![w].stage = stage]
        PROVE  /\ job'[w].stage = stage
               /\ job'[w].stream = job[w].stream /\ job'[w].seq = job[w].seq
    BY <1>1, <1>2 DEF Job
  <1>3. BeginOrderedAttempt(w) => job'[w].stage = "begun"
    BY ZenonT(30), <1>1 DEF BeginOrderedAttempt, Job
  <1> QED
    BY Zenon, <1>2, <1>3 DEF Publish, BrokerAcks, PublishFails, BrokerRejects, LockForDelivery

\* A worker in the locked stage has just locked its row or was there before.
LEMMA LockKept ==
    ASSUME CInv, TypeOK, [DeliveryNext]_allVars, NEW w \in Worker, job'[w].stage = "locked"
    PROVE  /\ job'[w].stream = job[w].stream /\ job'[w].seq = job[w].seq
           /\ LockForDelivery(w) \/ (job[w].stage = "locked" /\ ~MarkOrderedDelivered(w))
  <1>0. job \in [Worker -> {NoJob} \cup Job]
    BY DEF CInv, TablesTyped
  <1>1. ~(Done(w) /\ job[w].stage \in Stage)
    BY DoneEnds
  <1>2. ~MarkOrderedDelivered(w)
    BY Zenon, <1>1 DEF MarkOrderedDelivered, Stage
  <1>3. CASE job'[w] = job[w]
    BY <1>2, <1>3
  <1>4. CASE \/ BeginOrderedAttempt(w) \/ Publish(w) \/ BrokerAcks(w) \/ PublishFails(w)
             \/ BrokerRejects(w) \/ LockForDelivery(w)
    <2>1. job[w].stage \in Stage
      BY Zenon, <1>4 DEF BeginOrderedAttempt, Publish, BrokerAcks, PublishFails, BrokerRejects,
                         LockForDelivery, Stage
    <2> QED
      BY Zenon, <1>4, <2>1, NextStage
  <1>5. CASE BrokerAccepts(w)
    <2>1. job[w] \in Job /\ job' = [job EXCEPT ![w].accepted = TRUE]
      BY Zenon, <1>0, <1>5 DEF BrokerAccepts
    <2> QED
      BY <1>0, <1>2, <2>1 DEF Job
  <1>6. CASE \/ \E st \in Stream : ClaimOrdered(w, st)
             \/ RequestEnds(w)
    <2>1. ASSUME NEW st \in Stream, ClaimOrdered(w, st) PROVE job'[w].stage = "claimed"
      BY Zenon, <1>0, <2>1 DEF ClaimOrdered
    <2>2. RequestEnds(w) => job'[w].stage = "none"
      BY <1>0 DEF RequestEnds, NoJob
    <2> QED
      BY <1>6, <2>1, <2>2
  <1>7. CASE RelayCrashes(RelayOf[w])
    <2>1. job'[w] = NoJob \/ job'[w] = [job[w] EXCEPT !.stage = "orphan"]
      BY <1>7 DEF RelayCrashes
    <2> QED
      BY <1>0, <2>1 DEF NoJob, Job
  <1> QED
    BY Zenon, <1>1, <1>3, <1>4, <1>5, <1>6, <1>7, WorkersEvolve DEF WorkerEvolves

\* The row lock keeps a row in flight from the authority check of
\* MarkOrderedDelivered to its update.
LEMMA LocksHeldNext ==
    ASSUME CInv, TypeOK, LocksHeld, [DeliveryNext]_allVars
    PROVE  LocksHeld'
  <1>0. event \in [Stream -> [Seqs -> EventRow]]
    BY DEF CInv, TablesTyped
  <1>1. ASSUME NEW w \in Worker, job'[w].stage = "locked"
        PROVE  event'[job'[w].stream][job'[w].seq].status = "inflight"
    <2> DEFINE st == job[w].stream
               n == job[w].seq
    <2>1. job'[w].stream = st /\ job'[w].seq = n
      BY <1>1, LockKept
    <2>2. CASE LockForDelivery(w)
      BY Zenon, <2>1, <2>2 DEF LockForDelivery, HoldsEvent
    <2>3. CASE job[w].stage = "locked" /\ ~MarkOrderedDelivered(w)
      <3>1. st \in Stream /\ n \in Seqs /\ event[st][n] \in EventRow
        BY <2>3, JobTyped DEF Stage
      <3>2. event[st][n].status = "inflight" /\ RowLocked(st, n)
        BY Zenon, <2>3 DEF LocksHeld, RowLocked
      <3>3. ASSUME NEW v \in Worker, MarkOrderedDelivered(v), At(v, st, n) PROVE FALSE
        BY Zenon, <2>3, <3>3 DEF LocksHeld, MarkOrderedDelivered, At
      <3> HIDE DEF st, n
      <3>4. \/ event'[st][n] = event[st][n]
            \/ WriterCommits(st) /\ n \in writer[st].seqs
            \/ \E v \in Worker : ClaimOrdered(v, st) /\ n = Expected(st)
            \/ \E v \in Worker : BeginOrderedAttempt(v) /\ At(v, st, n)
            \/ \E v \in Worker, delay \in Delays : MarkOrderedRetry(v, delay) /\ At(v, st, n)
            \/ \E v \in Worker : MarkOrderedDead(v) /\ At(v, st, n)
            \/ RetryDead(st, n) \/ CleanupDelivered(st, n)
        BY Zenon, <3>1, <3>3, RowsEvolve DEF RowEvolves
      <3>5. ~(WriterCommits(st) /\ n \in writer[st].seqs)
        BY <3>1, <3>2 DEF CInv, WriterAhead
      <3>6. /\ ~ \E v \in Worker : ClaimOrdered(v, st) /\ n = Expected(st)
            /\ ~ \E v \in Worker : BeginOrderedAttempt(v) /\ At(v, st, n)
            /\ ~ \E v \in Worker, delay \in Delays : MarkOrderedRetry(v, delay) /\ At(v, st, n)
            /\ ~ \E v \in Worker : MarkOrderedDead(v) /\ At(v, st, n)
        BY Zenon, <3>2 DEF ClaimOrdered, BeginOrderedAttempt, MarkOrderedRetry, MarkOrderedDead, At
      <3>7. ~RetryDead(st, n) /\ ~CleanupDelivered(st, n)
        BY Zenon, <3>2 DEF RetryDead, CleanupDelivered
      <3>8. event'[st][n].status = "inflight"
        BY Zenon, <3>2, <3>4, <3>5, <3>6, <3>7
      <3> QED
        BY Zenon, <2>1, <3>8
    <2> QED
      BY Zenon, <1>1, <2>2, <2>3, LockKept
  <1>2. ASSUME NEW v \in Worker, NEW w \in Worker,
               job'[v].stage = "locked", job'[w].stage = "locked",
               job'[v].stream = job'[w].stream, job'[v].seq = job'[w].seq
        PROVE  v = w
    <2>1. /\ job[v].stream = job[w].stream /\ job[v].seq = job[w].seq
          /\ LockForDelivery(v) \/ job[v].stage = "locked"
          /\ LockForDelivery(w) \/ job[w].stage = "locked"
      BY Zenon, <1>2, LockKept
    <2>2. CASE job[v].stage = "locked" /\ job[w].stage = "locked"
      BY <2>1, <2>2 DEF LocksHeld
    <2>3. ASSUME NEW u \in Worker, LockForDelivery(u), NEW x \in Worker, u # x,
                 job'[x].stage = "locked", job[u].stream = job[x].stream, job[u].seq = job[x].seq
          PROVE  FALSE
      <3>1. job'[x] = job[x]
        BY <2>3 DEF LockForDelivery, CInv, TablesTyped
      <3> QED
        BY Zenon, <2>3, <3>1 DEF LockForDelivery, RowLocked
    <2> QED
      BY Zenon, <1>2, <2>1, <2>2, <2>3
  <1> QED
    BY Zenon, <1>1, <1>2 DEF LocksHeld

\* The invariants of rows, streams, locks and partition leases together.
IntegrityInv == CInv /\ Tracked /\ IInv /\ RowsBelong /\ LocksHeld /\ LeaseShape

\* They hold of the empty tables and after every step.
LEMMA IntegrityInvariance == DeliverySpec => []IntegrityInv
  <1>1. DeliveryInit => RowsBelong /\ LocksHeld /\ LeaseShape
    <2> SUFFICES ASSUME DeliveryInit PROVE RowsBelong /\ LocksHeld /\ LeaseShape
      OBVIOUS
    <2>1. /\ event = [st \in Stream |-> [n \in Seqs |-> Absent]]
          /\ writer = [st \in Stream |-> NoWriter]
          /\ job = [w \in Worker |-> NoJob]
          /\ part = [p \in Partition |-> SeedRow]
      BY ZenonT(30) DEF DeliveryInit, Init
    <2>2. RowsBelong
      BY <2>1 DEF RowsBelong, NoWriter, Absent, Unleased
    <2>3. LocksHeld
      BY <2>1 DEF LocksHeld, NoJob
    <2>4. LeaseShape
      BY <2>1 DEF LeaseShape, SeedRow
    <2> QED
      BY Zenon, <2>2, <2>3, <2>4
  <1>2. CInv /\ Tracked /\ IInv /\ RowsBelong /\ LocksHeld /\ LeaseShape /\ [DeliveryNext]_allVars
            => (RowsBelong /\ LocksHeld /\ LeaseShape)'
    BY RowsBelongNext, LocksHeldNext, LeaseShapeNext, StepImplements DEF IInv
  <1>3. DeliverySpec => []IInv
    BY DeliveryImplementsPartitions, Invariance, PTL
  <1> QED
    BY <1>1, <1>2, <1>3, DeliveryInvariance, PTL DEF DeliverySpec, IntegrityInv
=============================================================================
