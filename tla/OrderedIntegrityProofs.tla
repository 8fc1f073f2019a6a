---------------------- MODULE OrderedIntegrityProofs ----------------------
(***************************************************************************)
(* What the admin API and the integrity verifier say of reachable states   *)
(* of ordered delivery, and the order of a stream's log, for any relays,   *)
(* streams, partitions and timing.                                         *)
(***************************************************************************)
EXTENDS OrderedIntegrity, OrderedDeliveryProofs
-----------------------------------------------------------------------------
(* What the admin API and the integrity verifier say of reachable states.   *)

\* The admin API shows a partition as owned (ListOrderingPartitions) only when
\* its barrier has passed, so no publish of an earlier owner is in flight.
THEOREM OwnedPartitionsExclusive == DeliverySpec => []OwnedMeansExclusive
  <1>1. IInv => OwnedMeansExclusive
    <2> SUFFICES ASSUME IInv, NEW p \in Partition, NEW w \in Worker,
                        AdminPartitionState(part[p].owner # NoOwner, part[p], now) = "owned",
                        InFlight(w), attempt[w].partition = p
                 PROVE  RelayOf[w] = part[p].owner
      BY DEF OwnedMeansExclusive
    <2>1. /\ now \in Nat /\ part[p].barrier \in Nat
          /\ attempt[w].begun \in Nat /\ PublishTimeout[RelayOf[w]] \in Nat
      BY ConstantsAssumption DEF IInv, TypeOK, Row, InFlight, Idle, Claimed, Begun, Sent
    <2>2. ~(part[p].barrier > now)
      BY DEF AdminPartitionState
    <2>3. now <= Limit(w)
      BY DEF IInv, FlightTimed
    <2>4. ~(Limit(w) < part[p].barrier)
      BY <2>1, <2>2, <2>3, ConstantsAssumption DEF Limit
    <2> QED
      BY <2>4 DEF IInv, FlightCovered, Covered
  <1>2. DeliverySpec => []IInv
    BY DeliveryImplementsPartitions, Invariance, PTL
  <1> QED
    BY <1>1, <1>2, PTL

\* The rows at the cursor: the active one, or none.
LEMMA RowsAtCursor ==
    ASSUME IntegrityInv, NEW st \in Stream
    PROVE  LET n == stream[st].next
               expected == {e \in ActiveRows(st) : e.seq = n}
           IN  /\ {e \in Rows(st) : e.seq = n} = expected
               /\ (\E e \in Rows(st) : e.seq > n) <=> (\E e \in ActiveRows(st) : e.seq > n)
               /\ \/ expected = {}
                  \/ n \in Seqs /\ event[st][n].status \in Active /\ expected = {EventRecord(st, n)}
  <1> DEFINE n == stream[st].next
             expected == {e \in ActiveRows(st) : e.seq = n}
  <1>1. ASSUME NEW m \in Seqs
        PROVE  /\ EventRecord(st, m).seq = m /\ m \in Nat /\ n \in Nat
               /\ EventRecord(st, m).status = event[st][m].status
               /\ event[st][m].status \in Status
               /\ event[st][m].status = "delivered" => m < n
    <2>1. /\ event \in [Stream -> [Seqs -> EventRow]]
          /\ stream \in [Stream -> [start: Nat, next: Nat]]
      BY Zenon DEF IntegrityInv, CInv, TablesTyped
    <2>2. event[st][m].status \in Status /\ stream[st].next \in Nat
      BY <2>1 DEF EventRow
    <2>3. event[st][m].status = "delivered" => m < n
      BY Zenon DEF IntegrityInv, CInv, CursorMatchesEvents
    <2>4. EventRecord(st, m).seq = m /\ EventRecord(st, m).status = event[st][m].status
      BY Zenon DEF EventRecord
    <2>5. m \in Nat
      BY DeliveryConstants DEF Seqs
    <2> QED
      BY Zenon, <2>2, <2>3, <2>4, <2>5
  <1>2. \A e \in Rows(st) : \E m \in Seqs : e = EventRecord(st, m)
    BY DEF Rows
  <1>3. ASSUME NEW e \in Rows(st), e.seq = n \/ e.seq > n
        PROVE  e.status \in Active
    <2>1. PICK m \in Seqs : e = EventRecord(st, m) /\ event[st][m].status \notin {"absent", "deleted"}
      BY DEF Rows
    <2> HIDE DEF n
    <2>2. event[st][m].status # "delivered"
      BY <1>1, <1>3, <2>1
    <2> QED
      BY <1>1, <2>1, <2>2 DEF Active, Status
  <1>4. ASSUME NEW e \in expected
        PROVE  n \in Seqs /\ event[st][n].status \in Active /\ e = EventRecord(st, n)
    BY <1>1, <1>2 DEF ActiveRows
  <1>5. {e \in Rows(st) : e.seq = n} = expected
    BY <1>3 DEF ActiveRows
  <1>6. (\E e \in Rows(st) : e.seq > n) <=> (\E e \in ActiveRows(st) : e.seq > n)
    BY <1>3 DEF ActiveRows
  <1> QED
    BY <1>4, <1>5, <1>6

\* The two classifications where there is no row at the cursor, and one.
LEMMA CursorStates ==
    ASSUME NEW future, NEW r, NEW t
    PROVE  /\ ClassifyCursor({}, future, t) = (IF future THEN "gap" ELSE "idle")
           /\ AdminStreamState({}, future, t) = (IF future THEN "gap" ELSE "ready")
           /\ ClassifyCursor({r}, future, t) = AdminStreamState({r}, future, t)
           /\ ClassifyCursor({r}, future, t) # "idle"
  <1>1. ClassifyCursor({}, future, t) = (IF future THEN "gap" ELSE "idle")
    BY Zenon DEF ClassifyCursor
  <1>2. AdminStreamState({}, future, t) = (IF future THEN "gap" ELSE "ready")
    BY Zenon DEF AdminStreamState
  <1>3. {r} # {}
    OBVIOUS
  <1>4. CASE r.status = "dead"
    BY <1>3, <1>4 DEF ClassifyCursor, AdminStreamState
  <1>5. CASE r.status = "inflight"
    BY <1>3, <1>5 DEF ClassifyCursor, AdminStreamState
  <1>6. CASE r.status = "pending" /\ r.available > t
    BY <1>3, <1>6 DEF ClassifyCursor, AdminStreamState
  <1>7. CASE r.status \notin {"dead", "inflight"} /\ ~(r.status = "pending" /\ r.available > t)
    BY <1>3, <1>7 DEF ClassifyCursor, AdminStreamState
  <1> QED
    BY <1>1, <1>2, <1>4, <1>5, <1>6, <1>7

\* integrity.ClassifyCursor and the admin API's query agree on every stream, in
\* every reachable state and at every time.
THEOREM ViewsConsistent == DeliverySpec => []ViewsAgree
  <1>1. IntegrityInv => ViewsAgree
    <2> SUFFICES ASSUME IntegrityInv, NEW st \in Stream
                 PROVE  AdminState(st) =
                            (IF VerifierState(st) = "idle" THEN "ready" ELSE VerifierState(st))
      BY DEF ViewsAgree
    <2> DEFINE n == stream[st].next
               expected == {e \in ActiveRows(st) : e.seq = n}
               future == \E e \in ActiveRows(st) : e.seq > n
               r == EventRecord(st, n)
    <2>1. /\ AdminState(st) = AdminStreamState(expected, future, now)
          /\ VerifierState(st) = ClassifyCursor(expected, future, now)
      BY Zenon, RowsAtCursor DEF AdminState, VerifierState
    <2>2. expected = {} \/ expected = {r}
      BY RowsAtCursor
    <2> HIDE DEF expected, future, r
    <2>3. /\ ClassifyCursor({}, future, now) = (IF future THEN "gap" ELSE "idle")
          /\ AdminStreamState({}, future, now) = (IF future THEN "gap" ELSE "ready")
          /\ ClassifyCursor({r}, future, now) = AdminStreamState({r}, future, now)
          /\ ClassifyCursor({r}, future, now) # "idle"
      BY CursorStates, Zenon
    <2>4. CASE expected = {r}
      BY <2>1, <2>3, <2>4
    <2>5. CASE expected = {} /\ future
      BY Zenon, <2>1, <2>3, <2>5
    <2>6. CASE expected = {} /\ ~future
      BY <2>1, <2>3, <2>6
    <2> QED
      BY <2>2, <2>4, <2>5, <2>6
  <1> QED
    BY <1>1, IntegrityInvariance, PTL

\* A stream is blocked by the dead event at its cursor.
LEMMA BlockedByDead ==
    ASSUME IntegrityInv, NEW st \in Stream, VerifierState(st) = "dead_blocked"
    PROVE  stream[st].next \in Seqs /\ event[st][stream[st].next].status = "dead"
  <1> DEFINE n == stream[st].next
             expected == {e \in ActiveRows(st) : e.seq = n}
             future == \E e \in ActiveRows(st) : e.seq > n
  <1>1. ClassifyCursor(expected, future, now) = "dead_blocked"
    BY Zenon DEF VerifierState
  <1>2. \E e \in expected : e.status = "dead"
    <2> HIDE DEF expected, future
    <2> QED
      BY <1>1 DEF ClassifyCursor
  <1>3. n \in Seqs /\ expected = {EventRecord(st, n)}
    BY <1>2, RowsAtCursor
  <1> QED
    BY <1>2, <1>3 DEF EventRecord

\* Only RetryDead touches a dead event, and only a delivered mark that holds the
\* lock of an event in flight advances a stream: a stream at a dead event waits
\* for its operator.
THEOREM DeadHoldsStream == DeliverySpec => DeadBlocksStream
  <1> DEFINE Blocks(st) ==
                 stream[st].start # 0 /\ VerifierState(st) = "dead_blocked" =>
                     /\ stream'[st] = stream[st]
                     /\ \/ event'[st][stream[st].next] = event[st][stream[st].next]
                        \/ event'[st][stream[st].next] = Unleased("pending", 0, now)
  <1>1. ASSUME IntegrityInv, [DeliveryNext]_allVars, NEW st \in Stream,
               stream[st].start # 0, VerifierState(st) = "dead_blocked"
        PROVE  /\ stream'[st] = stream[st]
               /\ \/ event'[st][stream[st].next] = event[st][stream[st].next]
                  \/ event'[st][stream[st].next] = Unleased("pending", 0, now)
    <2> DEFINE n == stream[st].next
    <2>1. n \in Seqs /\ event[st][n].status = "dead"
      BY <1>1, BlockedByDead
    <2>2. CInv /\ TypeOK /\ LocksHeld
      BY <1>1 DEF IntegrityInv, IInv
    <2>3. ASSUME NEW w \in Worker, MarkOrderedDelivered(w), job[w].stream = st, job[w].seq = n
          PROVE  FALSE
      BY Zenon, <2>1, <2>2, <2>3 DEF LocksHeld, MarkOrderedDelivered
    <2>4. stream'[st] = stream[st]
      <3>1. StreamRow(st, 0) = stream[st]
        BY <1>1 DEF StreamRow
      <3> QED
        BY Zenon, <1>1, <2>2, <2>3, <3>1, StreamsEvolve DEF StreamEvolves
    <2> HIDE DEF n
    <2>5. event'[st][n] = event[st][n] \/ RetryDead(st, n)
      <3>1. ~(WriterCommits(st) /\ n \in writer[st].seqs)
        BY <2>1, <2>2 DEF CInv, WriterAhead
      <3>2. ~ \E w \in Worker : ClaimOrdered(w, st) /\ n = Expected(st)
        BY <2>1 DEF ClaimOrdered
      <3>3. /\ ~ \E w \in Worker : BeginOrderedAttempt(w) /\ At(w, st, n)
            /\ ~ \E w \in Worker, delay \in Delays : MarkOrderedRetry(w, delay) /\ At(w, st, n)
            /\ ~ \E w \in Worker : MarkOrderedDead(w) /\ At(w, st, n)
            /\ ~ CleanupDelivered(st, n)
        BY Zenon, <2>1 DEF BeginOrderedAttempt, MarkOrderedRetry, MarkOrderedDead, HoldsEvent, At,
                    CleanupDelivered
      <3>4. ~ \E w \in Worker : MarkOrderedDelivered(w) /\ At(w, st, n) /\ n = stream[st].next
        BY <2>3 DEF At
      <3> QED
        BY Zenon, <1>1, <2>1, <2>2, <3>1, <3>2, <3>3, <3>4, RowsEvolve DEF RowEvolves
    <2>6. RetryDead(st, n) => event'[st][n] = Unleased("pending", 0, now)
      BY <2>1, <2>2 DEF RetryDead, CInv, TablesTyped
    <2> QED
      BY <2>4, <2>5, <2>6 DEF n
  <1>2. IntegrityInv /\ [DeliveryNext]_allVars
            => [\A st \in Stream : Blocks(st)]_<<event, stream>>
    BY Zenon, <1>1
  <1>3. DeliverySpec => [][\A st \in Stream : Blocks(st)]_<<event, stream>>
    BY <1>2, IntegrityInvariance, PTL DEF DeliverySpec
  <1> QED
    BY <1>3 DEF DeadBlocksStream

\* checkPartitions finds both lease columns set or neither.
LEMMA PartitionsClean ==
    ASSUME IntegrityInv, NEW p \in Partition, NEW present, NEW old
    PROVE  PartitionFindings(part[p].owner # NoOwner, part[p], present, old, now)
               \cap Violations = {}
  <1>1. part[p].epoch \in Nat /\ part[p].window \in Nat
    BY DEF IntegrityInv, IInv, TypeOK, Row
  <1>2. ~(part[p].epoch < 0) /\ ~(part[p].window < 0)
    BY <1>1
  <1>3. ~((part[p].owner # NoOwner) # (part[p].until # 0))
    BY DEF IntegrityInv, LeaseShape
  <1>4. Found(part[p].epoch < 0, "PARTITION_EPOCH_INVALID") = {}
    BY <1>2 DEF Found
  <1>5. Found((part[p].owner # NoOwner) # (part[p].until # 0) \/ part[p].window < 0,
              "PARTITION_LEASE_SHAPE_INVALID") = {}
    BY <1>2, <1>3, Zenon DEF Found
  <1>6. PartitionFindings(part[p].owner # NoOwner, part[p], present, old, now)
            \subseteq {"PARTITION_OWNER_STALE", "PARTITION_HANDOFF_OVERDUE"}
    BY <1>4, <1>5, Zenon DEF PartitionFindings, Found
  <1> QED
    BY <1>6 DEF Violations

\* checkEvents finds an active row at or beyond its stream's cursor, and a
\* delivered one behind it.
LEMMA EventsClean ==
    ASSUME IntegrityInv, NEW st \in Stream, NEW e \in Rows(st)
    PROVE  EventFindings(e, stream[st].next, PartitionOf[st], now) \cap Violations = {}
  <1>1. PICK n \in Seqs : e = EventRecord(st, n) /\ event[st][n].status \notin {"absent", "deleted"}
    BY DEF Rows
  <1>2. /\ e.fields = OrderingFields /\ e.seq = n /\ e.partition = PartitionOf[st]
        /\ e.status = event[st][n].status
    BY <1>1 DEF EventRecord
  <1>3. /\ n \in Nat /\ n > 0 /\ stream[st].next \in Nat /\ stream[st].start \in Nat
        /\ event[st][n].status \in Status
    <2>1. /\ event \in [Stream -> [Seqs -> EventRow]]
          /\ stream \in [Stream -> [start: Nat, next: Nat]]
      BY Zenon DEF IntegrityInv, CInv, TablesTyped
    <2>2. stream[st].next \in Nat /\ stream[st].start \in Nat
      BY <2>1
    <2>3. event[st][n].status \in Status
      BY <2>1 DEF EventRow
    <2>4. n \in Nat /\ n > 0
      BY DeliveryConstants DEF Seqs
    <2> QED
      BY Zenon, <2>2, <2>3, <2>4
  <1>4. /\ stream[st].start # 0 /\ stream[st].start <= n
        /\ stream[st].start <= stream[st].next
    BY <1>1 DEF IntegrityInv, RowsBelong, CInv, StreamOrdered
  <1>5. event[st][n].status = "delivered" <=> n < stream[st].next
    BY <1>1, <1>4 DEF IntegrityInv, CInv, CursorMatchesEvents
  <1>6. CursorFindings(e.status, e.seq, stream[st].next) = {}
    <2>1. \/ e.status = "delivered" /\ e.seq < stream[st].next
          \/ e.status \in Active /\ ~(e.seq < stream[st].next)
      BY Zenon, <1>1, <1>2, <1>3, <1>5 DEF Status, Active
    <2>2. stream[st].next # 0
      BY <1>3, <1>4
    <2>3. "delivered" \notin Active
      BY DEF Active
    <2>4. ~(e.seq < stream[st].next /\ e.seq >= stream[st].next)
      BY <1>2, <1>3
    <2>5. /\ ~(e.status \in Active /\ stream[st].next = 0)
          /\ ~(e.status \in Active /\ stream[st].next # 0 /\ e.seq < stream[st].next)
          /\ ~(e.status = "delivered" /\ stream[st].next # 0 /\ e.seq >= stream[st].next)
      BY <2>1, <2>2, <2>3, <2>4
    <2> QED
      BY <2>5, Zenon DEF CursorFindings
  <1>7. ~(e.fields = {}) /\ ~(e.fields # OrderingFields \/ e.seq <= 0)
    BY <1>2, <1>3 DEF OrderingFields
  <1>8. EventFindings(e, stream[st].next, PartitionOf[st], now) \subseteq {"STALE_EVENT_LEASE"}
    BY <1>2, <1>6, <1>7, Zenon DEF EventFindings, Found
  <1> QED
    BY <1>8 DEF Violations

\* checkStreams finds a cursor at or beyond its start and one row at the cursor.
LEMMA StreamsClean ==
    ASSUME IntegrityInv, NEW st \in Stream, stream[st].start # 0
    PROVE  StreamFindings([partition |-> PartitionOf[st], start |-> stream[st].start,
                           next |-> stream[st].next],
                          {e \in ActiveRows(st) : e.seq = stream[st].next},
                          VerifierState(st), PartitionOf[st]) \cap Violations = {}
  <1> DEFINE s == [partition |-> PartitionOf[st], start |-> stream[st].start,
                   next |-> stream[st].next]
             expected == {e \in ActiveRows(st) : e.seq = stream[st].next}
             state == VerifierState(st)
  <1>1. s.partition = PartitionOf[st] /\ s.start = stream[st].start /\ s.next = stream[st].next
    OBVIOUS
  <1>2. ~(s.start <= 0 \/ s.next < s.start)
    BY DEF IntegrityInv, CInv, TablesTyped, StreamOrdered
  <1>3. ~\E e, f \in expected : e # f
    <2>1. expected = {} \/ \E r : expected = {r}
      BY RowsAtCursor
    <2> HIDE DEF expected
    <2> QED
      BY <2>1
  <1> HIDE DEF s, expected, state
  <1>4. StreamFindings(s, expected, state, PartitionOf[st])
            \subseteq {"STREAM_RETRY_WAIT", "STREAM_GAP", "STREAM_DEAD_BLOCKED"}
    BY <1>1, <1>2, <1>3, Zenon DEF StreamFindings, Found
  <1> QED
    BY <1>4 DEF Violations, s, expected, state

\* integrity.Check, in summary and in full mode, reports no violation of the
\* ordering tables in any reachable state.
THEOREM OrderingTablesClean == DeliverySpec => []VerifierFindsNoViolation
  <1>1. IntegrityInv => VerifierFindsNoViolation
    <2> SUFFICES ASSUME IntegrityInv PROVE VerifierFindsNoViolation
      OBVIOUS
    <2>1. ASSUME NEW present \in BOOLEAN, NEW old \in BOOLEAN
          PROVE  CheckPartitions(present, old) \cap Violations = {}
      BY Zenon, PartitionsClean DEF CheckPartitions
    <2>2. ASSUME NEW full \in BOOLEAN
          PROVE  CheckEvents(full) \cap Violations = {}
      <3> DEFINE F(e, st) == EventFindings(e, stream[st].next, PartitionOf[st], now)
                 Scanned(st) == {r \in Rows(st) : EventScope(full, r)}
      <3>1. ASSUME NEW st \in Stream, NEW e \in Scanned(st)
            PROVE  F(e, st) \cap Violations = {}
        BY Zenon, EventsClean
      <3>2. CheckEvents(full) = UNION {UNION {F(e, st) : e \in Scanned(st)} : st \in Stream}
        BY Zenon DEF CheckEvents
      <3> HIDE DEF F, Scanned
      <3> SUFFICES ASSUME NEW code \in CheckEvents(full) PROVE code \notin Violations
        BY Zenon
      <3>3. PICK st \in Stream : code \in UNION {F(e, st) : e \in Scanned(st)}
        BY Zenon, <3>2
      <3>4. PICK e \in Scanned(st) : code \in F(e, st)
        BY Zenon, <3>3
      <3> QED
        BY Zenon, <3>1, <3>4
    <2>3. CheckStreams \cap Violations = {}
      BY Zenon, StreamsClean DEF CheckStreams
    <2> QED
      BY Zenon, <2>1, <2>2, <2>3 DEF VerifierFindsNoViolation
  <1> QED
    BY <1>1, IntegrityInvariance, PTL
-----------------------------------------------------------------------------
(* The order of a stream's log.  Nothing in the code makes a handler finish *)
(* within its event lease, and nothing fences a record the broker accepts   *)
(* after the relay gave its request up; where both hold, a stream has one   *)
(* handler at a time and its log follows the sequence.                      *)

\* Handlers end inside their event lease, requests of dead handlers too, and a
\* request that failed is gone.
LeaseCoversHandling ==
    /\ ~LateAccept
    /\ \A r \in Relay : /\ HandleSpan < EventLease[r]
                        /\ BeginSpan + SendDelay + PublishTimeout[r] < EventLease[r]

Live(w) == job[w].stage \in Stage

\* How old the job of a worker may be.
Timed(w) ==
    /\ job[w].stage \in Stage \ {"orphan"} => now <= job[w].since + HandleSpan
    /\ job[w].stage = "claimed" => now <= job[w].since + BeginSpan
    /\ Live(w) /\ InFlight(w) => attempt[w].begun <= job[w].since + BeginSpan

\* The attempt that goes with each stage of handle.
Staged(w) ==
    /\ job[w].stage = "claimed" => attempt[w].pc = "claimed"
    /\ job[w].stage = "begun" => attempt[w].pc = "begun"
    /\ job[w].stage \in {"sent", "orphan"} => attempt[w].pc = "sent"
    /\ job[w].stage \in {"acked", "failed", "rejected", "locked"} => attempt[w].pc = "idle"
    /\ job[w].stage \in {"acked", "locked"} => job[w].accepted = TRUE

\* The worker's event is leased to its relay, and is the one the stream expects.
Held(w) ==
    Live(w) =>
        LET row == event[job[w].stream][job[w].seq]
        IN  /\ row.status = "inflight"
            /\ row.until = job[w].since + EventLease[RelayOf[w]]
            /\ stream[job[w].stream].next = job[w].seq

\* A stream has at most one worker.
Alone ==
    \A v, w \in Worker : Live(v) /\ Live(w) /\ job[v].stream = job[w].stream => v = w

\* The log of a stream ends at its cursor or just before it, and at the cursor
\* once the broker has accepted the worker's record.
Stored ==
    /\ \A w \in Worker :
          Live(w) /\ job[w].accepted = TRUE => tail[job[w].stream].seq = job[w].seq
    /\ \A st \in Stream :
          \/ tail[st] = NoRecord /\ stream[st].next = stream[st].start
          \/ /\ stream[st].start # 0 /\ tail[st].seq # 0
             /\ stream[st].next \in {tail[st].seq, tail[st].seq + 1}

OrderInv ==
    /\ IntegrityInv
    /\ \A w \in Worker : Timed(w) /\ Staged(w) /\ Held(w)
    /\ Alone
    /\ Stored

\* No job is no stage of handle.
LEMMA NoJobNotLive == NoJob.stage \notin Stage
  BY DEF NoJob, Stage

\* A worker has a job after a step when it has just claimed or had it before.
LEMMA LiveKept ==
    ASSUME CInv, Tracked, TypeOK, [DeliveryNext]_allVars, NEW w \in Worker, Live(w)'
    PROVE  \/ \E st \in Stream : ClaimOrdered(w, st)
           \/ /\ Live(w)
              /\ job'[w].stream = job[w].stream /\ job'[w].seq = job[w].seq
              /\ job'[w].since = job[w].since
              /\ job'[w].accepted = job[w].accepted \/ BrokerAccepts(w)
  <1> DEFINE Kept == /\ Live(w)
                     /\ job'[w].stream = job[w].stream /\ job'[w].seq = job[w].seq
                     /\ job'[w].since = job[w].since
                     /\ job'[w].accepted = job[w].accepted \/ BrokerAccepts(w)
  <1>0. job \in [Worker -> {NoJob} \cup Job] /\ NoJob.stage \notin Stage
    BY DEF CInv, TablesTyped, NoJob, Stage
  <1>1. ASSUME NEW stage, Live(w), job' = [job EXCEPT ![w].stage = stage] \/
                                   job'[w] = [job[w] EXCEPT !.stage = stage]
        PROVE  Kept
    <2>1. job[w] \in Job
      BY <1>1, JobTyped DEF Live
    <2> QED
      BY <1>0, <1>1, <2>1 DEF Job
  <1>2. CASE job'[w] = job[w]
    BY <1>2 DEF Live
  <1>3. CASE BeginOrderedAttempt(w)
    <2>1. job[w] \in Job
      BY Zenon, <1>3, JobTyped DEF BeginOrderedAttempt, Stage
    <2> QED
      BY Zenon, <1>0, <1>3, <2>1 DEF BeginOrderedAttempt, Job, Live, Stage
  <1>4. CASE Publish(w) \/ BrokerAcks(w) \/ PublishFails(w) \/ BrokerRejects(w) \/ LockForDelivery(w)
    BY Zenon, <1>1, <1>4 DEF Publish, BrokerAcks, PublishFails, BrokerRejects, LockForDelivery, Live, Stage
  <1>5. CASE BrokerAccepts(w)
    <2>1. job[w] \in Job /\ job' = [job EXCEPT ![w].accepted = TRUE]
      BY <1>0, <1>5 DEF BrokerAccepts
    <2> QED
      BY <1>0, <1>5, <2>1 DEF Job, Live
  <1>6. CASE Done(w) /\ job[w].stage \in Stage
    <2>1. job' # [job EXCEPT ![w] = NoJob]
      BY <1>0 DEF Live
    <2> QED
      BY Zenon, <1>1, <1>6, <2>1 DEF Done, Live
  <1>7. CASE RequestEnds(w)
    BY <1>0, <1>7 DEF RequestEnds, Live
  <1>8. CASE RelayCrashes(RelayOf[w])
    <2>1. job'[w] = [job[w] EXCEPT !.stage = "orphan"] /\ attempt[w].pc = "sent"
      BY <1>0, <1>8 DEF RelayCrashes, Live
    <2>2. Live(w)
      BY <2>1 DEF Tracked, Live
    <2> QED
      BY <1>1, <2>1, <2>2
  <1> QED
    BY Zenon, <1>2, <1>3, <1>4, <1>5, <1>6, <1>7, <1>8, WorkersEvolve DEF WorkerEvolves

\* A handler that has recorded a result is gone: no request of it is left.
LEMMA ResultEnds ==
    ASSUME LeaseCoversHandling, OrderInv, NEW w \in Worker,
           \/ MarkOrderedDelivered(w) \/ MarkOrderedDead(w)
           \/ \E delay \in Delays : MarkOrderedRetry(w, delay)
    PROVE  Live(w) /\ ~Live(w)'
  <1>1. /\ job[w].stage \in {"locked", "rejected", "failed", "claimed"} /\ Done(w)
    BY Zenon DEF MarkOrderedDelivered, MarkOrderedDead, MarkOrderedRetry
  <1>2. attempt[w].pc # "sent"
    BY <1>1 DEF OrderInv, Staged
  <1>3. job' = [job EXCEPT ![w] = NoJob]
    BY <1>1, <1>2 DEF Done
  <1> QED
    BY <1>1, <1>3 DEF Live, Stage, NoJob, OrderInv, IntegrityInv, CInv, TablesTyped

\* The event lease of a worker has not run out.
LEMMA LeaseRuns ==
    ASSUME LeaseCoversHandling, OrderInv, NEW w \in Worker, Live(w)
    PROVE  now < job[w].since + EventLease[RelayOf[w]]
  <1>1. /\ now \in Nat /\ job[w].since \in Nat /\ RelayOf[w] \in Relay
        /\ EventLease[RelayOf[w]] \in Nat /\ PublishTimeout[RelayOf[w]] \in Nat
    BY Zenon, JobTyped, ConstantsAssumption, DeliveryConstants
    DEF OrderInv, IntegrityInv, IInv, TypeOK, Live, Job
  <1>2. CASE job[w].stage # "orphan"
    BY <1>1, <1>2, DeliveryConstants DEF OrderInv, Timed, Live, LeaseCoversHandling
  <1>3. CASE job[w].stage = "orphan"
    <2>1. attempt[w].pc = "sent" /\ InFlight(w)
      BY <1>3 DEF OrderInv, Staged, InFlight
    <2>2. attempt[w].begun \in Nat
      BY <2>1 DEF OrderInv, IntegrityInv, IInv, TypeOK, Idle, Claimed, Begun, Sent
    <2>3. now <= attempt[w].begun + SendDelay + PublishTimeout[RelayOf[w]]
      BY <2>1 DEF OrderInv, IntegrityInv, IInv, FlightTimed, Limit
    <2>4. attempt[w].begun <= job[w].since + BeginSpan
      BY <2>1 DEF OrderInv, Timed
    <2>5. BeginSpan + SendDelay + PublishTimeout[RelayOf[w]] < EventLease[RelayOf[w]]
      BY <1>1 DEF LeaseCoversHandling
    <2> QED
      BY <1>1, <2>2, <2>3, <2>4, <2>5, DeliveryConstants, ConstantsAssumption
  <1> QED
    BY <1>2, <1>3

\* Every step of handle moves the attempt with the stage.
LEMMA StagedNext ==
    ASSUME LeaseCoversHandling, OrderInv, [DeliveryNext]_allVars, NEW w \in Worker
    PROVE  Staged(w)'
  <1>0. /\ CInv /\ TypeOK /\ Tracked /\ Staged(w) /\ ~LateAccept
        /\ job \in [Worker -> {NoJob} \cup Job] /\ job[w] \in {NoJob} \cup Job
        /\ attempt \in [Worker -> {Idle} \cup Claimed \cup Begun \cup Sent]
    BY Zenon DEF OrderInv, IntegrityInv, IInv, TypeOK, CInv, TablesTyped, LeaseCoversHandling
  <1>1. CASE job'[w] = job[w] /\ attempt'[w] = attempt[w]
    BY <1>0, <1>1 DEF Staged
  <1>2. CASE \E st \in Stream : ClaimOrdered(w, st)
    <2>1. PICK st \in Stream : ClaimOrdered(w, st)
      BY Zenon, <1>2
    <2>2. job'[w].stage = "claimed"
      BY Zenon, <1>0, <2>1 DEF ClaimOrdered
    <2>3. attempt'[w].pc = "claimed"
      BY Zenon, <1>0, <2>1 DEF ClaimOrdered, Claim
    <2> QED
      BY <2>2, <2>3 DEF Staged
  <1>3. CASE BeginOrderedAttempt(w)
    <2>1. job'[w].stage = "begun" /\ attempt'[w].pc = "begun"
      BY Zenon, <1>0, <1>3 DEF BeginOrderedAttempt, Begin, Job, NoJob
    <2> QED
      BY <2>1 DEF Staged
  <1>4. CASE Publish(w)
    <2>1. job'[w].stage = "sent" /\ attempt'[w].pc = "sent"
      BY <1>0, <1>4 DEF Publish, Send, Job, NoJob
    <2> QED
      BY <2>1 DEF Staged
  <1>5. CASE BrokerAccepts(w)
    <2>1. /\ job'[w].stage = job[w].stage /\ job'[w].accepted = TRUE
          /\ attempt' = attempt
      BY <1>0, <1>5 DEF BrokerAccepts, Job, vars
    <2> QED
      BY <1>0, <2>1 DEF Staged
  <1>6. CASE BrokerAcks(w)
    <2>1. job[w] \in Job /\ job[w].accepted \in BOOLEAN
      BY <1>0, <1>6 DEF BrokerAcks, NoJob, Job
    <2>2. job'[w].stage = "acked" /\ job'[w].accepted = job[w].accepted
      BY Zenon, <1>0, <1>6, <2>1 DEF BrokerAcks, Job
    <2>3. attempt'[w].pc = "idle"
      BY <1>0, <1>6 DEF BrokerAcks, Finish, Idle
    <2>4. job[w].accepted = TRUE
      BY <1>6, <2>1, Zenon DEF BrokerAcks
    <2> QED
      BY <2>2, <2>3, <2>4 DEF Staged
  <1>7. CASE PublishFails(w) \/ BrokerRejects(w)
    <2>1. job'[w].stage \in {"failed", "rejected"} /\ attempt'[w].pc = "idle"
      BY <1>0, <1>7 DEF PublishFails, BrokerRejects, Finish, Job, NoJob, Idle
    <2> QED
      BY <2>1 DEF Staged
  <1>8. CASE LockForDelivery(w)
    <2>1. /\ job'[w].stage = "locked" /\ job'[w].accepted = job[w].accepted
          /\ attempt' = attempt /\ job[w].stage = "acked"
      BY <1>0, <1>8 DEF LockForDelivery, Job, NoJob, vars
    <2> QED
      BY <1>0, <2>1 DEF Staged
  <1>9. CASE Done(w) /\ job[w].stage \in Stage \ {"orphan"}
    <2>1. /\ job'[w].stage \in {"none", "orphan"}
          /\ job'[w].stage = "orphan" => attempt'[w].pc = "sent"
      BY <1>0, <1>9, DoneEnds
    <2> QED
      BY <2>1 DEF Staged
  <1>10. CASE RequestEnds(w)
    BY <1>0, <1>10 DEF RequestEnds, NoJob, Staged
  <1>11. CASE RelayCrashes(RelayOf[w])
    <2>1. CASE attempt[w].pc = "sent"
      <3>1. job[w] \in Job
        BY <1>0, <2>1, JobTyped DEF Tracked
      <3>2. job'[w].stage = "orphan" /\ attempt'[w].pc = "sent"
        BY Zenon, <1>0, <1>11, <2>1, <3>1 DEF RelayCrashes, Crash, Job
      <3> QED
        BY <3>2 DEF Staged
    <2>2. CASE attempt[w].pc # "sent"
      BY Zenon, <1>11, <2>2 DEF RelayCrashes, NoJob, Staged
    <2> QED
      BY <2>1, <2>2
  <1> QED
    BY Zenon, <1>0, <1>1, <1>2, <1>3, <1>4, <1>5, <1>6, <1>7, <1>8, <1>9, <1>10, <1>11, WorkersEvolve
    DEF WorkerEvolves

\* The clock moves by itself, and not past a bound of a job.
LEMMA ClockKept ==
    ASSUME [DeliveryNext]_allVars
    PROVE  now' = now \/ TimePasses
  BY ZenonT(30) DEF DeliveryNext, allVars, deliveryVars, vars, Enqueue, WriterCommits, WriterRollsBack,
         ClaimOrdered, BeginOrderedAttempt, Publish, BrokerAccepts, BrokerAcks, PublishFails,
         BrokerRejects, LockForDelivery, MarkOrderedDelivered, MarkOrderedRetry, MarkOrderedDead,
         LeaveInflight, RequestEnds, RelayCrashes, RetryDead, CleanupDelivered, SetPaused, Ownership,
         Done, Claim, Begin, Send, Finish, Crash, Reconcile, Release

\* An attempt in flight after a step has just begun, or began when it did.
LEMMA BegunKept ==
    ASSUME OrderInv, [DeliveryNext]_allVars, NEW w \in Worker, InFlight(w)'
    PROVE  \/ BeginOrderedAttempt(w) /\ attempt'[w].begun = now
           \/ InFlight(w) /\ attempt'[w].begun = attempt[w].begun
  <1>0. /\ CInv /\ TypeOK
        /\ attempt \in [Worker -> {Idle} \cup Claimed \cup Begun \cup Sent]
    BY DEF OrderInv, IntegrityInv, IInv, TypeOK
  <1>1. CASE attempt'[w] = attempt[w]
    BY <1>1 DEF InFlight
  <1>2. CASE \/ \E st \in Stream : ClaimOrdered(w, st)
             \/ BrokerAcks(w) \/ BrokerRejects(w) \/ RequestEnds(w)
    <2>1. \/ attempt' = [attempt EXCEPT ![w] = Idle]
          \/ \E st \in Stream : Claim(w, PartitionOf[st])
      BY Zenon, <1>2 DEF ClaimOrdered, BrokerAcks, BrokerRejects, RequestEnds, Finish
    <2>2. attempt'[w].pc \notin {"begun", "sent"}
      BY <1>0, <2>1 DEF Claim, Idle
    <2> QED
      BY Zenon, <2>2 DEF InFlight
  <1>3. CASE BeginOrderedAttempt(w)
    BY Zenon, <1>0, <1>3 DEF BeginOrderedAttempt, Begin
  <1>4. CASE Publish(w)
    BY <1>0, <1>4 DEF Publish, Send, InFlight
  <1>5. CASE BrokerAccepts(w) \/ LockForDelivery(w)
    BY Zenon, <1>1, <1>5 DEF BrokerAccepts, LockForDelivery, vars
  <1>6. CASE PublishFails(w) \/ Done(w)
    <2>1. attempt' = attempt \/ attempt' = [attempt EXCEPT ![w] = Idle]
      BY Zenon, <1>6 DEF PublishFails, Done, Finish, vars
    <2>2. attempt'[w] = attempt[w] \/ attempt'[w].pc = "idle"
      BY <1>0, <2>1 DEF Idle
    <2> QED
      BY Zenon, <1>1, <2>2 DEF InFlight
  <1>7. CASE RelayCrashes(RelayOf[w])
    BY Zenon, <1>1, <1>7 DEF RelayCrashes, Crash, Idle, InFlight
  <1> QED
    BY Zenon, <1>0, <1>1, <1>2, <1>3, <1>4, <1>5, <1>6, <1>7, WorkersEvolve DEF WorkerEvolves

\* Jobs keep within BeginSpan and HandleSpan.
LEMMA TimedNext ==
    ASSUME LeaseCoversHandling, OrderInv, [DeliveryNext]_allVars, NEW w \in Worker
    PROVE  Timed(w)'
  <1>0. /\ CInv /\ TypeOK /\ Tracked /\ Timed(w) /\ Staged(w) /\ now \in Nat
        /\ job \in [Worker -> {NoJob} \cup Job] /\ job[w] \in {NoJob} \cup Job
        /\ HandleSpan \in Nat /\ BeginSpan \in Nat
    BY DeliveryConstants DEF OrderInv, IntegrityInv, IInv, TypeOK, CInv, TablesTyped
  <1>1. ASSUME ~Live(w)' PROVE Timed(w)'
    BY <1>1 DEF Timed, Live, Stage
  <1>2. ASSUME NEW st \in Stream, ClaimOrdered(w, st) PROVE Timed(w)'
    <2>1. job'[w].since = now /\ attempt'[w].pc = "claimed" /\ now' = now
      BY Zenon, <1>0, <1>2 DEF ClaimOrdered, Claim, TypeOK
    <2>2. now <= now + HandleSpan /\ now <= now + BeginSpan
      BY <1>0
    <2>3. ~InFlight(w)'
      BY <2>1 DEF InFlight
    <2> QED
      BY Zenon, <2>1, <2>2, <2>3 DEF Timed
  <1>3. CASE TimePasses
    <2>1. now' = now + 1 /\ job' = job /\ attempt' = attempt
      BY Zenon, <1>3 DEF TimePasses, Tick, deliveryVars
    <2>2. Live(w) => job[w].since \in Nat
      BY Zenon, <1>0, JobTyped DEF Live, Job
    <2>3. /\ job[w].stage = "claimed" => now < job[w].since + BeginSpan
          /\ job[w].stage \in Stage \ {"orphan"} => now < job[w].since + HandleSpan
      BY <1>3 DEF TimePasses
    <2>4. job'[w].stage = "claimed" => now' <= job'[w].since + BeginSpan
      BY <1>0, <2>1, <2>2, <2>3 DEF Live, Stage
    <2>5. job'[w].stage \in Stage \ {"orphan"} => now' <= job'[w].since + HandleSpan
      BY <1>0, <2>1, <2>2, <2>3 DEF Live
    <2>6. Live(w)' /\ InFlight(w)' => attempt'[w].begun <= job'[w].since + BeginSpan
      BY <1>0, <2>1 DEF Timed, Live, InFlight
    <2> QED
      BY Zenon, <2>4, <2>5, <2>6 DEF Timed
  <1>4. ASSUME Live(w), Live(w)', job'[w].since = job[w].since, now' = now
        PROVE  Timed(w)'
    <2>1. job'[w].stage = "claimed" => job[w].stage = "claimed"
      <3>1. CASE job'[w] = job[w]
        BY <3>1
      <3>2. CASE job'[w] # job[w]
        <4>1. ~ \E st \in Stream : ClaimOrdered(w, st)
          BY Zenon, <1>4, NoJobNotLive DEF ClaimOrdered, Live
        <4>2. job[w] \in Job
          BY Zenon, <1>0, <1>4, JobTyped DEF Live
        <4>3. Done(w) /\ job[w].stage \in Stage => job'[w].stage # "claimed"
          BY <1>0, DoneEnds
        <4>4. BrokerAccepts(w) => job'[w].stage = job[w].stage
          BY <1>0, <4>2 DEF BrokerAccepts, Job
        <4>5. \/ BeginOrderedAttempt(w) \/ Publish(w) \/ BrokerAcks(w) \/ PublishFails(w)
              \/ BrokerRejects(w) \/ LockForDelivery(w) \/ RequestEnds(w)
              \/ RelayCrashes(RelayOf[w])
              => job'[w].stage # "claimed"
          <5>1. RequestEnds(w) => job'[w].stage # "claimed"
            BY <1>0 DEF RequestEnds, NoJob
          <5>2. RelayCrashes(RelayOf[w]) => job'[w].stage # "claimed"
            BY <4>2 DEF RelayCrashes, Job, NoJob
          <5> QED
            BY Zenon, <1>0, <1>4, <5>1, <5>2, NextStage DEF Live
        <4> QED
          BY Zenon, <1>0, <3>2, <4>1, <4>3, <4>4, <4>5, WorkersEvolve DEF WorkerEvolves
      <3> QED
        BY <3>1, <3>2
    <2>2. job'[w].stage # "orphan" => job[w].stage # "orphan"
      <3>1. job[w] \in Job
        BY <1>0, <1>4 DEF Live, NoJob, Stage
      <3>2. CASE job[w].stage = "orphan"
        <4>1. attempt[w].pc = "sent"
          BY <1>0, <3>2 DEF Staged
        <4>2. RelayCrashes(RelayOf[w]) => job'[w].stage = "orphan"
          BY <3>1, <4>1 DEF RelayCrashes, Job
        <4>3. BrokerAccepts(w) => job'[w].stage = "orphan"
          BY <1>0, <3>1, <3>2 DEF BrokerAccepts, Job
        <4>4. ~RequestEnds(w)
          BY <1>0, <1>4 DEF RequestEnds, Live, NoJob, Stage
        <4>5. /\ ~BeginOrderedAttempt(w) /\ ~Publish(w) /\ ~BrokerAcks(w) /\ ~PublishFails(w)
              /\ ~BrokerRejects(w) /\ ~LockForDelivery(w)
              /\ ~ \E st \in Stream : ClaimOrdered(w, st)
          BY <3>2 DEF BeginOrderedAttempt, Publish, BrokerAcks, PublishFails, BrokerRejects,
                      LockForDelivery, ClaimOrdered, NoJob
        <4>6. job'[w] = job[w] => job'[w].stage = "orphan"
          BY <3>2
        <4> QED
          BY Zenon, <1>0, <3>2, <4>2, <4>3, <4>4, <4>5, <4>6, WorkersEvolve DEF WorkerEvolves
      <3> QED
        BY <3>2
    <2>3. InFlight(w)' => attempt'[w].begun <= job'[w].since + BeginSpan
      <3>1. BeginOrderedAttempt(w) => now <= job[w].since + BeginSpan
        BY Zenon, <1>0 DEF BeginOrderedAttempt, Timed
      <3> QED
        BY Zenon, <1>0, <1>4, <3>1, BegunKept DEF Timed
    <2> QED
      BY Zenon, <1>0, <1>4, <2>1, <2>2, <2>3 DEF Timed, Live
  <1> QED
    BY Zenon, <1>0, <1>1, <1>2, <1>3, <1>4, LiveKept, ClockKept

\* A claim finds no worker at its stream: the lease of one would still run.
LEMMA ClaimFindsNone ==
    ASSUME LeaseCoversHandling, OrderInv, NEW w \in Worker, NEW st \in Stream, ClaimOrdered(w, st),
           NEW v \in Worker, Live(v)
    PROVE  job[v].stream # st
  <1> SUFFICES ASSUME job[v].stream = st PROVE FALSE
    OBVIOUS
  <1>1. /\ event[st][job[v].seq].status = "inflight"
        /\ event[st][job[v].seq].until = job[v].since + EventLease[RelayOf[v]]
        /\ Expected(st) = job[v].seq
    BY Zenon DEF OrderInv, Held, Expected
  <1>2. event[st][job[v].seq].until <= now
    BY Zenon, <1>1 DEF ClaimOrdered
  <1>3. now \in Nat /\ job[v].since \in Nat /\ EventLease[RelayOf[v]] \in Nat
    BY Zenon, JobTyped, ConstantsAssumption, DeliveryConstants
    DEF OrderInv, IntegrityInv, IInv, TypeOK, Live, Job
  <1> QED
    BY <1>1, <1>2, <1>3, LeaseRuns

\* What a claim gives its worker.
LEMMA ClaimGives ==
    ASSUME OrderInv, NEW w \in Worker, NEW st \in Stream, ClaimOrdered(w, st)
    PROVE  /\ job'[w].stream = st /\ job'[w].seq = stream[st].next /\ job'[w].since = now
           /\ job'[w].accepted = FALSE /\ Live(w)' /\ ~Live(w)
           /\ event'[st][stream[st].next].status = "inflight"
           /\ event'[st][stream[st].next].until = now + EventLease[RelayOf[w]]
           /\ stream' = stream /\ tail' = tail
  <1> DEFINE n == stream[st].next
             row == Leased(event[st][n], RelayOf[w], now + EventLease[RelayOf[w]])
             claim == [stage |-> "claimed", stream |-> st, seq |-> n,
                       epoch |-> part[PartitionOf[st]].epoch, since |-> now,
                       attempts |-> event[st][n].attempts, accepted |-> FALSE]
  <1>1. /\ event' = [event EXCEPT ![st][n] = row] /\ job' = [job EXCEPT ![w] = claim]
        /\ stream' = stream /\ tail' = tail /\ n \in Seqs
    BY Zenon DEF ClaimOrdered, Expected
  <1>2. row.status = "inflight" /\ row.until = now + EventLease[RelayOf[w]]
    BY Zenon DEF Leased
  <1>3. /\ claim.stage = "claimed" /\ claim.stream = st /\ claim.seq = n /\ claim.since = now
        /\ claim.accepted = FALSE
    BY Zenon
  <1>4. /\ event \in [Stream -> [Seqs -> EventRow]] /\ job \in [Worker -> {NoJob} \cup Job]
    BY DEF OrderInv, IntegrityInv, CInv, TablesTyped
  <1> HIDE DEF row, claim
  <1>5. event'[st][n] = row /\ job'[w] = claim
    BY <1>1, <1>4
  <1>6. ~Live(w)
    BY DEF ClaimOrdered, Live, NoJob, Stage
  <1> QED
    BY Zenon, <1>1, <1>2, <1>3, <1>5, <1>6 DEF Live, Stage

\* A worker's event stays leased and expected: its lease runs, it is alone at
\* the stream, and only it can end its lease.
LEMMA HeldNext ==
    ASSUME LeaseCoversHandling, OrderInv, [DeliveryNext]_allVars, NEW w \in Worker
    PROVE  Held(w)'
  <1>0. CInv /\ TypeOK /\ Tracked
    BY DEF OrderInv, IntegrityInv, IInv
  <1>1. ASSUME NEW st \in Stream, ClaimOrdered(w, st)
        PROVE  Held(w)'
    BY ZenonT(30), <1>1, ClaimGives DEF Held
  <1>2. ASSUME Live(w), Live(w)', job'[w].stream = job[w].stream, job'[w].seq = job[w].seq,
               job'[w].since = job[w].since
        PROVE  Held(w)'
    <2> DEFINE st == job[w].stream
               n == job[w].seq
    <2>1. /\ st \in Stream /\ n \in Seqs /\ n # 0 /\ event[st][n] \in EventRow
          /\ event \in [Stream -> [Seqs -> EventRow]]
      <3>1. st \in Stream /\ n \in Seqs /\ event[st][n] \in EventRow
        BY Zenon, <1>0, <1>2, JobTyped DEF Live
      <3>2. event \in [Stream -> [Seqs -> EventRow]]
        BY Zenon, <1>0 DEF CInv, TablesTyped
      <3> HIDE DEF n
      <3>3. n # 0
        BY <3>1, DeliveryConstants DEF Seqs
      <3> QED
        BY Zenon, <3>1, <3>2, <3>3
    <2>2. event[st][n].status = "inflight" /\ stream[st].next = n /\ stream[st].start # 0
      BY Zenon, <1>0, <1>2, <2>1 DEF OrderInv, Held, CInv, StreamOrdered
    <2>3. ASSUME NEW v \in Worker, job[v].stream = st,
                 \/ MarkOrderedDelivered(v) \/ MarkOrderedDead(v)
                 \/ \E delay \in Delays : MarkOrderedRetry(v, delay)
          PROVE  FALSE
      <3>1. Live(v) /\ ~Live(v)'
        BY <2>3, ResultEnds
      <3>2. v = w
        BY Zenon, <1>2, <2>3, <3>1 DEF OrderInv, Alone
      <3> QED
        BY <1>2, <3>1, <3>2
    <2>4. ~ \E v \in Worker : ClaimOrdered(v, st)
      BY Zenon, <1>2, <2>1, ClaimFindsNone
    <2>5. ~(WriterCommits(st) /\ n \in writer[st].seqs)
      BY Zenon, <1>0, <2>1, <2>2 DEF CInv, WriterAhead
    <2>6. ~RetryDead(st, n) /\ ~CleanupDelivered(st, n)
      BY <2>2 DEF RetryDead, CleanupDelivered
    <2>7. stream'[st] = stream[st]
      <3>1. StreamRow(st, 0) = stream[st]
        BY <2>2 DEF StreamRow
      <3> QED
        BY Zenon, <1>0, <2>1, <2>3, <3>1, StreamsEvolve DEF StreamEvolves
    <2>8. event'[st][n].status = "inflight" /\ event'[st][n].until = event[st][n].until
      <3>1. ASSUME NEW v \in Worker, BeginOrderedAttempt(v), At(v, st, n)
            PROVE  event'[st][n].status = "inflight" /\ event'[st][n].until = event[st][n].until
        <4>1. event' = [event EXCEPT ![st][n].attempts = event[st][n].attempts + 1]
          BY Zenon, <3>1 DEF BeginOrderedAttempt, At
        <4> HIDE DEF st, n
        <4> QED
          BY <2>1, <2>2, <4>1 DEF EventRow
      <3>2. CASE event'[st][n] = event[st][n]
        BY Zenon, <2>2, <3>2
      <3> HIDE DEF st, n
      <3> QED
        <4>1. RowEvolves(st, n)
          BY Zenon, <1>0, <2>1, RowsEvolve
        <4>2. /\ ~ \E v \in Worker : MarkOrderedDelivered(v) /\ At(v, st, n)
              /\ ~ \E v \in Worker, delay \in Delays : MarkOrderedRetry(v, delay) /\ At(v, st, n)
              /\ ~ \E v \in Worker : MarkOrderedDead(v) /\ At(v, st, n)
          BY Zenon, <2>3 DEF At
        <4> QED
          BY Zenon, <2>4, <2>5, <2>6, <3>1, <3>2, <4>1, <4>2 DEF RowEvolves
    <2> QED
      BY Zenon, <1>2, <2>2, <2>7, <2>8 DEF Held, OrderInv
  <1>3. CASE ~Live(w)'
    BY <1>3 DEF Held
  <1> QED
    BY Zenon, <1>0, <1>1, <1>2, <1>3, LiveKept

\* No two workers come to be at one stream.
LEMMA AloneNext ==
    ASSUME LeaseCoversHandling, OrderInv, [DeliveryNext]_allVars
    PROVE  Alone'
  <1>0. CInv /\ TypeOK /\ Tracked
    BY DEF OrderInv, IntegrityInv, IInv
  <1> SUFFICES ASSUME NEW v \in Worker, NEW w \in Worker, Live(v)', Live(w)',
                      job'[v].stream = job'[w].stream, v # w
               PROVE  FALSE
    BY DEF Alone
  <1>1. ASSUME NEW x \in Worker, NEW y \in Worker, x # y, NEW st \in Stream, ClaimOrdered(x, st),
               Live(y)', job'[x].stream = job'[y].stream
        PROVE  FALSE
    <2>1. job'[x].stream = st
      BY Zenon, <1>1, ClaimGives
    <2>2. job'[y] = job[y]
      BY Zenon, <1>0, <1>1 DEF ClaimOrdered, CInv, TablesTyped
    <2>3. Live(y) /\ job[y].stream = st
      BY Zenon, <1>1, <2>1, <2>2 DEF Live
    <2> QED
      BY <1>1, <2>3, ClaimFindsNone
  <1>2. CASE Live(v) /\ Live(w) /\ job'[v].stream = job[v].stream /\ job'[w].stream = job[w].stream
    BY Zenon, <1>2 DEF OrderInv, Alone
  <1> QED
    BY Zenon, <1>0, <1>1, <1>2, LiveKept

\* The record of an accepted request is the last of its log, and the log ends
\* at the stream's cursor or one before it.
LEMMA StoredNext ==
    ASSUME LeaseCoversHandling, OrderInv, [DeliveryNext]_allVars
    PROVE  Stored'
  <1>0. /\ CInv /\ TypeOK /\ Tracked /\ Stored
        /\ stream \in [Stream -> [start: Nat, next: Nat]]
        /\ tail \in [Stream -> [seq: Nat, epoch: Nat]]
        /\ job \in [Worker -> {NoJob} \cup Job]
    BY DEF OrderInv, IntegrityInv, IInv, CInv, TablesTyped
  <1>1. ASSUME NEW v \in Worker, BrokerAccepts(v)
        PROVE  /\ Live(v) /\ job[v].stream \in Stream /\ job[v].seq \in Seqs
               /\ tail'[job[v].stream].seq = job[v].seq
               /\ \A st \in Stream : st # job[v].stream => tail'[st] = tail[st]
               /\ stream' = stream
    <2>1. job[v] \in Job /\ Live(v)
      BY <1>0, <1>1 DEF BrokerAccepts, Job, Live
    <2>2. /\ stream' = stream
          /\ tail' = [tail EXCEPT ![job[v].stream] = [seq |-> job[v].seq, epoch |-> job[v].epoch]]
      BY <1>1 DEF BrokerAccepts
    <2> QED
      BY <1>0, <2>1, <2>2 DEF Job
  <1>2. ASSUME NEW w \in Worker, Live(w)', job'[w].accepted = TRUE
        PROVE  tail'[job'[w].stream].seq = job'[w].seq
    <2>1. /\ Live(w)
          /\ job'[w].stream = job[w].stream /\ job'[w].seq = job[w].seq
          /\ job'[w].accepted = job[w].accepted \/ BrokerAccepts(w)
      BY Zenon, <1>0, <1>2, LiveKept, ClaimGives
    <2>2. job[w].stream \in Stream
      BY <1>0, <2>1, JobTyped DEF Live
    <2>3. CASE BrokerAccepts(w)
      BY Zenon, <1>1, <2>1, <2>3
    <2>4. CASE ~BrokerAccepts(w)
      <3>1. tail[job[w].stream].seq = job[w].seq
        BY Zenon, <1>0, <1>2, <2>1, <2>4 DEF Stored
      <3>2. ASSUME NEW v \in Worker, BrokerAccepts(v)
            PROVE  job[v].stream # job[w].stream
        BY Zenon, <1>1, <2>1, <2>4, <3>2 DEF OrderInv, Alone
      <3>3. tail'[job[w].stream] = tail[job[w].stream]
        BY Zenon, <1>1, <2>2, <3>2, TailKept
      <3> QED
        BY Zenon, <2>1, <3>1, <3>3
    <2> QED
      BY <2>3, <2>4
  <1>3. ASSUME NEW st \in Stream
        PROVE  \/ tail'[st] = NoRecord /\ stream'[st].next = stream'[st].start
               \/ /\ stream'[st].start # 0 /\ tail'[st].seq # 0
                  /\ stream'[st].next \in {tail'[st].seq, tail'[st].seq + 1}
    <2> DEFINE Before == \/ tail[st] = NoRecord /\ stream[st].next = stream[st].start
                         \/ /\ stream[st].start # 0 /\ tail[st].seq # 0
                            /\ stream[st].next \in {tail[st].seq, tail[st].seq + 1}
    <2>1. Before
      BY <1>0 DEF Stored
    <2>2. ASSUME NEW v \in Worker, BrokerAccepts(v), job[v].stream = st
          PROVE  stream'[st].start # 0 /\ tail'[st].seq # 0 /\ stream'[st].next = tail'[st].seq
      <3>1. stream[st].next = job[v].seq /\ job[v].seq # 0
        <4>1. stream[st].next = job[v].seq
          BY Zenon, <1>1, <2>2 DEF OrderInv, Held
        <4>2. job[v].seq \in Seqs
          BY Zenon, <1>1, <2>2
        <4>3. job[v].seq # 0
          BY <4>2, DeliveryConstants DEF Seqs
        <4> QED
          BY Zenon, <4>1, <4>3
      <3>2. stream[st].start # 0
        BY <1>0, <3>1 DEF CInv, StreamOrdered
      <3> QED
        BY Zenon, <1>1, <2>2, <3>1, <3>2
    <2>3. ASSUME tail'[st] = tail[st]
          PROVE  \/ tail'[st] = NoRecord /\ stream'[st].next = stream'[st].start
                 \/ /\ stream'[st].start # 0 /\ tail'[st].seq # 0
                    /\ stream'[st].next \in {tail'[st].seq, tail'[st].seq + 1}
      <3>1. CASE stream'[st] = stream[st]
        BY Zenon, <2>1, <2>3, <3>1
      <3>2. CASE WriterCommits(st) /\ stream'[st] = StreamRow(st, 0)
        <4>1. CASE stream[st].start # 0
          BY Zenon, <2>1, <2>3, <3>2, <4>1 DEF StreamRow
        <4>2. CASE stream[st].start = 0
          BY <2>1, <2>3, <3>2, <4>2 DEF StreamRow
        <4> QED
          BY Zenon, <4>1, <4>2
      <3>3. ASSUME NEW v \in Worker, MarkOrderedDelivered(v), job[v].stream = st,
                   job[v].seq = stream[st].next,
                   stream'[st] = [stream[st] EXCEPT !.next = @ + 1]
            PROVE  stream'[st].start # 0 /\ tail'[st].seq # 0 /\ stream'[st].next = tail'[st].seq + 1
        <4>1. Live(v) /\ job[v].accepted = TRUE /\ job[v].seq \in Seqs
          BY Zenon, <1>0, <3>3, JobTyped DEF MarkOrderedDelivered, Live, Stage, OrderInv, Staged
        <4>2. tail[st].seq = stream[st].next /\ stream[st].next # 0
          BY <1>0, <3>3, <4>1, DeliveryConstants DEF Stored, Seqs
        <4>3. stream[st].start # 0
          BY <1>0, <4>2 DEF CInv, StreamOrdered
        <4> QED
          BY <1>0, <2>3, <3>3, <4>2, <4>3
      <3> QED
        BY Zenon, <1>0, <3>1, <3>2, <3>3, StreamsEvolve DEF StreamEvolves
    <2>4. tail'[st] = tail[st] \/ \E v \in Worker : BrokerAccepts(v) /\ job[v].stream = st
      BY <1>1, TailKept
    <2> QED
      BY Zenon, <2>2, <2>3, <2>4
  <1> QED
    BY Zenon, <1>2, <1>3 DEF Stored

\* Where leases cover handling, a stream has one worker at a time, and the log
\* keeps pace with the cursor.
LEMMA OrderInvariance ==
    ASSUME LeaseCoversHandling
    PROVE  DeliverySpec => []OrderInv
  <1> DEFINE Extra == (\A w \in Worker : Timed(w) /\ Staged(w) /\ Held(w)) /\ Alone /\ Stored
  <1>1. DeliveryInit => Extra
    <2> SUFFICES ASSUME DeliveryInit PROVE Extra
      OBVIOUS
    <2>1. /\ stream = [st \in Stream |-> [start |-> 0, next |-> 0]]
          /\ job = [w \in Worker |-> NoJob] /\ tail = [st \in Stream |-> NoRecord]
      BY Zenon DEF DeliveryInit
    <2>2. \A w \in Worker : job[w].stage = "none" /\ ~Live(w)
      BY Zenon, <2>1 DEF NoJob, Live, Stage
    <2>3. \A w \in Worker : Timed(w) /\ Staged(w) /\ Held(w)
      BY <2>2 DEF Timed, Staged, Held, Stage
    <2>4. Alone /\ \A st \in Stream : tail[st] = NoRecord /\ stream[st].next = stream[st].start
      BY <2>1, <2>2 DEF Alone
    <2> QED
      BY Zenon, <2>2, <2>3, <2>4 DEF Stored
  <1>2. IntegrityInv /\ Extra /\ [DeliveryNext]_allVars => Extra'
    <2> SUFFICES ASSUME OrderInv, [DeliveryNext]_allVars PROVE Extra'
      BY DEF OrderInv
    <2> QED
      BY TimedNext, StagedNext, HeldNext, AloneNext, StoredNext
  <1>3. DeliverySpec => []Extra
    BY <1>1, <1>2, IntegrityInvariance, PTL DEF DeliverySpec
  <1>4. IntegrityInv /\ Extra => OrderInv
    BY DEF OrderInv
  <1> QED
    BY <1>3, <1>4, IntegrityInvariance, PTL

\* The record an accepted request appends is the one the stream expects
\* (handle publishes what ClaimOrdered gave it), so where leases cover handling
\* the log neither skips a sequence nor returns to an earlier one.
THEOREM LogInOrder ==
    ASSUME LeaseCoversHandling
    PROVE  DeliverySpec => AppendsInOrder
  <1> DEFINE Appends == \A st \in Stream :
                            tail'[st] # tail[st] =>
                                IF tail[st] = NoRecord THEN tail'[st].seq = stream[st].start
                                ELSE tail'[st].seq \in {tail[st].seq, tail[st].seq + 1}
  <1>1. OrderInv /\ [DeliveryNext]_allVars => Appends
    <2> SUFFICES ASSUME OrderInv, [DeliveryNext]_allVars, NEW st \in Stream, tail'[st] # tail[st]
                 PROVE  IF tail[st] = NoRecord THEN tail'[st].seq = stream[st].start
                        ELSE tail'[st].seq \in {tail[st].seq, tail[st].seq + 1}
      OBVIOUS
    <2>0. /\ tail \in [Stream -> [seq: Nat, epoch: Nat]] /\ job \in [Worker -> {NoJob} \cup Job]
      BY Zenon DEF OrderInv, IntegrityInv, CInv, TablesTyped
    <2>1. PICK v \in Worker : BrokerAccepts(v)
      BY TailKept
    <2>2. /\ job[v] \in Job /\ Live(v)
          /\ tail' = [tail EXCEPT ![job[v].stream] = [seq |-> job[v].seq, epoch |-> job[v].epoch]]
      BY <2>0, <2>1 DEF BrokerAccepts, Job, Live
    <2>3. job[v].stream = st /\ tail'[st].seq = job[v].seq
      BY <2>0, <2>2
    <2>4. tail'[st].seq = stream[st].next
      BY Zenon, <2>2, <2>3 DEF OrderInv, Held
    <2>5. \/ tail[st] = NoRecord /\ stream[st].next = stream[st].start
          \/ tail[st].seq # 0 /\ stream[st].next \in {tail[st].seq, tail[st].seq + 1}
      BY DEF OrderInv, Stored
    <2>6. NoRecord.seq = 0
      BY DEF NoRecord
    <2> QED
      BY Zenon, <2>4, <2>5, <2>6
  <1>2. OrderInv /\ [DeliveryNext]_allVars => [Appends]_tail
    BY <1>1
  <1>3. DeliverySpec => [][Appends]_tail
    BY <1>2, OrderInvariance, PTL DEF DeliverySpec
  <1> QED
    BY <1>3 DEF AppendsInOrder

\* A stream advances (MarkOrderedDelivered) only over a sequence whose record is
\* the last of the log.
THEOREM AdvanceIsStored ==
    ASSUME LeaseCoversHandling
    PROVE  DeliverySpec => []DeliveredWasAccepted
  <1>1. OrderInv => DeliveredWasAccepted
    <2> SUFFICES ASSUME OrderInv, NEW st \in Stream
                 PROVE  \/ stream[st].next <= tail[st].seq + 1
                        \/ stream[st].next = stream[st].start
      BY DEF DeliveredWasAccepted
    <2>1. tail[st].seq \in Nat
      BY DEF OrderInv, IntegrityInv, CInv, TablesTyped
    <2> QED
      BY <2>1 DEF OrderInv, Stored
  <1> QED
    BY <1>1, OrderInvariance, PTL
=============================================================================
