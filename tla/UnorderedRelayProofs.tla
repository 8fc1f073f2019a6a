------------------------ MODULE UnorderedRelayProofs ------------------------
(***************************************************************************)
(* Proofs about the relays' default path, for any number of relays,        *)
(* handlers, events, slots, attempts and disturbances.                     *)
(***************************************************************************)
EXTENDS UnorderedRelay, FiniteSetTheorems, TLAPS

\* What a handler knows of its event: it exists; an acknowledged record is in
\* the log; a refused event was refused; and, until an operator retries the
\* event, the row has counted at least as many attempts as the handler.
JobSound(w) ==
    LET j == job[w]
    IN  j # NoJob =>
            /\ event[j.event].status # "absent"
            /\ j.stage \in {"appended", "acked"} => j.event \in stored
            /\ j.stage = "refused" => j.event \in rejected
            /\ event[j.event].status \in {"pending", "inflight"} /\ ~event[j.event].retried =>
                   j.attempts <= event[j.event].attempts


IInv ==
    /\ RelayTypeOK
    /\ SlotsAccounted
    /\ \A w \in Worker : JobSound(w)
    /\ DeliveredIsStored
    /\ DeadHasReason
-----------------------------------------------------------------------------
(* Types.                                                                   *)

\* The rows the store writes are rows.
LEMMA RowsTyped ==
    ASSUME RelayTypeOK, NEW e \in Event, NEW r \in Relay, NEW n \in 0..MaxAttempts,
           NEW due \in BOOLEAN, NEW status \in Status
    PROVE  /\ Unleased(e, status, n, due) \in EventRow
           /\ Leased(e, r, n, due) \in EventRow
BY DEF RelayTypeOK, Unleased, Leased, EventRow, Status

\* A goroutine with a stage other than "none" has a job.
LEMMA JobTyped ==
    ASSUME RelayTypeOK, NEW w \in Worker, job[w].stage \in Stage
    PROVE  job[w] \in Job /\ job[w] # NoJob
BY DEF RelayTypeOK, NoJob, Stage

\* Moving a job to another stage keeps the jobs typed.
LEMMA GoesTyped ==
    ASSUME RelayTypeOK, NEW w \in Worker, job[w].stage \in Stage, NEW s \in Stage, Goes(w, s)
    PROVE  job' \in [Worker -> {NoJob} \cup Job]
<1>1. job[w] \in Job
  BY JobTyped
<1>2. [stage |-> s, event |-> job[w].event, attempts |-> job[w].attempts] \in Job
  BY <1>1 DEF Job
<1> QED
  BY <1>2 DEF Goes, RelayTypeOK

\* A mark writes a row or none.
LEMMA MarkTyped ==
    ASSUME RelayTypeOK, NEW w \in Worker, job[w].stage \in Stage,
           NEW row \in EventRow, Mark(w, row)
    PROVE  RelayTypeOK'
<1>1. job[w] \in Job
  BY JobTyped
<1>2. job' \in [Worker -> {NoJob} \cup Job]
  BY GoesTyped DEF Mark, Stage
<1>3. event' \in [Event -> EventRow]
  BY <1>1 DEF Mark, RelayTypeOK, Job
<1> QED
  BY <1>2, <1>3 DEF Mark, RelayTypeOK, control, broker

\* A row whose time has come is still a row.
LEMMA DueTyped ==
    ASSUME RelayTypeOK, NEW e \in Event, event' = [event EXCEPT ![e].due = TRUE]
    PROVE  event' \in [Event -> EventRow]
<1>1. event \in [Event -> EventRow]
  BY Zenon DEF RelayTypeOK
<1>2. [event[e] EXCEPT !.due = TRUE] \in EventRow
  BY Zenon, <1>1 DEF EventRow
<1>3. event' = [event EXCEPT ![e] = [event[e] EXCEPT !.due = TRUE]]
  BY Zenon
<1>. QED  BY Zenon, <1>1, <1>2, <1>3

\* Busy sets are finite.
LEMMA BusyFinite == \A r \in Relay : IsFiniteSet(Busy(r))
BY RelayConstants, FS_Subset DEF Busy

\* Every step keeps the types.
LEMMA TypesKept ==
    ASSUME RelayTypeOK, SlotsAccounted, RelayNext
    PROVE  RelayTypeOK'
<1>1. ASSUME NEW e \in Event, NEW due \in BOOLEAN, Enqueue(e, due) PROVE RelayTypeOK'
  BY <1>1, RelayConstants DEF Enqueue, Unleased, EventRow, Status, RelayTypeOK, control, broker
<1>2. ASSUME NEW r \in Relay, Start(r) PROVE RelayTypeOK'
  BY <1>2 DEF Start, RelayTypeOK, control, broker
<1>3. ASSUME NEW w \in Worker, NEW e \in Event, Claim(w, e) PROVE RelayTypeOK'
  <2>1. event[e].attempts \in 0..MaxAttempts /\ RelayOf[w] \in Relay
    BY RelayConstants DEF RelayTypeOK, EventRow
  <2>2. Leased(e, RelayOf[w], event[e].attempts, FALSE) \in EventRow
    BY <2>1 DEF RelayTypeOK, Leased, EventRow, Status
  <2>3. event' \in [Event -> EventRow]
    BY Zenon, <1>3, <2>2 DEF Claim, RelayTypeOK
  <2>4. job' \in [Worker -> {NoJob} \cup Job]
    BY <1>3, <2>1 DEF Claim, RelayTypeOK, Job, Stage
  <2>5. active' \in [Relay -> 0..Concurrency]
    BY <1>3, <2>1, RelayConstants DEF Claim, HasSlot, RelayTypeOK
  <2> QED
    BY Zenon, <1>3, <2>3, <2>4, <2>5 DEF Claim, RelayTypeOK, control, broker
<1>4. ASSUME NEW r \in Relay, NEW e \in Event, ClaimLost(r, e) PROVE RelayTypeOK'
  <2>1. event[e].attempts \in 0..MaxAttempts
    BY DEF RelayTypeOK, EventRow
  <2>2. Leased(e, r, event[e].attempts, FALSE) \in EventRow
    BY <2>1 DEF RelayTypeOK, Leased, EventRow, Status
  <2>3. event' \in [Event -> EventRow]
    BY Zenon, <1>4, <2>2 DEF ClaimLost, RelayTypeOK
  <2>4. faults' \in 0..MaxFaults
    BY <1>4, RelayConstants DEF ClaimLost, Fault, RelayTypeOK
  <2> QED
    BY Zenon, <1>4, <2>3, <2>4 DEF ClaimLost, RelayTypeOK, control, broker
<1>5. ASSUME NEW w \in Worker, BeginAttempt(w) PROVE RelayTypeOK'
  <2> DEFINE e == job[w].event
             n == event[e].attempts
  <2>1. job[w] \in Job
    BY <1>5, JobTyped DEF BeginAttempt, Stage
  <2>2. n \in 0..MaxAttempts /\ event[e] \in EventRow
    BY <2>1 DEF RelayTypeOK, EventRow, Job
  <2>3. CASE Owns(w) /\ AttemptsLeft(n)
    <3>1. n + 1 \in 0..MaxAttempts
      BY <2>2, <2>3, RelayConstants DEF AttemptsLeft
    <3>2. Leased(e, event[e].owner, n + 1, event[e].due) \in EventRow
      BY <2>2, <3>1 DEF Leased, EventRow, Status
    <3>3. event' = [event EXCEPT ![e] = Leased(e, event[e].owner, n + 1, event[e].due)]
      BY Zenon, <1>5, <2>1, <2>3 DEF BeginAttempt, RelayTypeOK, Job
    <3>4. job' \in [Worker -> {NoJob} \cup Job]
      BY <1>5, <2>1, <2>3, <3>1 DEF BeginAttempt, RelayTypeOK, Job, Stage
    <3>5. event' \in [Event -> EventRow]
      BY Zenon, <3>2, <3>3 DEF RelayTypeOK
    <3> QED
      BY Zenon, <1>5, <3>4, <3>5 DEF BeginAttempt, RelayTypeOK, control, broker
  <2>4. CASE ~(Owns(w) /\ AttemptsLeft(n))
    <3>1. Goes(w, "done") /\ UNCHANGED event
      BY <1>5, <2>4 DEF BeginAttempt
    <3>2. job' \in [Worker -> {NoJob} \cup Job]
      BY <1>5, <3>1, GoesTyped DEF BeginAttempt, Stage
    <3> QED
      BY Zenon, <1>5, <3>1, <3>2 DEF BeginAttempt, RelayTypeOK, control, broker
  <2> QED
    BY Zenon, <2>3, <2>4
<1>6. ASSUME NEW w \in Worker, BrokerAppends(w) PROVE RelayTypeOK'
  <2>1. job[w].stage \in Stage
    BY <1>6 DEF BrokerAppends, Stage
  <2>2. job' \in [Worker -> {NoJob} \cup Job]
    BY <1>6, <2>1, GoesTyped DEF BrokerAppends, Stage
  <2> QED
    BY <1>6, <2>1, <2>2, JobTyped DEF BrokerAppends, RelayTypeOK, control, broker, Job
<1>7. ASSUME NEW w \in Worker, BrokerAcks(w) PROVE RelayTypeOK'
  <2>1. job[w].stage \in Stage
    BY <1>7 DEF BrokerAcks, Stage
  <2>2. job' \in [Worker -> {NoJob} \cup Job]
    BY <1>7, <2>1, GoesTyped DEF BrokerAcks, Stage
  <2> QED
    BY <1>7, <2>1, <2>2, JobTyped DEF BrokerAcks, RelayTypeOK, control, broker, Job
<1>8. ASSUME NEW w \in Worker, PublishFails(w) PROVE RelayTypeOK'
  <2>1. job[w].stage \in Stage
    BY <1>8 DEF PublishFails, Stage
  <2>2. job' \in [Worker -> {NoJob} \cup Job]
    BY <1>8, <2>1, GoesTyped DEF PublishFails, Stage
  <2> QED
    BY <1>8, <2>1, <2>2, JobTyped DEF PublishFails, RelayTypeOK, control, broker, Job
<1>9. ASSUME NEW w \in Worker, BrokerRefuses(w) PROVE RelayTypeOK'
  <2>1. job[w].stage \in Stage
    BY <1>9 DEF BrokerRefuses, Stage
  <2>2. job' \in [Worker -> {NoJob} \cup Job]
    BY <1>9, <2>1, GoesTyped DEF BrokerRefuses, Stage
  <2> QED
    BY <1>9, <2>1, <2>2, JobTyped DEF BrokerRefuses, RelayTypeOK, control, broker, Job
<1>10. ASSUME NEW w \in Worker, MarkDelivered(w) PROVE RelayTypeOK'
  <2>1. job[w].stage \in Stage
    BY <1>10 DEF MarkDelivered, Stage
  <2>2. job[w].event \in Event
    BY <2>1, JobTyped DEF Job
  <2>3. event[job[w].event].attempts \in 0..MaxAttempts
    BY <2>2 DEF RelayTypeOK, EventRow
  <2>4. Unleased(job[w].event, "delivered", event[job[w].event].attempts, FALSE) \in EventRow
    BY <2>2, <2>3 DEF RelayTypeOK, Unleased, EventRow, Status
  <2> QED
    BY Zenon, <1>10, <2>1, <2>4, MarkTyped DEF MarkDelivered
<1>11. ASSUME NEW w \in Worker, NEW due \in BOOLEAN, MarkRetry(w, due) PROVE RelayTypeOK'
  <2>1. job[w].stage \in Stage
    BY <1>11 DEF MarkRetry, Stage
  <2>2. job[w].event \in Event
    BY <2>1, JobTyped DEF Job
  <2>3. event[job[w].event].attempts \in 0..MaxAttempts
    BY Zenon, <2>2 DEF RelayTypeOK, EventRow
  <2>4. Unleased(job[w].event, "pending", event[job[w].event].attempts, due) \in EventRow
    BY Zenon, <2>2, <2>3 DEF RelayTypeOK, Unleased, EventRow, Status
  <2> QED
    BY <1>11, <2>1, <2>4, MarkTyped DEF MarkRetry
<1>12. ASSUME NEW w \in Worker, MarkDead(w) PROVE RelayTypeOK'
  <2>1. job[w].stage \in Stage
    BY <1>12 DEF MarkDead, Stage
  <2>2. job[w].event \in Event
    BY <2>1, JobTyped DEF Job
  <2>3. event[job[w].event].attempts \in 0..MaxAttempts
    BY <2>2 DEF RelayTypeOK, EventRow
  <2>4. Unleased(job[w].event, "dead", event[job[w].event].attempts, FALSE) \in EventRow
    BY <2>2, <2>3 DEF RelayTypeOK, Unleased, EventRow, Status
  <2> QED
    BY Zenon, <1>12, <2>1, <2>4, MarkTyped DEF MarkDead
<1>13. ASSUME NEW w \in Worker, Complete(w) PROVE RelayTypeOK'
  <2>1. RelayOf[w] \in Relay /\ w \in Busy(RelayOf[w])
    BY <1>13, RelayConstants DEF Complete, Busy, NoJob
  <2>2. Cardinality(Busy(RelayOf[w])) # 0
    BY <2>1, BusyFinite, FS_EmptySet
  <2>3. active[RelayOf[w]] \in 1..Concurrency
    BY <2>1, <2>2, RelayConstants DEF SlotsAccounted, RelayTypeOK
  <2>4. active' \in [Relay -> 0..Concurrency]
    BY <1>13, <2>1, <2>3, RelayConstants DEF Complete, RelayTypeOK
  <2>5. job' \in [Worker -> {NoJob} \cup Job]
    BY Zenon, <1>13 DEF Complete, RelayTypeOK
  <2> QED
    BY <1>13, <2>4, <2>5 DEF Complete, RelayTypeOK, control, broker
<1>14. ASSUME NEW w \in Worker, BeginAttemptLost(w) PROVE RelayTypeOK'
  <2> DEFINE e == job[w].event
             n == event[e].attempts
  <2>1. job[w] \in Job
    BY Zenon, <1>14, JobTyped DEF BeginAttemptLost, Stage
  <2>2. n \in 0..MaxAttempts /\ event[e] \in EventRow
    BY <2>1 DEF RelayTypeOK, EventRow, Job
  <2>3. n + 1 \in 0..MaxAttempts
    BY <1>14, <2>2, RelayConstants DEF BeginAttemptLost, AttemptsLeft
  <2>4. Leased(e, event[e].owner, n + 1, event[e].due) \in EventRow
    BY <2>2, <2>3 DEF Leased, EventRow, Status
  <2>5. event' \in [Event -> EventRow]
    BY Zenon, <1>14, <2>1, <2>4 DEF BeginAttemptLost, RelayTypeOK, Job
  <2>6. job' \in [Worker -> {NoJob} \cup Job]
    BY <1>14, GoesTyped DEF BeginAttemptLost, Stage
  <2> QED
    BY <1>14, <2>5, <2>6, RelayConstants DEF BeginAttemptLost, Fault, RelayTypeOK, control, broker
<1>15. ASSUME NEW w \in Worker, LeaveInflight(w) PROVE RelayTypeOK'
  <2>1. job' \in [Worker -> {NoJob} \cup Job]
    BY <1>15, GoesTyped DEF LeaveInflight, Stage
  <2> QED
    BY <1>15, <2>1, RelayConstants DEF LeaveInflight, Fault, RelayTypeOK, control, broker
<1>16. ASSUME NEW r \in Relay, Stop(r) PROVE RelayTypeOK'
  BY <1>16, RelayConstants DEF Stop, Fault, RelayTypeOK, control, broker
<1>17. ASSUME NEW r \in Relay, Stopped(r) PROVE RelayTypeOK'
  BY Zenon, <1>17 DEF Stopped, RelayTypeOK, control, broker
<1>18. ASSUME NEW r \in Relay, Crash(r) PROVE RelayTypeOK'
  <2>1. job' \in [Worker -> {NoJob} \cup Job]
    BY <1>18 DEF Crash, RelayTypeOK
  <2>2. active' \in [Relay -> 0..Concurrency]
    BY <1>18, RelayConstants DEF Crash, RelayTypeOK
  <2> QED
    BY <1>18, <2>1, <2>2, RelayConstants DEF Crash, Fault, RelayTypeOK, control, broker
<1>19. ASSUME NEW e \in Event, RetryDead(e) PROVE RelayTypeOK'
  BY <1>19, RelayConstants DEF RetryDead, Fault, EventRow, Status, RelayTypeOK, control, broker
<1>20. ASSUME NEW e \in Event, CleanupDelivered(e) PROVE RelayTypeOK'
  BY <1>20, RelayConstants DEF CleanupDelivered, Unleased, EventRow, Status, RelayTypeOK, control, broker
<1>21. ASSUME Pause PROVE RelayTypeOK'
  BY <1>21, RelayConstants DEF Pause, Fault, RelayTypeOK, control, broker
<1>22. ASSUME Resume PROVE RelayTypeOK'
  BY Zenon, <1>22 DEF Resume, RelayTypeOK, control, broker
<1>23. ASSUME NEW e \in Event, TimePasses(e) PROVE RelayTypeOK'
  <2>1. event' \in [Event -> EventRow]
    BY Zenon, <1>23, DueTyped DEF TimePasses
  <2> QED
    BY Zenon, <1>23, <2>1 DEF TimePasses, RelayTypeOK, control, broker
<1>24. ASSUME NEW e \in Event, LeaseLapses(e) PROVE RelayTypeOK'
  <2>1. event' \in [Event -> EventRow]
    BY Zenon, <1>24, DueTyped DEF LeaseLapses
  <2>2. faults' \in 0..MaxFaults
    BY <1>24, RelayConstants DEF LeaseLapses, Fault, RelayTypeOK
  <2> QED
    BY <1>24, <2>1, <2>2 DEF LeaseLapses, RelayTypeOK, control, broker
<1> QED
  BY Zenon, <1>1, <1>2, <1>3, <1>4, <1>5, <1>6, <1>7, <1>8, <1>9, <1>10, <1>11, <1>12, <1>13,
     <1>14, <1>15, <1>16, <1>17, <1>18, <1>19, <1>20, <1>21, <1>22, <1>23, <1>24
  DEF RelayNext, Handle
-----------------------------------------------------------------------------
(* The scheduler's count.                                                   *)

\* Moving a job to another stage starts and ends no goroutine.
LEMMA GoesBusy ==
    ASSUME RelayTypeOK, NEW w \in Worker, job[w].stage \in Stage, NEW s \in Stage, Goes(w, s)
    PROVE  \A v \in Worker : job'[v] = NoJob <=> job[v] = NoJob
<1>1. job[w] # NoJob
  BY JobTyped
<1>2. job'[w].stage = s /\ s # "none"
  BY DEF Goes, RelayTypeOK, Stage
<1> QED
  BY <1>1, <1>2 DEF Goes, RelayTypeOK, NoJob

\* A step that starts and ends no goroutine keeps the count.
LEMMA SlotsUntouched ==
    ASSUME SlotsAccounted, UNCHANGED <<active, mode>>,
           \A v \in Worker : job'[v] = NoJob <=> job[v] = NoJob
    PROVE  SlotsAccounted'
<1>1. \A r \in Relay : Busy(r)' = Busy(r)
  BY Zenon DEF Busy
<1> QED
  BY Zenon, <1>1 DEF SlotsAccounted

\* Every step keeps the count exact.
LEMMA SlotsKept ==
    ASSUME RelayTypeOK, SlotsAccounted, RelayNext
    PROVE  SlotsAccounted'
<1>1. ASSUME NEW e \in Event, NEW due \in BOOLEAN, Enqueue(e, due) PROVE SlotsAccounted'
  <2>1. \A v \in Worker : job'[v] = NoJob <=> job[v] = NoJob
    BY <1>1 DEF Enqueue, RelayTypeOK
  <2> QED
    BY Zenon, <1>1, <2>1, SlotsUntouched DEF Enqueue, control
<1>2. ASSUME NEW r \in Relay, Start(r) PROVE SlotsAccounted'
  <2>1. \A p \in Relay : Busy(p)' = Busy(p)
    BY <1>2 DEF Start, Busy
  <2>2. \A p \in Relay : mode'[p] = "stopped" => mode[p] = "stopped"
    BY <1>2 DEF Start, RelayTypeOK
  <2> QED
    BY Zenon, <1>2, <2>1, <2>2 DEF Start, SlotsAccounted
<1>3. ASSUME NEW w \in Worker, NEW e \in Event, Claim(w, e) PROVE SlotsAccounted'
  <2> DEFINE q == RelayOf[w]
  <2>1. q \in Relay /\ w \notin Busy(q) /\ mode[q] = "running"
    BY Zenon, <1>3, RelayConstants DEF Claim, HasSlot, Busy
  <2>2. job'[w] # NoJob /\ \A v \in Worker : v # w => job'[v] = job[v]
    BY <1>3 DEF Claim, RelayTypeOK, NoJob
  <2>3. Busy(q)' = Busy(q) \cup {w}
    BY <2>2 DEF Busy
  <2>4. \A p \in Relay : p # q => Busy(p)' = Busy(p)
    BY Zenon, <2>2 DEF Busy
  <2>5. Cardinality(Busy(q)') = Cardinality(Busy(q)) + 1
    BY Zenon, <2>1, <2>3, BusyFinite, FS_AddElement
  <2>6. \A p \in Relay : active'[p] = IF p = q THEN active[p] + 1 ELSE active[p]
    BY <1>3, <2>1 DEF Claim, RelayTypeOK
  <2>7. active[q] < Concurrency /\ active[q] \in Nat
    BY <1>3, <2>1 DEF Claim, HasSlot, RelayTypeOK
  <2>8. mode' = mode
    BY Zenon, <1>3 DEF Claim
  <2>9. ASSUME NEW p \in Relay
        PROVE  /\ active'[p] = Cardinality(Busy(p)')
               /\ active'[p] <= Concurrency
               /\ mode'[p] = "stopped" => Busy(p)' = {}
    <3>1. CASE p = q
      BY <2>1, <2>5, <2>6, <2>7, <2>8, <3>1, RelayConstants DEF SlotsAccounted
    <3>2. CASE p # q
      BY Zenon, <2>4, <2>6, <2>8, <3>2 DEF SlotsAccounted
    <3> QED
      BY Zenon, <3>1, <3>2
  <2> QED
    BY Zenon, <2>9 DEF SlotsAccounted
<1>4. ASSUME NEW r \in Relay, NEW e \in Event, ClaimLost(r, e) PROVE SlotsAccounted'
  <2>1. \A v \in Worker : job'[v] = NoJob <=> job[v] = NoJob
    BY Zenon, <1>4 DEF ClaimLost, RelayTypeOK
  <2> QED
    BY Zenon, <1>4, <2>1, SlotsUntouched DEF ClaimLost, control
<1>5. ASSUME NEW w \in Worker, BeginAttempt(w) PROVE SlotsAccounted'
  <2>1. job[w] # NoJob
    BY <1>5 DEF BeginAttempt, NoJob
  <2>2. \A v \in Worker : job'[v] = NoJob <=> job[v] = NoJob
    BY <1>5, <2>1, GoesBusy DEF BeginAttempt, RelayTypeOK, Stage, NoJob
  <2> QED
    BY Zenon, <1>5, <2>2, SlotsUntouched DEF BeginAttempt, control
<1>6. ASSUME NEW w \in Worker, BrokerAppends(w) PROVE SlotsAccounted'
  <2>1. \A v \in Worker : job'[v] = NoJob <=> job[v] = NoJob
    BY Zenon, <1>6, GoesBusy DEF BrokerAppends, RelayTypeOK, Stage
  <2> QED
    BY Zenon, <1>6, <2>1, SlotsUntouched DEF BrokerAppends, control
<1>7. ASSUME NEW w \in Worker, BrokerAcks(w) PROVE SlotsAccounted'
  <2>1. \A v \in Worker : job'[v] = NoJob <=> job[v] = NoJob
    BY Zenon, <1>7, GoesBusy DEF BrokerAcks, RelayTypeOK, Stage
  <2> QED
    BY Zenon, <1>7, <2>1, SlotsUntouched DEF BrokerAcks, control
<1>8. ASSUME NEW w \in Worker, PublishFails(w) PROVE SlotsAccounted'
  <2>1. \A v \in Worker : job'[v] = NoJob <=> job[v] = NoJob
    BY Zenon, <1>8, GoesBusy DEF PublishFails, RelayTypeOK, Stage
  <2> QED
    BY Zenon, <1>8, <2>1, SlotsUntouched DEF PublishFails, control
<1>9. ASSUME NEW w \in Worker, BrokerRefuses(w) PROVE SlotsAccounted'
  <2>1. \A v \in Worker : job'[v] = NoJob <=> job[v] = NoJob
    BY Zenon, <1>9, GoesBusy DEF BrokerRefuses, RelayTypeOK, Stage
  <2> QED
    BY Zenon, <1>9, <2>1, SlotsUntouched DEF BrokerRefuses, control
<1>10. ASSUME NEW w \in Worker, MarkDelivered(w) PROVE SlotsAccounted'
  <2>1. \A v \in Worker : job'[v] = NoJob <=> job[v] = NoJob
    BY Zenon, <1>10, GoesBusy DEF MarkDelivered, RelayTypeOK, Mark, Stage
  <2> QED
    BY Zenon, <1>10, <2>1, SlotsUntouched DEF MarkDelivered, control, Mark
<1>11. ASSUME NEW w \in Worker, NEW due \in BOOLEAN, MarkRetry(w, due) PROVE SlotsAccounted'
  <2>1. \A v \in Worker : job'[v] = NoJob <=> job[v] = NoJob
    BY Zenon, <1>11, GoesBusy DEF MarkRetry, RelayTypeOK, Mark, Stage
  <2> QED
    BY Zenon, <1>11, <2>1, SlotsUntouched DEF MarkRetry, control, Mark
<1>12. ASSUME NEW w \in Worker, MarkDead(w) PROVE SlotsAccounted'
  <2>1. \A v \in Worker : job'[v] = NoJob <=> job[v] = NoJob
    BY Zenon, <1>12, GoesBusy DEF MarkDead, RelayTypeOK, Mark, Stage
  <2> QED
    BY Zenon, <1>12, <2>1, SlotsUntouched DEF MarkDead, control, Mark
<1>13. ASSUME NEW w \in Worker, Complete(w) PROVE SlotsAccounted'
  <2> DEFINE q == RelayOf[w]
  <2>1. q \in Relay /\ w \in Busy(q)
    BY <1>13, RelayConstants DEF Complete, Busy, NoJob
  <2>2. job'[w] = NoJob /\ \A v \in Worker : v # w => job'[v] = job[v]
    BY <1>13 DEF Complete, RelayTypeOK
  <2>3. Busy(q)' = Busy(q) \ {w}
    BY Zenon, <2>2 DEF Busy
  <2>4. \A p \in Relay : p # q => Busy(p)' = Busy(p)
    BY Zenon, <2>2 DEF Busy
  <2>5. Cardinality(Busy(q)') = Cardinality(Busy(q)) - 1
    BY Zenon, <2>1, <2>3, BusyFinite, FS_RemoveElement
  <2>6. \A p \in Relay : active'[p] = IF p = q THEN active[p] - 1 ELSE active[p]
    BY <1>13, <2>1 DEF Complete, RelayTypeOK
  <2>7. active[q] \in Nat /\ active[q] <= Concurrency
    BY <2>1 DEF SlotsAccounted, RelayTypeOK
  <2>8. mode' = mode /\ mode[q] # "stopped"
    BY Zenon, <1>13, <2>1 DEF Complete, SlotsAccounted
  <2>9. ASSUME NEW p \in Relay
        PROVE  /\ active'[p] = Cardinality(Busy(p)')
               /\ active'[p] <= Concurrency
               /\ mode'[p] = "stopped" => Busy(p)' = {}
    <3>1. CASE p = q
      BY <2>1, <2>3, <2>5, <2>6, <2>7, <2>8, <3>1, RelayConstants DEF SlotsAccounted
    <3>2. CASE p # q
      BY Zenon, <2>4, <2>6, <2>8, <3>2 DEF SlotsAccounted
    <3> QED
      BY Zenon, <3>1, <3>2
  <2> QED
    BY Zenon, <2>9 DEF SlotsAccounted
<1>14. ASSUME NEW w \in Worker, BeginAttemptLost(w) PROVE SlotsAccounted'
  <2>1. \A v \in Worker : job'[v] = NoJob <=> job[v] = NoJob
    BY Zenon, <1>14, GoesBusy DEF BeginAttemptLost, RelayTypeOK, Stage
  <2> QED
    BY Zenon, <1>14, <2>1, SlotsUntouched DEF BeginAttemptLost, control
<1>15. ASSUME NEW w \in Worker, LeaveInflight(w) PROVE SlotsAccounted'
  <2>1. \A v \in Worker : job'[v] = NoJob <=> job[v] = NoJob
    BY Zenon, <1>15, GoesBusy DEF LeaveInflight, RelayTypeOK, Stage
  <2> QED
    BY Zenon, <1>15, <2>1, SlotsUntouched DEF LeaveInflight, control
<1>16. ASSUME NEW r \in Relay, Stop(r) PROVE SlotsAccounted'
  <2>1. \A p \in Relay : Busy(p)' = Busy(p)
    BY <1>16 DEF Stop, Busy
  <2>2. \A p \in Relay : mode'[p] = "stopped" => mode[p] = "stopped"
    BY Zenon, <1>16 DEF Stop, RelayTypeOK
  <2> QED
    BY Zenon, <1>16, <2>1, <2>2 DEF Stop, SlotsAccounted
<1>17. ASSUME NEW r \in Relay, Stopped(r) PROVE SlotsAccounted'
  <2>1. \A p \in Relay : Busy(p)' = Busy(p)
    BY Zenon, <1>17 DEF Stopped, Busy
  <2>2. Busy(r) = {}
    BY Zenon, <1>17, BusyFinite, FS_EmptySet DEF Stopped, SlotsAccounted
  <2>3. \A p \in Relay : mode'[p] = "stopped" => p = r \/ mode[p] = "stopped"
    BY Zenon, <1>17 DEF Stopped, RelayTypeOK
  <2> QED
    BY Zenon, <1>17, <2>1, <2>2, <2>3 DEF Stopped, SlotsAccounted
<1>18. ASSUME NEW r \in Relay, Crash(r) PROVE SlotsAccounted'
  <2>1. Busy(r)' = {}
    BY <1>18 DEF Crash, Busy
  <2>2. \A p \in Relay : p # r => Busy(p)' = Busy(p)
    BY Zenon, <1>18 DEF Crash, Busy
  <2>3. \A p \in Relay : active'[p] = IF p = r THEN 0 ELSE active[p]
    BY Zenon, <1>18 DEF Crash, RelayTypeOK
  <2>4. \A p \in Relay : p # r => mode'[p] = mode[p]
    BY Zenon, <1>18 DEF Crash, RelayTypeOK
  <2>5. ASSUME NEW p \in Relay
        PROVE  /\ active'[p] = Cardinality(Busy(p)')
               /\ active'[p] <= Concurrency
               /\ mode'[p] = "stopped" => Busy(p)' = {}
    <3>1. CASE p = r
      BY <2>1, <2>3, <3>1, FS_EmptySet, RelayConstants
    <3>2. CASE p # r
      BY Zenon, <2>2, <2>3, <2>4, <3>2 DEF SlotsAccounted
    <3> QED
      BY Zenon, <3>1, <3>2
  <2> QED
    BY Zenon, <2>5 DEF SlotsAccounted
<1>19. ASSUME NEW e \in Event, RetryDead(e) PROVE SlotsAccounted'
  <2>1. \A v \in Worker : job'[v] = NoJob <=> job[v] = NoJob
    BY <1>19 DEF RetryDead, RelayTypeOK
  <2> QED
    BY Zenon, <1>19, <2>1, SlotsUntouched DEF RetryDead, control
<1>20. ASSUME NEW e \in Event, CleanupDelivered(e) PROVE SlotsAccounted'
  <2>1. \A v \in Worker : job'[v] = NoJob <=> job[v] = NoJob
    BY <1>20 DEF CleanupDelivered, RelayTypeOK
  <2> QED
    BY Zenon, <1>20, <2>1, SlotsUntouched DEF CleanupDelivered, control
<1>21. ASSUME Pause PROVE SlotsAccounted'
  <2>1. \A v \in Worker : job'[v] = NoJob <=> job[v] = NoJob
    BY Zenon, <1>21 DEF Pause, RelayTypeOK
  <2> QED
    BY Zenon, <1>21, <2>1, SlotsUntouched DEF Pause, control
<1>22. ASSUME Resume PROVE SlotsAccounted'
  <2>1. \A v \in Worker : job'[v] = NoJob <=> job[v] = NoJob
    BY <1>22 DEF Resume, RelayTypeOK
  <2> QED
    BY Zenon, <1>22, <2>1, SlotsUntouched DEF Resume, control
<1>23. ASSUME NEW e \in Event, TimePasses(e) PROVE SlotsAccounted'
  <2>1. \A v \in Worker : job'[v] = NoJob <=> job[v] = NoJob
    BY <1>23 DEF TimePasses, RelayTypeOK
  <2> QED
    BY Zenon, <1>23, <2>1, SlotsUntouched DEF TimePasses, control
<1>24. ASSUME NEW e \in Event, LeaseLapses(e) PROVE SlotsAccounted'
  <2>1. \A v \in Worker : job'[v] = NoJob <=> job[v] = NoJob
    BY Zenon, <1>24 DEF LeaseLapses, RelayTypeOK
  <2> QED
    BY Zenon, <1>24, <2>1, SlotsUntouched DEF LeaseLapses, control
<1> QED
  BY Zenon, <1>1, <1>2, <1>3, <1>4, <1>5, <1>6, <1>7, <1>8, <1>9, <1>10, <1>11, <1>12, <1>13,
     <1>14, <1>15, <1>16, <1>17, <1>18, <1>19, <1>20, <1>21, <1>22, <1>23, <1>24
  DEF RelayNext, Handle
-----------------------------------------------------------------------------
(* What handlers know, and what the statuses mean.                          *)

Open(row) == row.status \in {"pending", "inflight"} /\ ~row.retried

\* Rows only age: they do not vanish, and an open row was open and counted no
\* more attempts before; the broker forgets nothing.
RowsAge ==
    /\ \A e \in Event : event[e].status # "absent" =>
           /\ event'[e].status # "absent"
           /\ Open(event'[e]) => Open(event[e]) /\ event[e].attempts <= event'[e].attempts
    /\ stored \subseteq stored' /\ rejected \subseteq rejected'

\* Every step only ages the rows.
LEMMA RowsAged ==
    ASSUME RelayTypeOK, RelayNext
    PROVE  RowsAge
<1> USE DEF Open
<1>1. ASSUME NEW e \in Event, NEW due \in BOOLEAN, Enqueue(e, due) PROVE RowsAge
  BY <1>1 DEF Enqueue, Unleased, RelayTypeOK, RowsAge, broker, EventRow
<1>2. ASSUME NEW r \in Relay, Start(r) PROVE RowsAge
  BY <1>2 DEF Start, RelayTypeOK, EventRow, RowsAge, broker
<1>3. ASSUME NEW w \in Worker, NEW e \in Event, Claim(w, e) PROVE RowsAge
  BY <1>3 DEF Claim, Claimable, Leased, RelayTypeOK, RowsAge, broker, EventRow
<1>4. ASSUME NEW r \in Relay, NEW e \in Event, ClaimLost(r, e) PROVE RowsAge
  BY <1>4 DEF ClaimLost, Claimable, Leased, RelayTypeOK, RowsAge, broker, EventRow
<1>5. ASSUME NEW w \in Worker, BeginAttempt(w) PROVE RowsAge
  <2>1. job[w].event \in Event
    BY Zenon, <1>5, JobTyped DEF BeginAttempt, Stage, Job
  <2>2. event' = event \/ (Owns(w) /\ event' = [event EXCEPT ![job[w].event] =
            Leased(job[w].event, @.owner, event[job[w].event].attempts + 1, @.due)])
    BY Zenon, <1>5 DEF BeginAttempt
  <2>3. UNCHANGED <<stored, rejected>>
    BY Zenon, <1>5 DEF BeginAttempt, broker
  <2> QED
    BY <2>1, <2>2, <2>3 DEF Leased, Owns, RelayTypeOK, RowsAge, EventRow
<1>6. ASSUME NEW w \in Worker, BrokerAppends(w) PROVE RowsAge
  BY <1>6 DEF BrokerAppends, RelayTypeOK, EventRow, RowsAge, broker
<1>7. ASSUME NEW w \in Worker, BrokerAcks(w) PROVE RowsAge
  BY <1>7 DEF BrokerAcks, RelayTypeOK, EventRow, RowsAge, broker
<1>8. ASSUME NEW w \in Worker, PublishFails(w) PROVE RowsAge
  BY <1>8 DEF PublishFails, RelayTypeOK, EventRow, RowsAge, broker
<1>9. ASSUME NEW w \in Worker, BrokerRefuses(w) PROVE RowsAge
  BY <1>9 DEF BrokerRefuses, RelayTypeOK, EventRow, RowsAge, broker
<1>10. ASSUME NEW w \in Worker, MarkDelivered(w) PROVE RowsAge
  <2> DEFINE e == job[w].event
  <2>1. e \in Event
    BY Zenon, <1>10, JobTyped DEF MarkDelivered, Stage, Job
  <2>2. event' = event \/ (Owns(w) /\ event' =
            [event EXCEPT ![e] = Unleased(e, "delivered", event[e].attempts, FALSE)])
    BY Zenon, <1>10 DEF MarkDelivered, Mark
  <2>3. UNCHANGED <<stored, rejected>>
    BY Zenon, <1>10 DEF MarkDelivered, Mark, broker
  <2> QED
    BY <2>1, <2>2, <2>3 DEF Unleased, Owns, RelayTypeOK, RowsAge, EventRow
<1>11. ASSUME NEW w \in Worker, NEW due \in BOOLEAN, MarkRetry(w, due) PROVE RowsAge
  <2> DEFINE e == job[w].event
  <2>1. e \in Event
    BY <1>11, JobTyped DEF MarkRetry, Stage, Job
  <2>2. event' = event \/ (Owns(w) /\ event' =
            [event EXCEPT ![e] = Unleased(e, "pending", event[e].attempts, due)])
    BY Zenon, <1>11 DEF MarkRetry, Mark
  <2>3. UNCHANGED <<stored, rejected>>
    BY Zenon, <1>11 DEF MarkRetry, Mark, broker
  <2> QED
    BY <2>1, <2>2, <2>3 DEF Unleased, Owns, RelayTypeOK, RowsAge, EventRow
<1>12. ASSUME NEW w \in Worker, MarkDead(w) PROVE RowsAge
  <2> DEFINE e == job[w].event
  <2>1. e \in Event
    BY <1>12, JobTyped DEF MarkDead, Stage, Job
  <2>2. event' = event \/ (Owns(w) /\ event' =
            [event EXCEPT ![e] = Unleased(e, "dead", event[e].attempts, FALSE)])
    BY Zenon, <1>12 DEF MarkDead, Mark
  <2>3. UNCHANGED <<stored, rejected>>
    BY Zenon, <1>12 DEF MarkDead, Mark, broker
  <2> QED
    BY <2>1, <2>2, <2>3 DEF Unleased, Owns, RelayTypeOK, RowsAge, EventRow
<1>13. ASSUME NEW w \in Worker, Complete(w) PROVE RowsAge
  BY <1>13 DEF Complete, RelayTypeOK, EventRow, RowsAge, broker, control
<1>14. ASSUME NEW w \in Worker, BeginAttemptLost(w) PROVE RowsAge
  <2>1. job[w].event \in Event
    BY Zenon, <1>14, JobTyped DEF BeginAttemptLost, Stage, Job
  <2> QED
    BY <1>14, <2>1 DEF BeginAttemptLost, Leased, Owns, RelayTypeOK, RowsAge, broker, EventRow
<1>15. ASSUME NEW w \in Worker, LeaveInflight(w) PROVE RowsAge
  BY <1>15 DEF LeaveInflight, RelayTypeOK, EventRow, RowsAge, broker
<1>16. ASSUME NEW r \in Relay, Stop(r) PROVE RowsAge
  BY <1>16 DEF Stop, RelayTypeOK, EventRow, RowsAge, broker
<1>17. ASSUME NEW r \in Relay, Stopped(r) PROVE RowsAge
  BY <1>17 DEF Stopped, RelayTypeOK, EventRow, RowsAge, broker
<1>18. ASSUME NEW r \in Relay, Crash(r) PROVE RowsAge
  BY <1>18 DEF Crash, RelayTypeOK, EventRow, RowsAge, broker
<1>19. ASSUME NEW e \in Event, RetryDead(e) PROVE RowsAge
  BY <1>19 DEF RetryDead, RelayTypeOK, RowsAge, broker, EventRow
<1>20. ASSUME NEW e \in Event, CleanupDelivered(e) PROVE RowsAge
  BY <1>20 DEF CleanupDelivered, Unleased, RelayTypeOK, RowsAge, broker, EventRow
<1>21. ASSUME Pause PROVE RowsAge
  BY <1>21 DEF Pause, RelayTypeOK, EventRow, RowsAge, broker
<1>22. ASSUME Resume PROVE RowsAge
  BY <1>22 DEF Resume, RelayTypeOK, EventRow, RowsAge, broker
<1>23. ASSUME NEW e \in Event, TimePasses(e) PROVE RowsAge
  BY <1>23 DEF TimePasses, RelayTypeOK, RowsAge, broker, EventRow
<1>24. ASSUME NEW e \in Event, LeaseLapses(e) PROVE RowsAge
  BY <1>24 DEF LeaseLapses, RelayTypeOK, RowsAge, broker, EventRow
<1> QED
  BY Zenon, <1>1, <1>2, <1>3, <1>4, <1>5, <1>6, <1>7, <1>8, <1>9, <1>10, <1>11, <1>12, <1>13,
     <1>14, <1>15, <1>16, <1>17, <1>18, <1>19, <1>20, <1>21, <1>22, <1>23, <1>24
  DEF RelayNext, Handle

\* A handler that does not move stays sound.
LEMMA SoundAsBefore ==
    ASSUME RelayTypeOK, RelayTypeOK', RowsAge, NEW v \in Worker, JobSound(v), job'[v] = job[v]
    PROVE  JobSound(v)'
<1>1. CASE job[v] = NoJob
  BY Zenon, <1>1 DEF JobSound
<1>2. CASE job[v] # NoJob
  <2>1. job[v] \in Job /\ job[v].event \in Event
    BY <1>2 DEF RelayTypeOK, Job
  <2>2. /\ event[job[v].event].attempts \in Nat
        /\ event'[job[v].event].attempts \in Nat
        /\ job[v].attempts \in Nat
    BY <2>1 DEF RelayTypeOK, EventRow, Job
  <2> QED
    BY <1>2, <2>1, <2>2 DEF JobSound, RowsAge, Open
<1> QED
  BY Zenon, <1>1, <1>2

\* Neither does one that moves on with what its new stage says.
LEMMA MovedSound ==
    ASSUME RelayTypeOK, RelayTypeOK', RowsAge, \A v \in Worker : JobSound(v),
           NEW w \in Worker, job[w].stage \in Stage, NEW s \in Stage, Goes(w, s),
           s \in {"appended", "acked"} => job[w].event \in stored',
           s = "refused" => job[w].event \in rejected'
    PROVE  \A v \in Worker : JobSound(v)'
<1>1. job[w] \in Job /\ job[w] # NoJob /\ job[w].event \in Event
  BY Zenon, JobTyped DEF Job
<1>2. job'[w] = [stage |-> s, event |-> job[w].event, attempts |-> job[w].attempts]
  BY Zenon DEF Goes, RelayTypeOK
<1>3. \A v \in Worker : v # w => job'[v] = job[v]
  BY Zenon DEF Goes, RelayTypeOK
<1>4. /\ event[job[w].event].attempts \in Nat
      /\ event'[job[w].event].attempts \in Nat
      /\ job[w].attempts \in Nat
  BY <1>1 DEF RelayTypeOK, EventRow, Job
<1>5. JobSound(w)'
  BY <1>1, <1>2, <1>4 DEF JobSound, RowsAge, Open
<1> QED
  BY <1>3, <1>5, SoundAsBefore

\* Every step keeps every handler sound.
LEMMA JobsKept ==
    ASSUME RelayTypeOK, RelayTypeOK', \A v \in Worker : JobSound(v), RelayNext
    PROVE  \A v \in Worker : JobSound(v)'
<1>0. RowsAge
  BY Zenon, RowsAged
<1> USE <1>0
<1>1. ASSUME NEW e \in Event, NEW due \in BOOLEAN, Enqueue(e, due)
      PROVE  \A v \in Worker : JobSound(v)'
  BY Zenon, <1>1, SoundAsBefore DEF Enqueue
<1>2. ASSUME NEW r \in Relay, Start(r) PROVE \A v \in Worker : JobSound(v)'
  BY Zenon, <1>2, SoundAsBefore DEF Start
<1>3. ASSUME NEW w \in Worker, NEW e \in Event, Claim(w, e) PROVE \A v \in Worker : JobSound(v)'
  <2>1. job'[w] = [stage |-> "claimed", event |-> e, attempts |-> event[e].attempts]
    BY Zenon, <1>3 DEF Claim, RelayTypeOK
  <2>2. event'[e].attempts = event[e].attempts /\ event'[e].status = "inflight"
    BY Zenon, <1>3 DEF Claim, RelayTypeOK, Leased
  <2>3. event[e].attempts \in Nat
    BY DEF RelayTypeOK, EventRow
  <2>4. JobSound(w)'
    BY <2>1, <2>2, <2>3 DEF JobSound
  <2>5. \A v \in Worker : v # w => job'[v] = job[v]
    BY Zenon, <1>3 DEF Claim, RelayTypeOK
  <2> QED
    BY Zenon, <2>4, <2>5, SoundAsBefore
<1>4. ASSUME NEW r \in Relay, NEW e \in Event, ClaimLost(r, e) PROVE \A v \in Worker : JobSound(v)'
  BY Zenon, <1>4, SoundAsBefore DEF ClaimLost
<1>5. ASSUME NEW w \in Worker, BeginAttempt(w) PROVE \A v \in Worker : JobSound(v)'
  <2> DEFINE e == job[w].event
             n == event[e].attempts
  <2>1. job[w].stage \in Stage /\ job[w] # NoJob /\ e \in Event
    BY Zenon, <1>5, JobTyped DEF BeginAttempt, Stage, Job
  <2>2. CASE Owns(w) /\ AttemptsLeft(n)
    <3>1. job' = [job EXCEPT ![w] = [stage |-> "begun", event |-> e, attempts |-> n + 1]]
      BY Zenon, <1>5, <2>2 DEF BeginAttempt
    <3>2. event'[e].attempts = n + 1 /\ event'[e].status = "inflight"
      BY <1>5, <2>1, <2>2 DEF BeginAttempt, RelayTypeOK, Leased
    <3>3. job'[w] = [stage |-> "begun", event |-> e, attempts |-> n + 1]
      BY Zenon, <3>1 DEF RelayTypeOK
    <3>4. n + 1 \in Nat
      BY <2>1 DEF RelayTypeOK, EventRow
    <3>5. JobSound(w)'
      BY <3>2, <3>3, <3>4 DEF JobSound
    <3>6. \A v \in Worker : v # w => job'[v] = job[v]
      BY Zenon, <3>1 DEF RelayTypeOK
    <3> QED
      BY Zenon, <3>5, <3>6, SoundAsBefore
  <2>3. CASE ~(Owns(w) /\ AttemptsLeft(n))
    BY Zenon, <1>5, <2>1, <2>3, MovedSound DEF BeginAttempt, Stage
  <2> QED
    BY Zenon, <2>2, <2>3
<1>6. ASSUME NEW w \in Worker, BrokerAppends(w) PROVE \A v \in Worker : JobSound(v)'
  <2>1. job[w].stage \in Stage /\ Goes(w, "appended")
    BY Zenon, <1>6 DEF BrokerAppends, Stage
  <2>2. "appended" \in {"appended", "acked"} => job[w].event \in stored'
    BY Zenon, <1>6, <2>1, JobTyped DEF BrokerAppends, JobSound, broker
  <2>3. "appended" = "refused" => job[w].event \in rejected'
    BY Zenon, <1>6 DEF BrokerAppends
  <2> QED
    BY Zenon, <2>1, <2>2, <2>3, MovedSound DEF Stage
<1>7. ASSUME NEW w \in Worker, BrokerAcks(w) PROVE \A v \in Worker : JobSound(v)'
  <2>1. job[w].stage \in Stage /\ Goes(w, "acked")
    BY Zenon, <1>7 DEF BrokerAcks, Stage
  <2>2. "acked" \in {"appended", "acked"} => job[w].event \in stored'
    BY Zenon, <1>7, <2>1, JobTyped DEF BrokerAcks, JobSound, broker
  <2>3. "acked" = "refused" => job[w].event \in rejected'
    BY Zenon, <1>7 DEF BrokerAcks
  <2> QED
    BY Zenon, <2>1, <2>2, <2>3, MovedSound DEF Stage
<1>8. ASSUME NEW w \in Worker, PublishFails(w) PROVE \A v \in Worker : JobSound(v)'
  <2>1. job[w].stage \in Stage /\ Goes(w, "failed")
    BY Zenon, <1>8 DEF PublishFails, Stage
  <2>2. "failed" \in {"appended", "acked"} => job[w].event \in stored'
    BY Zenon, <1>8, <2>1, JobTyped DEF PublishFails, JobSound, broker
  <2>3. "failed" = "refused" => job[w].event \in rejected'
    BY Zenon, <1>8 DEF PublishFails
  <2> QED
    BY Zenon, <2>1, <2>2, <2>3, MovedSound DEF Stage
<1>9. ASSUME NEW w \in Worker, BrokerRefuses(w) PROVE \A v \in Worker : JobSound(v)'
  <2>1. job[w].stage \in Stage /\ Goes(w, "refused")
    BY Zenon, <1>9 DEF BrokerRefuses, Stage
  <2>2. "refused" \in {"appended", "acked"} => job[w].event \in stored'
    BY Zenon, <1>9, <2>1, JobTyped DEF BrokerRefuses, JobSound, broker
  <2>3. "refused" = "refused" => job[w].event \in rejected'
    BY Zenon, <1>9 DEF BrokerRefuses
  <2> QED
    BY Zenon, <2>1, <2>2, <2>3, MovedSound DEF Stage
<1>10. ASSUME NEW w \in Worker, MarkDelivered(w) PROVE \A v \in Worker : JobSound(v)'
  <2>1. job[w].stage \in Stage /\ Goes(w, "done")
    BY Zenon, <1>10 DEF MarkDelivered, Mark, Stage
  <2> QED
    BY Zenon, <2>1, MovedSound DEF Stage
<1>11. ASSUME NEW w \in Worker, NEW due \in BOOLEAN, MarkRetry(w, due)
      PROVE  \A v \in Worker : JobSound(v)'
  <2>1. job[w].stage \in Stage /\ Goes(w, "done")
    BY Zenon, <1>11 DEF MarkRetry, Mark, Stage
  <2> QED
    BY Zenon, <2>1, MovedSound DEF Stage
<1>12. ASSUME NEW w \in Worker, MarkDead(w) PROVE \A v \in Worker : JobSound(v)'
  <2>1. job[w].stage \in Stage /\ Goes(w, "done")
    BY Zenon, <1>12 DEF MarkDead, Mark, Stage
  <2> QED
    BY Zenon, <2>1, MovedSound DEF Stage
<1>13. ASSUME NEW w \in Worker, Complete(w) PROVE \A v \in Worker : JobSound(v)'
  <2>1. \A v \in Worker : job'[v] = job[v] \/ job'[v] = NoJob
    BY Zenon, <1>13 DEF Complete, RelayTypeOK
  <2>2. \A v \in Worker : job'[v] = NoJob => JobSound(v)'
    BY Zenon DEF JobSound
  <2> QED
    BY Zenon, <2>1, <2>2, SoundAsBefore
<1>14. ASSUME NEW w \in Worker, BeginAttemptLost(w) PROVE \A v \in Worker : JobSound(v)'
  <2>1. job[w].stage \in Stage /\ Goes(w, "done")
    BY Zenon, <1>14 DEF BeginAttemptLost, Stage
  <2>2. "done" \in {"appended", "acked"} => job[w].event \in stored'
    BY Zenon, <1>14, <2>1, JobTyped DEF BeginAttemptLost, JobSound, broker
  <2>3. "done" = "refused" => job[w].event \in rejected'
    BY Zenon, <1>14 DEF BeginAttemptLost
  <2> QED
    BY Zenon, <2>1, <2>2, <2>3, MovedSound DEF Stage
<1>15. ASSUME NEW w \in Worker, LeaveInflight(w) PROVE \A v \in Worker : JobSound(v)'
  <2>1. job[w].stage \in Stage /\ Goes(w, "done")
    BY Zenon, <1>15 DEF LeaveInflight, Stage
  <2>2. "done" \in {"appended", "acked"} => job[w].event \in stored'
    BY Zenon, <1>15, <2>1, JobTyped DEF LeaveInflight, JobSound, broker
  <2>3. "done" = "refused" => job[w].event \in rejected'
    BY Zenon, <1>15 DEF LeaveInflight
  <2> QED
    BY Zenon, <2>1, <2>2, <2>3, MovedSound DEF Stage
<1>16. ASSUME NEW r \in Relay, Stop(r) PROVE \A v \in Worker : JobSound(v)'
  BY Zenon, <1>16, SoundAsBefore DEF Stop
<1>17. ASSUME NEW r \in Relay, Stopped(r) PROVE \A v \in Worker : JobSound(v)'
  BY Zenon, <1>17, SoundAsBefore DEF Stopped
<1>18. ASSUME NEW r \in Relay, Crash(r) PROVE \A v \in Worker : JobSound(v)'
  <2>1. \A v \in Worker : job'[v] = job[v] \/ job'[v] = NoJob
    BY Zenon, <1>18 DEF Crash, RelayTypeOK
  <2>2. \A v \in Worker : job'[v] = NoJob => JobSound(v)'
    BY Zenon DEF JobSound
  <2> QED
    BY Zenon, <2>1, <2>2, SoundAsBefore
<1>19. ASSUME NEW e \in Event, RetryDead(e) PROVE \A v \in Worker : JobSound(v)'
  BY Zenon, <1>19, SoundAsBefore DEF RetryDead
<1>20. ASSUME NEW e \in Event, CleanupDelivered(e) PROVE \A v \in Worker : JobSound(v)'
  BY Zenon, <1>20, SoundAsBefore DEF CleanupDelivered
<1>21. ASSUME Pause PROVE \A v \in Worker : JobSound(v)'
  BY Zenon, <1>21, SoundAsBefore DEF Pause
<1>22. ASSUME Resume PROVE \A v \in Worker : JobSound(v)'
  BY Zenon, <1>22, SoundAsBefore DEF Resume
<1>23. ASSUME NEW e \in Event, TimePasses(e) PROVE \A v \in Worker : JobSound(v)'
  BY Zenon, <1>23, SoundAsBefore DEF TimePasses
<1>24. ASSUME NEW e \in Event, LeaseLapses(e) PROVE \A v \in Worker : JobSound(v)'
  BY Zenon, <1>24, SoundAsBefore DEF LeaseLapses
<1> QED
  BY Zenon, <1>1, <1>2, <1>3, <1>4, <1>5, <1>6, <1>7, <1>8, <1>9, <1>10, <1>11, <1>12, <1>13,
     <1>14, <1>15, <1>16, <1>17, <1>18, <1>19, <1>20, <1>21, <1>22, <1>23, <1>24
  DEF RelayNext, Handle

\* Every step keeps the meaning of delivered and dead.
LEMMA StatusesKept ==
    ASSUME RelayTypeOK, \A v \in Worker : JobSound(v), DeliveredIsStored, DeadHasReason, RelayNext
    PROVE  DeliveredIsStored' /\ DeadHasReason'
<1>1. ASSUME NEW e \in Event, NEW due \in BOOLEAN, Enqueue(e, due)
      PROVE  DeliveredIsStored' /\ DeadHasReason'
  BY Zenon, <1>1 DEF Enqueue, DeliveredIsStored, DeadHasReason, broker, RelayTypeOK, Unleased
<1>2. ASSUME NEW r \in Relay, Start(r) PROVE DeliveredIsStored' /\ DeadHasReason'
  BY Zenon, <1>2 DEF Start, DeliveredIsStored, DeadHasReason, broker
<1>3. ASSUME NEW w \in Worker, NEW e \in Event, Claim(w, e)
      PROVE  DeliveredIsStored' /\ DeadHasReason'
  BY Zenon, <1>3 DEF Claim, DeliveredIsStored, DeadHasReason, broker, RelayTypeOK, Leased
<1>4. ASSUME NEW r \in Relay, NEW e \in Event, ClaimLost(r, e)
      PROVE  DeliveredIsStored' /\ DeadHasReason'
  BY Zenon, <1>4 DEF ClaimLost, DeliveredIsStored, DeadHasReason, broker, RelayTypeOK, Leased
<1>5. ASSUME NEW w \in Worker, BeginAttempt(w) PROVE DeliveredIsStored' /\ DeadHasReason'
  <2>1. \A e \in Event : event'[e] = event[e] \/ event'[e].status = "inflight"
    BY <1>5 DEF BeginAttempt, RelayTypeOK, Leased
  <2> QED
    BY Zenon, <1>5, <2>1 DEF BeginAttempt, DeliveredIsStored, DeadHasReason, broker
<1>6. ASSUME NEW w \in Worker, BrokerAppends(w) PROVE DeliveredIsStored' /\ DeadHasReason'
  BY <1>6 DEF BrokerAppends, DeliveredIsStored, DeadHasReason
<1>7. ASSUME NEW w \in Worker, BrokerAcks(w) PROVE DeliveredIsStored' /\ DeadHasReason'
  BY <1>7 DEF BrokerAcks, DeliveredIsStored, DeadHasReason, broker
<1>8. ASSUME NEW w \in Worker, PublishFails(w) PROVE DeliveredIsStored' /\ DeadHasReason'
  BY Zenon, <1>8 DEF PublishFails, DeliveredIsStored, DeadHasReason, broker
<1>9. ASSUME NEW w \in Worker, BrokerRefuses(w) PROVE DeliveredIsStored' /\ DeadHasReason'
  BY <1>9 DEF BrokerRefuses, DeliveredIsStored, DeadHasReason
<1>10. ASSUME NEW w \in Worker, MarkDelivered(w) PROVE DeliveredIsStored' /\ DeadHasReason'
  <2> DEFINE e == job[w].event
  <2>1. job[w] \in Job /\ job[w] # NoJob /\ e \in Event
    BY Zenon, <1>10, JobTyped DEF MarkDelivered, Stage, Job
  <2>2. UNCHANGED <<stored, rejected>>
    BY Zenon, <1>10 DEF MarkDelivered, Mark, broker
  <2>3. CASE ~Owns(w)
    BY Zenon, <1>10, <2>2, <2>3 DEF MarkDelivered, Mark, DeliveredIsStored, DeadHasReason
  <2>4. CASE Owns(w)
    <3>1. event' = [event EXCEPT ![e] = Unleased(e, "delivered", event[e].attempts, FALSE)]
      BY Zenon, <1>10, <2>4 DEF MarkDelivered, Mark
    <3>2. /\ \A d \in Event : d # e => event'[d] = event[d]
          /\ event'[e].status = "delivered"
          /\ event'[e].attempts = event[e].attempts
          /\ event'[e].retried = event[e].retried
      BY Zenon, <2>1, <3>1 DEF RelayTypeOK, Unleased
    <3>3. e \in stored
      BY Zenon, <1>10, <2>1 DEF MarkDelivered, JobSound
    <3> QED
      BY Zenon, <2>2, <3>2, <3>3 DEF DeliveredIsStored, DeadHasReason
  <2> QED
    BY Zenon, <2>3, <2>4
<1>11. ASSUME NEW w \in Worker, NEW due \in BOOLEAN, MarkRetry(w, due)
      PROVE  DeliveredIsStored' /\ DeadHasReason'
  <2> DEFINE e == job[w].event
  <2>1. job[w] \in Job /\ job[w] # NoJob /\ e \in Event
    BY Zenon, <1>11, JobTyped DEF MarkRetry, Stage, Job
  <2>2. UNCHANGED <<stored, rejected>>
    BY Zenon, <1>11 DEF MarkRetry, Mark, broker
  <2>3. CASE ~Owns(w)
    BY Zenon, <1>11, <2>2, <2>3 DEF MarkRetry, Mark, DeliveredIsStored, DeadHasReason
  <2>4. CASE Owns(w)
    <3>1. event' = [event EXCEPT ![e] = Unleased(e, "pending", event[e].attempts, due)]
      BY Zenon, <1>11, <2>4 DEF MarkRetry, Mark
    <3>2. /\ \A d \in Event : d # e => event'[d] = event[d]
          /\ event'[e].status = "pending"
          /\ event'[e].attempts = event[e].attempts
          /\ event'[e].retried = event[e].retried
      BY Zenon, <2>1, <3>1 DEF RelayTypeOK, Unleased
    <3> QED
      BY Zenon, <2>2, <3>2 DEF DeliveredIsStored, DeadHasReason
  <2> QED
    BY Zenon, <2>3, <2>4
<1>12. ASSUME NEW w \in Worker, MarkDead(w) PROVE DeliveredIsStored' /\ DeadHasReason'
  <2> DEFINE e == job[w].event
  <2>1. job[w] \in Job /\ job[w] # NoJob /\ e \in Event
    BY Zenon, <1>12, JobTyped DEF MarkDead, Stage, Job
  <2>2. UNCHANGED <<stored, rejected>>
    BY Zenon, <1>12 DEF MarkDead, Mark, broker
  <2>3. CASE ~Owns(w)
    BY Zenon, <1>12, <2>2, <2>3 DEF MarkDead, Mark, DeliveredIsStored, DeadHasReason
  <2>4. CASE Owns(w)
    <3>1. event' = [event EXCEPT ![e] = Unleased(e, "dead", event[e].attempts, FALSE)]
      BY Zenon, <1>12, <2>4 DEF MarkDead, Mark
    <3>2. /\ \A d \in Event : d # e => event'[d] = event[d]
          /\ event'[e].status = "dead"
          /\ event'[e].attempts = event[e].attempts
          /\ event'[e].retried = event[e].retried
      BY Zenon, <2>1, <3>1 DEF RelayTypeOK, Unleased
    <3>3. CASE job[w].stage = "refused"
      BY Zenon, <2>1, <2>2, <3>2, <3>3 DEF JobSound, DeliveredIsStored, DeadHasReason
    <3>4. CASE ~AttemptsLeft(job[w].attempts)
      <4>1. ~event[e].retried => job[w].attempts <= event[e].attempts
        BY <2>1, <2>4 DEF JobSound, Owns
      <4>2. event[e].attempts \in 0..MaxAttempts /\ job[w].attempts \in 0..MaxAttempts
        BY Zenon, <2>1 DEF RelayTypeOK, EventRow, Job
      <4>3. ~event[e].retried => event[e].attempts = MaxAttempts
        BY <3>4, <4>1, <4>2, RelayConstants DEF AttemptsLeft
      <4> QED
        BY Zenon, <2>2, <3>2, <4>3 DEF DeliveredIsStored, DeadHasReason
    <3> QED
      BY Zenon, <1>12, <3>3, <3>4 DEF MarkDead
  <2> QED
    BY <2>3, <2>4
<1>13. ASSUME NEW w \in Worker, Complete(w) PROVE DeliveredIsStored' /\ DeadHasReason'
  BY Zenon, <1>13 DEF Complete, DeliveredIsStored, DeadHasReason, broker
<1>14. ASSUME NEW w \in Worker, BeginAttemptLost(w) PROVE DeliveredIsStored' /\ DeadHasReason'
  <2>1. \A e \in Event : event'[e] = event[e] \/ event'[e].status = "inflight"
    BY <1>14 DEF BeginAttemptLost, RelayTypeOK, Leased
  <2> QED
    BY Zenon, <1>14, <2>1 DEF BeginAttemptLost, DeliveredIsStored, DeadHasReason, broker
<1>15. ASSUME NEW w \in Worker, LeaveInflight(w) PROVE DeliveredIsStored' /\ DeadHasReason'
  BY <1>15 DEF LeaveInflight, DeliveredIsStored, DeadHasReason, broker
<1>16. ASSUME NEW r \in Relay, Stop(r) PROVE DeliveredIsStored' /\ DeadHasReason'
  BY <1>16 DEF Stop, DeliveredIsStored, DeadHasReason, broker
<1>17. ASSUME NEW r \in Relay, Stopped(r) PROVE DeliveredIsStored' /\ DeadHasReason'
  BY <1>17 DEF Stopped, DeliveredIsStored, DeadHasReason, broker
<1>18. ASSUME NEW r \in Relay, Crash(r) PROVE DeliveredIsStored' /\ DeadHasReason'
  BY <1>18 DEF Crash, DeliveredIsStored, DeadHasReason, broker
<1>19. ASSUME NEW e \in Event, RetryDead(e) PROVE DeliveredIsStored' /\ DeadHasReason'
  BY <1>19 DEF RetryDead, DeliveredIsStored, DeadHasReason, broker, RelayTypeOK
<1>20. ASSUME NEW e \in Event, CleanupDelivered(e) PROVE DeliveredIsStored' /\ DeadHasReason'
  BY <1>20 DEF CleanupDelivered, DeliveredIsStored, DeadHasReason, broker, RelayTypeOK, Unleased
<1>21. ASSUME Pause PROVE DeliveredIsStored' /\ DeadHasReason'
  BY <1>21 DEF Pause, DeliveredIsStored, DeadHasReason, broker
<1>22. ASSUME Resume PROVE DeliveredIsStored' /\ DeadHasReason'
  BY <1>22 DEF Resume, DeliveredIsStored, DeadHasReason, broker
<1>23. ASSUME NEW e \in Event, TimePasses(e) PROVE DeliveredIsStored' /\ DeadHasReason'
  <2>1. \A d \in Event : /\ event'[d].status = event[d].status
                          /\ event'[d].retried = event[d].retried
                          /\ event'[d].attempts = event[d].attempts
    BY <1>23 DEF TimePasses, RelayTypeOK, EventRow
  <2> QED
    BY <1>23, <2>1 DEF TimePasses, DeliveredIsStored, DeadHasReason, broker
<1>24. ASSUME NEW e \in Event, LeaseLapses(e) PROVE DeliveredIsStored' /\ DeadHasReason'
  <2>1. \A d \in Event : /\ event'[d].status = event[d].status
                          /\ event'[d].retried = event[d].retried
                          /\ event'[d].attempts = event[d].attempts
    BY <1>24 DEF LeaseLapses, RelayTypeOK, EventRow
  <2> QED
    BY <1>24, <2>1 DEF LeaseLapses, DeliveredIsStored, DeadHasReason, broker
<1> QED
  BY SMTT(30), <1>1, <1>2, <1>3, <1>4, <1>5, <1>6, <1>7, <1>8, <1>9, <1>10, <1>11, <1>12, <1>13,
     <1>14, <1>15, <1>16, <1>17, <1>18, <1>19, <1>20, <1>21, <1>22, <1>23, <1>24
  DEF RelayNext, Handle
-----------------------------------------------------------------------------
(* The theorems.                                                            *)

\* The inductive invariant holds in every reachable state.
THEOREM RelayInvariance == RelaySpec => []IInv
<1>1. RelayInit => IInv
  <2> SUFFICES ASSUME RelayInit PROVE IInv
    OBVIOUS
  <2>1. RelayTypeOK
    <3>1. event \in [Event -> EventRow]
      BY RelayConstants DEF RelayInit, EventRow, Status
    <3>2. active \in [Relay -> 0..Concurrency] /\ faults \in 0..MaxFaults
      BY RelayConstants DEF RelayInit
    <3>3. mode \in [Relay -> {"stopped", "running", "draining"}]
      BY DEF RelayInit
    <3> QED
      BY Zenon, <3>1, <3>2, <3>3 DEF RelayInit, RelayTypeOK
  <2>2. \A w \in Worker : job[w] = NoJob
    BY DEF RelayInit
  <2>3. \A r \in Relay : Busy(r) = {}
    BY <2>2 DEF Busy
  <2>4. Cardinality({}) = 0
    BY FS_EmptySet
  <2>5. SlotsAccounted
    <3>1. \A r \in Relay : active[r] = 0
      BY DEF RelayInit
    <3>2. 0 <= Concurrency
      BY RelayConstants
    <3> QED
      BY <2>3, <2>4, <3>1, <3>2 DEF SlotsAccounted
  <2>6. \A w \in Worker : JobSound(w)
    BY <2>2 DEF JobSound
  <2> QED
    BY <2>1, <2>5, <2>6 DEF RelayInit, IInv, DeliveredIsStored, DeadHasReason
<1>2. IInv /\ [RelayNext]_vars => IInv'
  <2> SUFFICES ASSUME IInv, [RelayNext]_vars PROVE IInv'
    OBVIOUS
  <2>1. CASE RelayNext
    BY Zenon, <2>1, TypesKept, SlotsKept, JobsKept, StatusesKept DEF IInv
  <2>2. CASE UNCHANGED vars
    <3>1. UNCHANGED <<event, job, active, mode, paused, stored, rejected, faults>>
      BY <2>2 DEF vars, control, broker
    <3> QED
      BY Zenon, <3>1 DEF IInv, RelayTypeOK, SlotsAccounted, Busy, JobSound, DeliveredIsStored,
                  DeadHasReason
  <2> QED
    BY <2>1, <2>2
<1> QED
  BY <1>1, <1>2, PTL DEF RelaySpec

\* Rows, jobs and the scheduler's state keep their types; in particular the
\* store never counts more than MaxAttempts attempts.
THEOREM RelayTypeCorrect == RelaySpec => []RelayTypeOK
<1>1. IInv => RelayTypeOK
  BY DEF IInv
<1> QED
  BY <1>1, RelayInvariance, PTL

\* runScheduler's count is exact, whatever handlers do.
THEOREM SlotsExact == RelaySpec => []SlotsAccounted
<1>1. IInv => SlotsAccounted
  BY DEF IInv
<1> QED
  BY <1>1, RelayInvariance, PTL

\* A delivered or cleaned-up event is in the broker's log.
THEOREM DeliveredSafe == RelaySpec => []DeliveredIsStored
<1>1. IInv => DeliveredIsStored
  BY DEF IInv
<1> QED
  BY <1>1, RelayInvariance, PTL

\* Unless an operator retried it, an event dies only for a reason.
THEOREM DeadJustified == RelaySpec => []DeadHasReason
<1>1. IInv => DeadHasReason
  BY DEF IInv
<1> QED
  BY <1>1, RelayInvariance, PTL

\* One row's new status is one event's new phase.
LEMMA PromiseMoves ==
    ASSUME RelayTypeOK, NEW e \in Event, event' = [event EXCEPT ![e] = event'[e]],
           NEW status, event'[e].status = status
    PROVE  Promise' = [Promise EXCEPT ![e] = PhaseOf(status)]
<1>1. \A d \in Event : d # e => event'[d] = event[d]
  BY DEF RelayTypeOK
<1> QED
  BY Zenon, <1>1 DEF Promise

\* Every step of the relays is a step of the promise, or changes nothing of it.
LEMMA StepsKeepPromise ==
    ASSUME IInv, RelayNext
    PROVE  Outbox!OutboxNext \/ UNCHANGED <<Promise, stored>>
<1> RelayTypeOK
  BY Zenon DEF IInv
<1>1. ASSUME NEW e \in Event, NEW due \in BOOLEAN, Enqueue(e, due)
      PROVE  Outbox!OutboxNext \/ UNCHANGED <<Promise, stored>>
  <2>1. event[e].status = "absent" /\ event' = [event EXCEPT ![e] = event'[e]]
    BY <1>1 DEF Enqueue, RelayTypeOK
  <2>2. event'[e].status = "pending"
    BY <1>1 DEF Enqueue, RelayTypeOK, Unleased
  <2>3. Promise' = [Promise EXCEPT ![e] = PhaseOf("pending")]
    BY <2>1, <2>2, PromiseMoves
  <2>4. Promise[e] = PhaseOf("absent") /\ stored' = stored
    BY <1>1, <2>1 DEF Enqueue, Promise, broker
  <2> QED
    BY Zenon, <2>3, <2>4 DEF PhaseOf, Outbox!OutboxNext, Outbox!Commit, Outbox!Moves
<1>2. ASSUME NEW r \in Relay, Start(r) PROVE Outbox!OutboxNext \/ UNCHANGED <<Promise, stored>>
  BY Zenon, <1>2 DEF Start, Promise, broker
<1>3. ASSUME NEW w \in Worker, NEW e \in Event, Claim(w, e)
      PROVE  Outbox!OutboxNext \/ UNCHANGED <<Promise, stored>>
  <2>1. \A d \in Event : PhaseOf(event'[d].status) = PhaseOf(event[d].status)
    BY <1>3 DEF Claim, Claimable, Leased, RelayTypeOK, PhaseOf
  <2> QED
    BY Zenon, <1>3, <2>1 DEF Claim, Promise, broker
<1>4. ASSUME NEW r \in Relay, NEW e \in Event, ClaimLost(r, e)
      PROVE  Outbox!OutboxNext \/ UNCHANGED <<Promise, stored>>
  <2>1. \A d \in Event : PhaseOf(event'[d].status) = PhaseOf(event[d].status)
    BY <1>4 DEF ClaimLost, Claimable, Leased, RelayTypeOK, PhaseOf
  <2> QED
    BY Zenon, <1>4, <2>1 DEF ClaimLost, Promise, broker
<1>5. ASSUME NEW w \in Worker, BeginAttempt(w)
      PROVE  Outbox!OutboxNext \/ UNCHANGED <<Promise, stored>>
  <2>1. \A d \in Event : PhaseOf(event'[d].status) = PhaseOf(event[d].status)
    BY <1>5 DEF BeginAttempt, Owns, Leased, RelayTypeOK, PhaseOf
  <2> QED
    BY <1>5, <2>1 DEF BeginAttempt, Promise, broker
<1>6. ASSUME NEW w \in Worker, BrokerAppends(w)
      PROVE  Outbox!OutboxNext \/ UNCHANGED <<Promise, stored>>
  <2> DEFINE e == job[w].event
  <2>1. job[w] # NoJob /\ e \in Event
    BY Zenon, <1>6, JobTyped DEF BrokerAppends, Stage, Job
  <2>2. Promise[e] # "none"
    BY Zenon, <2>1 DEF IInv, JobSound, RelayTypeOK, EventRow, Status, Promise, PhaseOf
  <2>3. Promise' = Promise /\ stored' = stored \cup {e}
    BY Zenon, <1>6 DEF BrokerAppends, Promise
  <2> QED
    BY Zenon, <2>1, <2>2, <2>3 DEF Outbox!OutboxNext, Outbox!Store
<1>7. ASSUME NEW w \in Worker, BrokerAcks(w)
      PROVE  Outbox!OutboxNext \/ UNCHANGED <<Promise, stored>>
  BY Zenon, <1>7 DEF BrokerAcks, Promise, broker
<1>8. ASSUME NEW w \in Worker, PublishFails(w)
      PROVE  Outbox!OutboxNext \/ UNCHANGED <<Promise, stored>>
  BY Zenon, <1>8 DEF PublishFails, Promise, broker
<1>9. ASSUME NEW w \in Worker, BrokerRefuses(w)
      PROVE  Outbox!OutboxNext \/ UNCHANGED <<Promise, stored>>
  BY <1>9 DEF BrokerRefuses, Promise
<1>10. ASSUME NEW w \in Worker, MarkDelivered(w)
      PROVE  Outbox!OutboxNext \/ UNCHANGED <<Promise, stored>>
  <2> DEFINE e == job[w].event
  <2>1. job[w] # NoJob /\ e \in Event
    BY Zenon, <1>10, JobTyped DEF MarkDelivered, Stage, Job
  <2>2. stored' = stored
    BY Zenon, <1>10 DEF MarkDelivered, Mark, broker
  <2>3. CASE ~Owns(w)
    BY Zenon, <1>10, <2>2, <2>3 DEF MarkDelivered, Mark, Promise
  <2>4. CASE Owns(w)
    <3>1. event' = [event EXCEPT ![e] = event'[e]] /\ event'[e].status = "delivered"
      BY Zenon, <1>10, <2>1, <2>4 DEF MarkDelivered, Mark, RelayTypeOK, Unleased
    <3>2. Promise' = [Promise EXCEPT ![e] = PhaseOf("delivered")]
      BY <2>1, <3>1, PromiseMoves
    <3>3. Promise[e] = "owed"
      BY Zenon, <2>1, <2>4 DEF Owns, Promise, PhaseOf
    <3>4. e \in stored
      BY Zenon, <1>10, <2>1 DEF IInv, MarkDelivered, JobSound
    <3> QED
      BY Zenon, <2>1, <2>2, <3>2, <3>3, <3>4
      DEF PhaseOf, Outbox!OutboxNext, Outbox!Deliver, Outbox!Moves
  <2> QED
    BY Zenon, <2>3, <2>4
<1>11. ASSUME NEW w \in Worker, NEW due \in BOOLEAN, MarkRetry(w, due)
      PROVE  Outbox!OutboxNext \/ UNCHANGED <<Promise, stored>>
  <2> DEFINE e == job[w].event
  <2>1. job[w] # NoJob /\ e \in Event
    BY Zenon, <1>11, JobTyped DEF MarkRetry, Stage, Job
  <2>2. stored' = stored
    BY Zenon, <1>11 DEF MarkRetry, Mark, broker
  <2>3. CASE ~Owns(w)
    BY Zenon, <1>11, <2>2, <2>3 DEF MarkRetry, Mark, Promise
  <2>4. CASE Owns(w)
    <3>1. event' = [event EXCEPT ![e] = event'[e]] /\ event'[e].status = "pending"
      BY Zenon, <1>11, <2>1, <2>4 DEF MarkRetry, Mark, RelayTypeOK, Unleased
    <3>2. Promise' = [Promise EXCEPT ![e] = PhaseOf("pending")]
      BY <2>1, <3>1, PromiseMoves
    <3>3. Promise[e] = "owed"
      BY Zenon, <2>1, <2>4 DEF Owns, Promise, PhaseOf
    <3> QED
      BY <2>1, <2>2, <3>2, <3>3 DEF PhaseOf, Promise
  <2> QED
    BY Zenon, <2>3, <2>4
<1>12. ASSUME NEW w \in Worker, MarkDead(w) PROVE Outbox!OutboxNext \/ UNCHANGED <<Promise, stored>>
  <2> DEFINE e == job[w].event
  <2>1. job[w] # NoJob /\ e \in Event
    BY Zenon, <1>12, JobTyped DEF MarkDead, Stage, Job
  <2>2. stored' = stored
    BY Zenon, <1>12 DEF MarkDead, Mark, broker
  <2>3. CASE ~Owns(w)
    BY Zenon, <1>12, <2>2, <2>3 DEF MarkDead, Mark, Promise
  <2>4. CASE Owns(w)
    <3>1. event' = [event EXCEPT ![e] = event'[e]] /\ event'[e].status = "dead"
      BY Zenon, <1>12, <2>1, <2>4 DEF MarkDead, Mark, RelayTypeOK, Unleased
    <3>2. Promise' = [Promise EXCEPT ![e] = PhaseOf("dead")]
      BY <2>1, <3>1, PromiseMoves
    <3>3. Promise[e] = "owed"
      BY <2>1, <2>4 DEF Owns, Promise, PhaseOf
    <3> QED
      BY Zenon, <2>1, <2>2, <3>2, <3>3 DEF PhaseOf, Outbox!OutboxNext, Outbox!GiveUp, Outbox!Moves
  <2> QED
    BY <2>3, <2>4
<1>13. ASSUME NEW w \in Worker, Complete(w) PROVE Outbox!OutboxNext \/ UNCHANGED <<Promise, stored>>
  BY Zenon, <1>13 DEF Complete, Promise, broker
<1>14. ASSUME NEW w \in Worker, BeginAttemptLost(w)
      PROVE  Outbox!OutboxNext \/ UNCHANGED <<Promise, stored>>
  <2>1. \A d \in Event : PhaseOf(event'[d].status) = PhaseOf(event[d].status)
    BY Zenon, <1>14 DEF BeginAttemptLost, Owns, Leased, RelayTypeOK, PhaseOf
  <2> QED
    BY Zenon, <1>14, <2>1 DEF BeginAttemptLost, Promise, broker
<1>15. ASSUME NEW w \in Worker, LeaveInflight(w)
      PROVE  Outbox!OutboxNext \/ UNCHANGED <<Promise, stored>>
  BY Zenon, <1>15 DEF LeaveInflight, Promise, broker
<1>16. ASSUME NEW r \in Relay, Stop(r) PROVE Outbox!OutboxNext \/ UNCHANGED <<Promise, stored>>
  BY Zenon, <1>16 DEF Stop, Promise, broker
<1>17. ASSUME NEW r \in Relay, Stopped(r) PROVE Outbox!OutboxNext \/ UNCHANGED <<Promise, stored>>
  BY Zenon, <1>17 DEF Stopped, Promise, broker
<1>18. ASSUME NEW r \in Relay, Crash(r) PROVE Outbox!OutboxNext \/ UNCHANGED <<Promise, stored>>
  BY <1>18 DEF Crash, Promise, broker
<1>19. ASSUME NEW e \in Event, RetryDead(e) PROVE Outbox!OutboxNext \/ UNCHANGED <<Promise, stored>>
  <2>1. event[e].status = "dead" /\ event' = [event EXCEPT ![e] = event'[e]]
    BY <1>19 DEF RetryDead, RelayTypeOK
  <2>2. event'[e].status = "pending"
    BY <1>19 DEF RetryDead, RelayTypeOK, Unleased
  <2>3. Promise' = [Promise EXCEPT ![e] = PhaseOf("pending")]
    BY Zenon, <2>1, <2>2, PromiseMoves
  <2>4. Promise[e] = PhaseOf("dead") /\ stored' = stored
    BY Zenon, <1>19, <2>1 DEF RetryDead, Promise, broker
  <2> QED
    BY Zenon, <2>3, <2>4 DEF PhaseOf, Outbox!OutboxNext, Outbox!Retry, Outbox!Moves
<1>20. ASSUME NEW e \in Event, CleanupDelivered(e)
      PROVE  Outbox!OutboxNext \/ UNCHANGED <<Promise, stored>>
  <2>1. event[e].status = "delivered" /\ event' = [event EXCEPT ![e] = event'[e]]
    BY <1>20 DEF CleanupDelivered, RelayTypeOK
  <2>2. event'[e].status = "deleted"
    BY <1>20 DEF CleanupDelivered, RelayTypeOK, Unleased
  <2>3. Promise' = [Promise EXCEPT ![e] = PhaseOf("deleted")]
    BY Zenon, <2>1, <2>2, PromiseMoves
  <2>4. Promise[e] = PhaseOf("delivered") /\ stored' = stored
    BY Zenon, <1>20, <2>1 DEF CleanupDelivered, Promise, broker
  <2> QED
    BY Zenon, <2>3, <2>4 DEF PhaseOf, Outbox!OutboxNext, Outbox!Forget, Outbox!Moves
<1>21. ASSUME Pause PROVE Outbox!OutboxNext \/ UNCHANGED <<Promise, stored>>
  BY Zenon, <1>21 DEF Pause, Promise, broker
<1>22. ASSUME Resume PROVE Outbox!OutboxNext \/ UNCHANGED <<Promise, stored>>
  BY Zenon, <1>22 DEF Resume, Promise, broker
<1>23. ASSUME NEW e \in Event, TimePasses(e)
      PROVE  Outbox!OutboxNext \/ UNCHANGED <<Promise, stored>>
  <2>1. \A d \in Event : PhaseOf(event'[d].status) = PhaseOf(event[d].status)
    BY Zenon, <1>23 DEF TimePasses, RelayTypeOK, EventRow
  <2> QED
    BY Zenon, <1>23, <2>1 DEF TimePasses, Promise, broker
<1>24. ASSUME NEW e \in Event, LeaseLapses(e)
      PROVE  Outbox!OutboxNext \/ UNCHANGED <<Promise, stored>>
  <2>1. \A d \in Event : PhaseOf(event'[d].status) = PhaseOf(event[d].status)
    BY Zenon, <1>24 DEF LeaseLapses, RelayTypeOK, EventRow
  <2> QED
    BY Zenon, <1>24, <2>1 DEF LeaseLapses, Promise, broker
<1> QED
  BY SMTT(30), <1>1, <1>2, <1>3, <1>4, <1>5, <1>6, <1>7, <1>8, <1>9, <1>10, <1>11, <1>12, <1>13,
     <1>14, <1>15, <1>16, <1>17, <1>18, <1>19, <1>20, <1>21, <1>22, <1>23, <1>24
  DEF RelayNext, Handle

\* The relays implement at-least-once delivery.
THEOREM RelayImplements == RelaySpec => ImplementsAtLeastOnce
<1>1. RelayInit => Outbox!OutboxInit
  BY DEF RelayInit, Outbox!OutboxInit, Promise, PhaseOf
<1>2. IInv /\ [RelayNext]_vars => [Outbox!OutboxNext]_(Outbox!outbox)
  <2> SUFFICES ASSUME IInv, [RelayNext]_vars
               PROVE  Outbox!OutboxNext \/ UNCHANGED <<Promise, stored>>
    BY DEF Outbox!outbox
  <2>1. CASE RelayNext
    BY <2>1, StepsKeepPromise
  <2>2. CASE UNCHANGED vars
    BY <2>2 DEF vars, broker, Promise
  <2> QED
    BY Zenon, <2>1, <2>2
<1> QED
  BY <1>1, <1>2, RelayInvariance, PTL DEF RelaySpec, ImplementsAtLeastOnce, Outbox!OutboxSpec
=============================================================================
