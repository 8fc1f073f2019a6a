------------------------- MODULE ManagedInboxProofs -------------------------
(***************************************************************************)
(* For any workers, partitions, events, log and number of faults: the      *)
(* handler's effects are committed once, offsets pass only processed       *)
(* records one at a time, and nobody handles a record before the ones      *)
(* ahead of it are processed.                                              *)
(*                                                                         *)
(* Lifecycle is the invariant of the rows: an open MarkProcessed holds the *)
(* current lease and is alone in doing so, because no two workers share a  *)
(* token.  Progress is the invariant of the offsets: where a partition's   *)
(* owner stands, everything before it is processed, and the committed      *)
(* offset is there or one record on (after a commit whose answer was lost).*)
(***************************************************************************)
EXTENDS InboxIntegrity, TLAPS

Working == {"running", "marked", "failed"}

Processed(e) == e \in Event /\ row[e].status = "processed"

\* A record in hand exists, and has an identity once it is claimed.
InHand ==
    \A w \in Worker : job[w] # Idle =>
        /\ job[w].offset < Len(Log[job[w].partition])
        /\ job[w].stage # "polled" => Record(w) \in Event

\* Tokens never run ahead of the claims, and no two workers share one.
Tokens ==
    /\ \A w \in Worker : job[w].stage \in Working => job[w].token <= row[Record(w)].attempts
    /\ \A v, w \in Worker :
          /\ job[v].stage \in Working /\ job[w].stage \in Working
          /\ Record(v) = Record(w) /\ job[v].token = job[w].token
          => v = w
    /\ \A e \in Event : row[e].status = "absent" => row[e].attempts = 0

Marked == \A w \in Worker : job[w].stage = "marked" => HoldsLease(w)

Resolved == \A w \in Worker : job[w].stage = "resolved" => Processed(Record(w))

Typed ==
    /\ row \in [Event -> InboxRow]
    /\ effect \in [Event -> Nat]
    /\ job \in [Worker -> {Idle} \cup Job]

Lifecycle == Typed /\ InHand /\ Tokens /\ Marked /\ Resolved /\ EffectOnceProcessed
-----------------------------------------------------------------------------
(* Steps by what they do to the rows.                                       *)

Others(w) == \A v \in Worker : v # w => job'[v] = job[v]

SameRecord(w) ==
    /\ job'[w].partition = job[w].partition
    /\ job'[w].offset = job[w].offset
    /\ job'[w].token = job[w].token

\* The worker moves on and the rows stay.
JobStep(w) ==
    /\ row' = row /\ effect' = effect
    /\ job' \in [Worker -> {Idle} \cup Job]
    /\ Others(w)
    /\ \/ job'[w] = Idle
       \/ job'[w].stage = "polled" /\ job'[w].offset < Len(Log[job'[w].partition])
       \/ job[w].stage = "running" /\ job'[w].stage = "failed" /\ SameRecord(w)
       \/ job[w].stage = "running" /\ job'[w].stage = "marked" /\ SameRecord(w) /\ HoldsLease(w)
       \/ /\ job[w] # Idle /\ job'[w].stage = "resolved" /\ SameRecord(w)
          /\ Processed(Record(w))

\* Claim took a row for the worker, which may never learn of it.
ClaimStep(w) ==
    /\ job[w].stage = "polled"
    /\ Record(w) \in Event
    /\ Claimable(Record(w)) /\ ~RowLocked(Record(w))
    /\ row' = [row EXCEPT ![Record(w)] = ClaimedRow(Record(w))]
    /\ effect' = effect
    /\ job' \in [Worker -> {Idle} \cup Job]
    /\ Others(w)
    /\ \/ job'[w] = Idle
       \/ /\ job'[w].stage = "running"
          /\ job'[w].partition = job[w].partition /\ job'[w].offset = job[w].offset
          /\ job'[w].token = row[Record(w)].attempts + 1

\* A lease expires, a delay passes, a lease is renewed, an operator retries.
DueStep(e) ==
    /\ effect' = effect /\ job' = job
    /\ row' \in [Event -> InboxRow]
    /\ \A f \in Event : f # e => row'[f] = row[f]
    /\ row'[e].attempts = row[e].attempts
    /\ \/ row'[e].status = row[e].status /\ row'[e].token = row[e].token
       \/ row[e].status = "dead" /\ row'[e].status = "retry_wait" /\ row'[e].token = NoToken

\* The handler's transaction takes effect.
EffectStep(w) ==
    /\ job[w].stage = "marked"
    /\ ProcessedBy(w)
    /\ job' \in [Worker -> {Idle} \cup Job]
    /\ Others(w)
    /\ job'[w] = Idle \/ (job'[w].stage = "resolved" /\ SameRecord(w))

\* MarkRetry or MarkDead gives the lease back.
FailStep(w) ==
    /\ job[w].stage = "failed"
    /\ HoldsLease(w)
    /\ row' = [row EXCEPT ![Record(w)] = FailedRow(w)]
    /\ effect' = effect
    /\ job' = [job EXCEPT ![w] = Idle]

\* The application's own transaction processed an event nobody had claimed.
ProcessStep(e) ==
    /\ row[e].status = "absent"
    /\ row' = [row EXCEPT ![e] = NewRow("processed", 0, NoToken)]
    /\ effect' = [effect EXCEPT ![e] = @ + 1]
    /\ job' = job

\* The empty inbox satisfies the lifecycle invariant.
LEMMA InitLifecycle == InboxInit => Lifecycle
  BY DEF InboxInit, Lifecycle, Typed, InHand, Tokens, Marked, Resolved, EffectOnceProcessed,
         NewRow, NoToken, InboxRow, Status, Idle, Working

\* A worker that moves on without touching a row keeps the lifecycle.
LEMMA JobStepKeeps ==
    ASSUME Lifecycle, NEW w \in Worker, JobStep(w)
    PROVE  Lifecycle'
  <1>1. Typed' /\ EffectOnceProcessed'
    BY DEF Lifecycle, Typed, JobStep, EffectOnceProcessed
  <1>2. \A v \in Worker : v # w => Record(v)' = Record(v) /\ job'[v] = job[v]
    BY DEF JobStep, Others, Record
  <1>3. SameRecord(w) => Record(w)' = Record(w) /\ job'[w].token = job[w].token
    BY DEF SameRecord, Record
  <1>4. job[w] # Idle /\ job[w].stage # "polled" => Record(w) \in Event
    BY DEF Lifecycle, InHand
  <1>5. InHand'
    BY <1>2, <1>3, <1>4 DEF Lifecycle, InHand, JobStep, SameRecord, Idle, Processed
  <1>6. Tokens'
    BY <1>2, <1>3 DEF Lifecycle, Tokens, JobStep, Working, Idle
  <1>7. Marked'
    BY <1>2, <1>3 DEF Lifecycle, Marked, JobStep, HoldsLease, Idle
  <1>8. Resolved'
    BY <1>2, <1>3 DEF Lifecycle, Resolved, JobStep, Processed, Idle
  <1> QED
    BY <1>1, <1>5, <1>6, <1>7, <1>8 DEF Lifecycle

\* Claim creates a token no worker has, so the lifecycle survives a reclaim.
LEMMA ClaimStepKeeps ==
    ASSUME Lifecycle, NEW w \in Worker, ClaimStep(w)
    PROVE  Lifecycle'
  <1> DEFINE e == Record(w)
  <1>0. e \in Event /\ row[e] \in InboxRow /\ row[e].attempts \in Nat
    BY DEF ClaimStep, Lifecycle, Typed, InboxRow
  <1>1. /\ row'[e].status = "inflight"
        /\ row'[e].attempts = row[e].attempts + 1
        /\ row'[e].token = row[e].attempts + 1
        /\ row'[e] \in InboxRow
        /\ \A f \in Event : f # e => row'[f] = row[f]
    BY <1>0 DEF ClaimStep, ClaimedRow, NewRow, Lifecycle, Typed, InboxRow, Status
  <1>2. Typed'
    BY <1>0, <1>1 DEF ClaimStep, Lifecycle, Typed
  <1>3. \A v \in Worker : v # w => Record(v)' = Record(v) /\ job'[v] = job[v]
    BY Zenon DEF ClaimStep, Others, Record
  <1>4. job'[w] # Idle => Record(w)' = e
    BY Zenon DEF ClaimStep, Record
  <1>5. \A v \in Worker : job[v].stage \in Working => job[v].token \in Nat /\ Record(v) \in Event
    BY DEF Lifecycle, Typed, InHand, Job, Idle, Working
  <1>6. row[e].status # "processed"
    BY DEF ClaimStep, Claimable
  <1> HIDE DEF e
  <1>7. InHand'
    BY <1>0, <1>3, <1>4 DEF Lifecycle, InHand, ClaimStep, Idle
  <1>8. Tokens'
    BY <1>0, <1>1, <1>3, <1>4, <1>5 DEF Lifecycle, Tokens, ClaimStep, Working, Idle, e
  <1>9. Marked'
    BY <1>0, <1>1, <1>3, <1>5 DEF Lifecycle, Marked, ClaimStep, HoldsLease, RowLocked, Working, Idle, e
  <1>10. Resolved'
    BY <1>0, <1>1, <1>3, <1>6 DEF Lifecycle, Resolved, ClaimStep, Processed, Idle, e
  <1>11. EffectOnceProcessed'
    BY <1>0, <1>1, <1>6 DEF Lifecycle, EffectOnceProcessed, ClaimStep
  <1> QED
    BY <1>2, <1>7, <1>8, <1>9, <1>10, <1>11 DEF Lifecycle

\* Expiry, renewal and operator retries change no token and no effect.
LEMMA DueStepKeeps ==
    ASSUME Lifecycle, NEW e \in Event, DueStep(e)
    PROVE  Lifecycle'
  <1>1. \A v \in Worker : Record(v)' = Record(v)
    BY DEF DueStep, Record
  <1>2. \A v \in Worker : job[v].stage \in Working => Record(v) \in Event
    BY DEF Lifecycle, InHand, Idle, Working
  <1>3. Typed' /\ InHand'
    BY <1>1 DEF Lifecycle, Typed, InHand, DueStep
  <1>4. Tokens'
    BY <1>1, <1>2 DEF Lifecycle, Tokens, DueStep
  <1>5. Marked'
    BY <1>1, <1>2 DEF Lifecycle, Marked, DueStep, HoldsLease, Working
  <1>6. Resolved'
    BY <1>1 DEF Lifecycle, Resolved, DueStep, Processed
  <1>7. EffectOnceProcessed'
    BY DEF Lifecycle, EffectOnceProcessed, DueStep
  <1> QED
    BY <1>3, <1>4, <1>5, <1>6, <1>7 DEF Lifecycle

\* The worker that marks or fails a row is the only one with that lease.
LEMMA LeaseIsExclusive ==
    ASSUME Lifecycle, NEW v \in Worker, NEW w \in Worker,
           job[v].stage \in Working, job[w].stage \in Working,
           Record(v) = Record(w), HoldsLease(v), HoldsLease(w)
    PROVE  v = w
  BY DEF Lifecycle, Tokens, HoldsLease

\* The handler's commit counts the effect and settles the row in one step.
LEMMA EffectStepKeeps ==
    ASSUME Lifecycle, NEW w \in Worker, EffectStep(w)
    PROVE  Lifecycle'
  <1> DEFINE e == Record(w)
  <1>0. e \in Event /\ row[e] \in InboxRow /\ HoldsLease(w) /\ job[w].stage \in Working
    BY DEF EffectStep, Lifecycle, Typed, InHand, Marked, Idle, Working
  <1>1. /\ row'[e].status = "processed"
        /\ row'[e].attempts = row[e].attempts
        /\ row'[e] \in InboxRow
        /\ \A f \in Event : f # e => row'[f] = row[f]
    BY <1>0 DEF EffectStep, ProcessedBy, NewRow, NoToken, Lifecycle, Typed, InboxRow, Status
  <1>2. effect'[e] = effect[e] + 1 /\ \A f \in Event : f # e => effect'[f] = effect[f]
    BY <1>0 DEF EffectStep, ProcessedBy, Lifecycle, Typed
  <1>3. Typed'
    BY <1>0, <1>1, <1>2 DEF EffectStep, ProcessedBy, Lifecycle, Typed
  <1>4. \A v \in Worker : v # w => Record(v)' = Record(v) /\ job'[v] = job[v]
    BY DEF EffectStep, Others, Record
  <1>5. job'[w] # Idle => Record(w)' = e
    BY DEF EffectStep, SameRecord, Record
  <1>6. row[e].status = "inflight"
    BY <1>0 DEF HoldsLease
  <1>7. \A v \in Worker : v # w /\ job[v].stage = "marked" => Record(v) # e
    BY <1>0, LeaseIsExclusive DEF Lifecycle, Marked, Working
  <1>8. \A v \in Worker : job[v].stage \in Working => Record(v) \in Event
    BY DEF Lifecycle, InHand, Idle, Working
  <1> HIDE DEF e
  <1>9. InHand'
    BY <1>0, <1>4, <1>5 DEF Lifecycle, InHand, EffectStep, SameRecord, Idle
  <1>10. Tokens'
    BY <1>0, <1>1, <1>4, <1>8 DEF Lifecycle, Tokens, EffectStep, Working, Idle
  <1>11. Marked'
    BY <1>0, <1>1, <1>4, <1>7, <1>8 DEF Lifecycle, Marked, EffectStep, HoldsLease, Working, Idle
  <1>12. Resolved'
    BY <1>0, <1>1, <1>4, <1>5 DEF Lifecycle, Resolved, EffectStep, Processed, Idle
  <1>13. EffectOnceProcessed'
    BY <1>0, <1>1, <1>2, <1>6 DEF Lifecycle, Typed, EffectOnceProcessed
  <1> QED
    BY <1>3, <1>9, <1>10, <1>11, <1>12, <1>13 DEF Lifecycle

\* MarkRetry and MarkDead give up a lease that no open MarkProcessed holds.
LEMMA FailStepKeeps ==
    ASSUME Lifecycle, NEW w \in Worker, FailStep(w)
    PROVE  Lifecycle'
  <1> DEFINE e == Record(w)
  <1>0. e \in Event /\ row[e] \in InboxRow /\ job[w].stage \in Working
    BY DEF FailStep, Lifecycle, Typed, InHand, Idle, Working
  <1>1. /\ row'[e].status \in {"dead", "retry_wait"}
        /\ row'[e].attempts = row[e].attempts
        /\ row'[e] \in InboxRow
        /\ \A f \in Event : f # e => row'[f] = row[f]
    BY <1>0 DEF FailStep, FailedRow, NewRow, NoToken, Lifecycle, Typed, InboxRow, Status
  <1>2. /\ job'[w] = Idle
        /\ \A v \in Worker : v # w => job'[v] = job[v]
        /\ job' \in [Worker -> {Idle} \cup Job]
    BY DEF FailStep, Lifecycle, Typed
  <1>3. Typed'
    BY <1>0, <1>1, <1>2 DEF FailStep, Lifecycle, Typed
  <1>4. \A v \in Worker : v # w => Record(v)' = Record(v)
    BY <1>2 DEF Record
  <1>6. row[e].status = "inflight"
    BY <1>0 DEF FailStep, HoldsLease
  <1>7. \A v \in Worker : v # w /\ job[v].stage = "marked" => Record(v) # e
    BY <1>0, LeaseIsExclusive DEF Lifecycle, Marked, Working, FailStep
  <1>8. \A v \in Worker : job[v].stage \in Working => Record(v) \in Event
    BY DEF Lifecycle, InHand, Idle, Working
  <1> HIDE DEF e
  <1>9. InHand'
    BY <1>2, <1>4 DEF Lifecycle, InHand
  <1>10. Tokens'
    BY <1>0, <1>1, <1>2, <1>4, <1>8 DEF Lifecycle, Tokens, Working, Idle
  <1>11. Marked'
    BY <1>0, <1>1, <1>2, <1>4, <1>7, <1>8 DEF Lifecycle, Marked, HoldsLease, Working, Idle
  <1>12. Resolved'
    BY <1>0, <1>1, <1>2, <1>4, <1>6 DEF Lifecycle, Resolved, Processed, Idle
  <1>13. EffectOnceProcessed'
    BY <1>0, <1>1, <1>6 DEF Lifecycle, EffectOnceProcessed, FailStep
  <1> QED
    BY <1>3, <1>9, <1>10, <1>11, <1>12, <1>13 DEF Lifecycle
\* The Process helper settles a row nobody has claimed.
LEMMA ProcessStepKeeps ==
    ASSUME Lifecycle, NEW e \in Event, ProcessStep(e)
    PROVE  Lifecycle'
  <1>1. /\ row'[e].status = "processed"
        /\ row'[e].attempts = row[e].attempts
        /\ row'[e] \in InboxRow
        /\ \A f \in Event : f # e => row'[f] = row[f]
    BY DEF ProcessStep, NewRow, NoToken, Lifecycle, Typed, Tokens, InboxRow, Status
  <1>2. effect'[e] = effect[e] + 1 /\ \A f \in Event : f # e => effect'[f] = effect[f]
    BY DEF ProcessStep, Lifecycle, Typed
  <1>3. \A v \in Worker : Record(v)' = Record(v)
    BY DEF ProcessStep, Record
  <1>4. \A v \in Worker : job[v].stage \in Working => Record(v) \in Event
    BY DEF Lifecycle, InHand, Idle, Working
  <1>5. Typed' /\ InHand'
    BY <1>1, <1>2, <1>3 DEF Lifecycle, Typed, InHand, ProcessStep
  <1>6. Tokens'
    BY <1>1, <1>3, <1>4 DEF Lifecycle, Tokens, ProcessStep
  <1>7. Marked'
    BY <1>1, <1>3, <1>4 DEF Lifecycle, Marked, ProcessStep, HoldsLease, Working
  <1>8. Resolved'
    BY <1>1, <1>3 DEF Lifecycle, Resolved, ProcessStep, Processed
  <1>9. EffectOnceProcessed'
    BY <1>1, <1>2 DEF Lifecycle, Typed, EffectOnceProcessed, ProcessStep
  <1> QED
    BY <1>5, <1>6, <1>7, <1>8, <1>9 DEF Lifecycle

RowStep ==
    \/ \E w \in Worker : JobStep(w) \/ ClaimStep(w) \/ EffectStep(w) \/ FailStep(w)
    \/ \E e \in Event : DueStep(e) \/ ProcessStep(e)
    \/ UNCHANGED <<row, effect, job>>

\* Processed is final.
LEMMA ProcessedStays ==
    ASSUME Lifecycle, RowStep, NEW e \in Event, Processed(e)
    PROVE  Processed(e)'
  <1>1. ASSUME NEW w \in Worker, JobStep(w) PROVE Processed(e)'
    BY <1>1 DEF JobStep, Processed
  <1>2. ASSUME NEW w \in Worker, ClaimStep(w) PROVE Processed(e)'
    BY <1>2 DEF ClaimStep, Claimable, Processed, Lifecycle, Typed
  <1>3. ASSUME NEW w \in Worker, EffectStep(w) PROVE Processed(e)'
    BY <1>3 DEF EffectStep, ProcessedBy, NewRow, Processed, Lifecycle, Typed
  <1>4. ASSUME NEW w \in Worker, FailStep(w) PROVE Processed(e)'
    BY <1>4 DEF FailStep, HoldsLease, Processed, Lifecycle, Typed
  <1>5. ASSUME NEW f \in Event, DueStep(f) PROVE Processed(e)'
    BY <1>5 DEF DueStep, Processed
  <1>6. ASSUME NEW f \in Event, ProcessStep(f) PROVE Processed(e)'
    BY <1>6 DEF ProcessStep, NewRow, Processed, Lifecycle, Typed
  <1>7. ASSUME UNCHANGED <<row, effect, job>> PROVE Processed(e)'
    BY <1>7 DEF Processed
  <1> QED
    BY <1>1, <1>2, <1>3, <1>4, <1>5, <1>6, <1>7 DEF RowStep

\* Every kind of row step keeps the lifecycle.
LEMMA RowStepKeeps ==
    ASSUME Lifecycle, RowStep
    PROVE  Lifecycle'
  <1>1. ASSUME UNCHANGED <<row, effect, job>> PROVE Lifecycle'
    BY Zenon, <1>1 DEF Lifecycle, Typed, InHand, Tokens, Marked, Resolved, EffectOnceProcessed,
                Record, HoldsLease, Processed
  <1> QED
    BY <1>1, JobStepKeeps, ClaimStepKeeps, EffectStepKeeps, FailStepKeeps, DueStepKeeps,
       ProcessStepKeeps DEF RowStep
-----------------------------------------------------------------------------
(* Where the partitions' owners stand.                                      *)

Passed(p, n) == \A o \in 1..n : Processed(Log[p][o])

\* The same of the next state, at a place named in either state.
NowPassed(p, n) == \A o \in 1..n : Log[p][o] \in Event /\ row'[Log[p][o]].status = "processed"

\* The owner has a record of the partition in hand.
OnRecord(p) == job[owner[p]] # Idle /\ job[owner[p]].partition = p

Reached(p) == IF OnRecord(p) THEN job[owner[p]].offset ELSE position[p]

Standing(p) ==
    /\ Passed(p, Reached(p))
    /\ committed[p] \in {Reached(p), Reached(p) + 1}
    /\ OnRecord(p) => position[p] = job[owner[p]].offset + 1

KafkaTyped ==
    /\ owner \in [Partition -> Worker \cup {NoWorker}]
    /\ position \in [Partition -> Nat]
    /\ blocked \in [Partition -> Reason]
    /\ committed \in [Partition -> Nat]
    /\ faults \in 0..MaxFaults

Progress ==
    /\ KafkaTyped
    /\ \A p \in Partition : Passed(p, committed[p])
    /\ \A w \in Worker : job[w] # Idle => Passed(job[w].partition, job[w].offset)
    /\ \A p \in Partition : owner[p] \in Worker => Standing(p)

\* The inductive invariant.
IInv == Lifecycle /\ Progress

\* The initial state satisfies the inductive invariant.
LEMMA InitIInv == InboxInit => IInv
  <1> SUFFICES ASSUME InboxInit PROVE Progress
    BY InitLifecycle DEF IInv
  <1>1. KafkaTyped
    BY InboxConstants DEF InboxInit, KafkaTyped, Reason
  <1>2. \A p \in Partition : committed[p] = 0 /\ owner[p] \notin Worker /\ Passed(p, 0)
    BY InboxConstants DEF InboxInit, Passed
  <1> QED
    BY <1>1, <1>2 DEF InboxInit, Progress

\* A record in hand that is not malformed is an event.
LEMMA RecordInHand ==
    ASSUME Lifecycle, NEW w \in Worker, job[w].stage # "idle"
    PROVE  /\ job[w] \in Job /\ job[w] # Idle
           /\ Record(w) # Malformed => Record(w) \in Event
  <1>1. job[w] \in Job /\ job[w] # Idle
    BY DEF Lifecycle, Typed, Idle
  <1>2. /\ job[w].partition \in Partition /\ job[w].offset \in Nat
        /\ job[w].offset < Len(Log[job[w].partition])
    BY <1>1 DEF Lifecycle, InHand, Job
  <1> QED
    BY <1>1, <1>2, InboxConstants DEF Record

\* Each step of the consumer is one of the row steps.
LEMMA WorkerStepIsRowStep ==
    ASSUME IInv, NEW w \in Worker, WorkerStep(w)
    PROVE  RowStep
  <1> USE DEF IInv, Lifecycle
  <1> SUFFICES JobStep(w) \/ ClaimStep(w) \/ EffectStep(w) \/ FailStep(w)
    BY DEF RowStep
  <1>1. ASSUME NEW p \in Partition, Poll(w, p)
        PROVE  JobStep(w)
    BY <1>1 DEF Poll, JobStep, Others, Typed, Job, Stage, NoToken, Progress, KafkaTyped
  <1>2. ASSUME NEW reason, Unresolved(w, reason), row' = row, effect' = effect
        PROVE  JobStep(w)
    BY <1>2 DEF Unresolved, JobStep, Others, Typed
  <1>3. ASSUME NEW stage \in Stage, Moves(w, stage), job[w].stage # "idle"
        PROVE  /\ job' \in [Worker -> {Idle} \cup Job]
               /\ Others(w) /\ SameRecord(w) /\ job'[w].stage = stage
               /\ job[w] # Idle
    BY <1>3, RecordInHand DEF Moves, Others, SameRecord, Typed, Job
  <1>4. ASSUME Claim(w)
        PROVE  ClaimStep(w) \/ JobStep(w)
    <2>1. job[w].stage # "idle" /\ Record(w) \in Event /\ job[w] \in Job
      BY <1>4, RecordInHand DEF Claim
    <2>2. CASE job' = [job EXCEPT ![w].stage = "running", ![w].token = ClaimedRow(Record(w)).token]
               /\ Claimable(Record(w)) /\ row' = [row EXCEPT ![Record(w)] = ClaimedRow(Record(w))]
      <3>1. ClaimedRow(Record(w)).token = row[Record(w)].attempts + 1
        BY DEF ClaimedRow, NewRow
      <3>2. row[Record(w)].attempts + 1 \in Nat
        BY <2>1 DEF Typed, InboxRow
      <3>3. /\ job' \in [Worker -> {Idle} \cup Job] /\ Others(w)
            /\ job'[w].stage = "running"
            /\ job'[w].partition = job[w].partition /\ job'[w].offset = job[w].offset
            /\ job'[w].token = row[Record(w)].attempts + 1
        BY Zenon, <2>1, <2>2, <3>1, <3>2 DEF Typed, Others, Job, Stage
      <3> QED
        BY Zenon, <1>4, <2>1, <2>2, <3>3 DEF Claim, ClaimStep
    <2>3. CASE row[Record(w)].status = "processed" /\ Moves(w, "resolved") /\ UNCHANGED row
      BY <1>4, <2>1, <2>3, <1>3 DEF Claim, JobStep, Processed, Stage
    <2> QED
      BY <1>2, <1>4, <2>2, <2>3 DEF Claim
  <1>5. ASSUME HandlerSucceeds(w)
        PROVE  JobStep(w)
    BY <1>2, <1>3, <1>5 DEF HandlerSucceeds, JobStep, Stage
  <1>6. ASSUME NEW permanent \in BOOLEAN, HandlerFails(w, permanent)
        PROVE  JobStep(w)
    <2>1. job[w].stage # "idle" /\ job[w] \in Job
      BY <1>6, RecordInHand DEF HandlerFails
    <2>2. /\ job' \in [Worker -> {Idle} \cup Job] /\ Others(w)
          /\ job'[w].stage = "failed" /\ SameRecord(w)
      BY Zenon, <1>6, <2>1 DEF HandlerFails, Typed, Others, Job, Stage, SameRecord
    <2> QED
      BY <1>6, <2>2 DEF HandlerFails, JobStep
  <1>7. ASSUME TxCommits(w)
        PROVE  EffectStep(w)
    BY Zenon, <1>3, <1>7 DEF TxCommits, EffectStep, Stage
  <1>8. ASSUME TransitionFailure(w)
        PROVE  FailStep(w) \/ JobStep(w)
    BY Zenon, <1>2, <1>8 DEF TransitionFailure, FailStep, Unresolved
  <1>9. ASSUME OffsetCommit(w)
        PROVE  JobStep(w)
    BY <1>9 DEF OffsetCommit, JobStep, Others, Typed
  <1> QED
    BY <1>1, <1>2, <1>4, <1>5, <1>6, <1>7, <1>8, <1>9
       DEF WorkerStep, ProtocolError, RenewLost, OffsetCommitRefused

\* Every step of the consumer is one of the row steps.
LEMMA NextIsRowStep ==
    ASSUME IInv, InboxNext
    PROVE  RowStep
  <1> USE DEF IInv, Lifecycle
  <1>1. ASSUME NEW w \in Worker, NEW reason, Unresolved(w, reason), row' = row, effect' = effect
        PROVE  JobStep(w)
    BY <1>1 DEF Unresolved, JobStep, Others, Typed
  <1>2. ASSUME NEW w \in Worker, ClaimFails(w)
        PROVE  ClaimStep(w) \/ JobStep(w)
    <2>1. Record(w) \in Event
      BY <1>2, RecordInHand DEF ClaimFails
    <2>2. CASE row' = row
      BY <1>1, <1>2, <2>2 DEF ClaimFails
    <2>3. CASE /\ Claimable(Record(w)) /\ ~RowLocked(Record(w))
               /\ row' = [row EXCEPT ![Record(w)] = ClaimedRow(Record(w))]
      BY <1>2, <2>1, <2>3 DEF ClaimFails, ClaimStep, Unresolved, Others, Typed
    <2> QED
      BY <1>2, <2>2, <2>3 DEF ClaimFails
  <1>3. ASSUME NEW w \in Worker, TxCommitFails(w)
        PROVE  EffectStep(w) \/ JobStep(w)
    BY Zenon, <1>1, <1>3 DEF TxCommitFails, EffectStep, Unresolved, Others, Typed
  <1>4. ASSUME NEW w \in Worker, TransitionFails(w)
        PROVE  FailStep(w) \/ JobStep(w)
    BY Zenon, <1>1, <1>4 DEF TransitionFails, FailStep, Unresolved
  <1>5. ASSUME NEW w \in Worker, OffsetCommitFails(w) \/ Crash(w)
        PROVE  JobStep(w)
    BY <1>5 DEF OffsetCommitFails, Crash, JobStep, Others, Typed
  <1>6. ASSUME NEW e \in Event, NEW due \in BOOLEAN, row' = [row EXCEPT ![e].due = due],
               effect' = effect, job' = job
        PROVE  DueStep(e)
    BY <1>6 DEF DueStep, Typed, InboxRow
  <1>7. ASSUME NEW w \in Worker, Renew(w)
        PROVE  RowStep
    <2>1. Record(w) \in Event
      BY <1>7 DEF Renew, InHand, Idle
    <2> QED
      BY Zenon, <1>6, <1>7, <2>1 DEF Renew, RowStep
  <1>8. ASSUME NEW e \in Event, TimePasses(e) \/ LeaseLapses(e)
        PROVE  DueStep(e)
    BY Zenon, <1>6, <1>8 DEF TimePasses, LeaseLapses
  <1>9. ASSUME NEW e \in Event, RetryDead(e)
        PROVE  DueStep(e)
    BY <1>9 DEF RetryDead, DueStep, Typed, InboxRow, Status, NoToken
  <1>10. ASSUME NEW e \in Event, Process(e)
         PROVE  ProcessStep(e)
    BY <1>10 DEF Process, ProcessStep
  <1>11. ASSUME NEW w \in Worker, NEW p \in Partition,
                ResumeDue(w, p) \/ Assign(w, p) \/ Revoke(w, p)
         PROVE  UNCHANGED <<row, effect, job>>
    BY <1>11 DEF ResumeDue, Assign, Revoke
  <1>12. ASSUME NEW w \in Worker, MarkProcessedFails(w)
         PROVE  JobStep(w)
    BY <1>1, <1>12 DEF MarkProcessedFails
  <1>13. ASSUME NEW w \in Worker, Expel(w)
         PROVE  UNCHANGED <<row, effect, job>>
    BY <1>13 DEF Expel
  <1> QED
    BY WorkerStepIsRowStep, <1>2, <1>3, <1>4, <1>5, <1>7, <1>8, <1>9, <1>10, <1>11, <1>12, <1>13
       DEF InboxNext, RowStep

\* Every step of the consumer keeps the lifecycle.
LEMMA NextKeepsLifecycle ==
    ASSUME IInv, InboxNext
    PROVE  /\ Lifecycle'
           /\ \A p \in Partition, n \in Nat : Passed(p, n) => NowPassed(p, n)
  <1>1. RowStep /\ Lifecycle
    BY NextIsRowStep DEF IInv
  <1>2. \A e : Processed(e) => Processed(e)'
    BY <1>1, ProcessedStays DEF Processed
  <1> QED
    BY <1>1, <1>2, RowStepKeeps DEF Passed, NowPassed, Processed
-----------------------------------------------------------------------------
(* Steps by what they do to the offsets.                                    *)

\* The record in hand and the assignment stay.
StandStep(w) ==
    /\ UNCHANGED <<owner, position, committed>>
    /\ \A v \in Worker : v # w => job'[v] = job[v]
    /\ (job'[w] # Idle) <=> (job[w] # Idle)
    /\ job[w] # Idle => job'[w].partition = job[w].partition /\ job'[w].offset = job[w].offset

\* Processing the next record extends what is passed by one.
LEMMA PassedOne ==
    ASSUME NEW p \in Partition, NEW n \in Nat, Passed(p, n), Processed(Log[p][n + 1])
    PROVE  Passed(p, n + 1)
  BY DEF Passed

\* Whatever else a step does, these three facts about it are Progress'.
LEMMA ProgressFrom ==
    ASSUME KafkaTyped',
           \A p \in Partition : NowPassed(p, committed'[p]),
           \A w \in Worker : job'[w] # Idle => NowPassed(job'[w].partition, job'[w].offset),
           \A p \in Partition : owner'[p] \in Worker => Standing(p)'
    PROVE  Progress'
  BY DEF Progress, Passed, NowPassed, Processed

\* What has to be shown of a partition's owner after a step.
LEMMA NowStanding ==
    ASSUME NEW p \in Partition,
           NowPassed(p, Reached(p)'),
           committed'[p] \in {Reached(p)', Reached(p)' + 1},
           OnRecord(p)' => position'[p] = job'[owner'[p]].offset + 1
    PROVE  Standing(p)'
  BY DEF Standing, Passed, NowPassed, Processed

\* A step that moves no offset and no assignment keeps the progress.
LEMMA StandStepKeeps ==
    ASSUME Progress, Typed, NEW w \in Worker, StandStep(w), KafkaTyped',
           \A p \in Partition, n \in Nat : Passed(p, n) => NowPassed(p, n)
    PROVE  Progress'
  <1>1. \A v \in Worker : job[v] # Idle => job[v].partition \in Partition /\ job[v].offset \in Nat
    BY DEF Typed, Job
  <1>2. \A v \in Worker :
            /\ (job'[v] # Idle) <=> (job[v] # Idle)
            /\ job[v] # Idle => job'[v].partition = job[v].partition /\ job'[v].offset = job[v].offset
    BY DEF StandStep
  <1>3. \A p \in Partition : owner[p] \in Worker =>
            OnRecord(p)' = OnRecord(p) /\ Reached(p)' = Reached(p) /\ Reached(p) \in Nat
    BY <1>1, <1>2 DEF StandStep, OnRecord, Reached, Progress, KafkaTyped
  <1>4. \A p \in Partition : owner'[p] \in Worker => Standing(p)'
    <2> SUFFICES ASSUME NEW p \in Partition, owner'[p] \in Worker PROVE Standing(p)'
      OBVIOUS
    <2>1. owner[p] \in Worker /\ owner'[p] = owner[p] /\ Standing(p)
      BY DEF StandStep, Progress
    <2>2. NowPassed(p, Reached(p)')
      BY <1>3, <2>1 DEF Standing
    <2> QED
      BY Zenon, <1>2, <1>3, <2>1, <2>2, NowStanding DEF Standing, OnRecord, StandStep
  <1>5. ASSUME NEW v \in Worker, job'[v] # Idle
        PROVE  NowPassed(job'[v].partition, job'[v].offset)
    <2>1. job[v] # Idle /\ job'[v].partition = job[v].partition /\ job'[v].offset = job[v].offset
      BY <1>2, <1>5
    <2>2. NowPassed(job[v].partition, job[v].offset)
      BY <1>1, <2>1 DEF Progress
    <2> QED
      BY <2>1, <2>2
  <1>6. \A p \in Partition : NowPassed(p, committed'[p]) /\ committed'[p] = committed[p]
    BY DEF Progress, KafkaTyped, StandStep
  <1> QED
    BY <1>4, <1>5, <1>6, ProgressFrom

\* run gives an unresolved record back: the owner's head does not move.
LEMMA UnresolvedKeeps ==
    ASSUME Progress, Typed, NEW w \in Worker, NEW reason \in Reason, Unresolved(w, reason),
           job[w] # Idle, faults' \in 0..MaxFaults,
           \A p \in Partition, n \in Nat : Passed(p, n) => NowPassed(p, n)
    PROVE  Progress'
  <1> DEFINE q == job[w].partition
             o == job[w].offset
  <1>1. q \in Partition /\ o \in Nat
    BY DEF Typed, Job
  <1>2. /\ owner' = owner /\ committed' = committed
        /\ job'[w] = Idle /\ \A v \in Worker : v # w => job'[v] = job[v]
    BY DEF Unresolved, Typed
  <1>3. /\ \A p \in Partition : p # q \/ owner[p] # w => position'[p] = position[p]
        /\ owner[q] = w => position'[q] = o
    BY <1>1 DEF Unresolved, Progress, KafkaTyped
  <1>4. KafkaTyped'
    BY Zenon, <1>1, <1>2 DEF Unresolved, Progress, KafkaTyped
  <1>5. \A p \in Partition : owner'[p] \in Worker => Standing(p)'
    <2> SUFFICES ASSUME NEW p \in Partition, owner'[p] \in Worker PROVE Standing(p)'
      OBVIOUS
    <2>1. owner[p] \in Worker /\ owner'[p] = owner[p] /\ Standing(p)
      BY <1>2 DEF Progress
    <2>2. ~OnRecord(p)' \/ (OnRecord(p)' /\ OnRecord(p) /\ owner[p] # w /\ job'[owner[p]] = job[owner[p]])
      BY Zenon, <1>2, <2>1 DEF OnRecord
    <2>3. Reached(p)' = Reached(p) /\ Reached(p) \in Nat
      BY Zenon, <1>1, <1>2, <1>3, <2>1, <2>2 DEF Reached, OnRecord, Progress, KafkaTyped, Typed, Job
    <2>4. NowPassed(p, Reached(p)')
      BY <2>1, <2>3 DEF Standing
    <2>5. OnRecord(p)' => position'[p] = job'[owner'[p]].offset + 1
      BY <1>2, <1>3, <2>1, <2>2 DEF Standing
    <2> QED
      BY <1>2, <2>1, <2>3, <2>4, <2>5, NowStanding DEF Standing
  <1>6. \A p \in Partition : NowPassed(p, committed'[p])
    BY <1>2 DEF Progress, KafkaTyped
  <1>7. \A v \in Worker : job'[v] # Idle => NowPassed(job'[v].partition, job'[v].offset)
    BY <1>2 DEF Progress, Typed, Job
  <1> QED
    BY <1>4, <1>5, <1>6, <1>7, ProgressFrom

\* A fetch: everything before the fetch position was processed.
LEMMA PollKeeps ==
    ASSUME Progress, Typed, NEW w \in Worker, NEW q \in Partition, Poll(w, q),
           \A p \in Partition, n \in Nat : Passed(p, n) => NowPassed(p, n)
    PROVE  Progress'
  <1>1. /\ owner' = owner /\ committed' = committed
        /\ job'[w] # Idle /\ job'[w].partition = q /\ job'[w].offset = position[q]
        /\ \A v \in Worker : v # w => job'[v] = job[v]
        /\ \A p \in Partition : p # q => position'[p] = position[p]
        /\ position'[q] = position[q] + 1
        /\ owner[q] = w /\ job[w] = Idle
    BY Zenon DEF Poll, Typed, Progress, KafkaTyped, Idle
  <1>2. KafkaTyped'
    BY DEF Poll, Progress, KafkaTyped
  <1>3. Standing(q) /\ Reached(q) = position[q] /\ position[q] \in Nat
    BY <1>1 DEF Progress, Reached, OnRecord, KafkaTyped
  <1>4. \A p \in Partition : owner'[p] \in Worker => Standing(p)'
    <2> SUFFICES ASSUME NEW p \in Partition, owner'[p] \in Worker PROVE Standing(p)'
      OBVIOUS
    <2>1. owner[p] \in Worker /\ owner'[p] = owner[p] /\ Standing(p)
      BY Zenon, <1>1 DEF Progress
    <2>2. Reached(p)' = Reached(p) /\ Reached(p) \in Nat
      BY <1>1, <2>1 DEF Reached, OnRecord, Progress, KafkaTyped, Typed, Job
    <2>3. NowPassed(p, Reached(p)')
      BY Zenon, <2>1, <2>2 DEF Standing
    <2>4. OnRecord(p)' => position'[p] = job'[owner'[p]].offset + 1
      BY <1>1, <2>1 DEF Standing, OnRecord
    <2> QED
      BY Zenon, <1>1, <2>1, <2>2, <2>3, <2>4, NowStanding DEF Standing
  <1>5. \A p \in Partition : NowPassed(p, committed'[p])
    BY ZenonT(30), <1>1 DEF Progress, KafkaTyped
  <1>6. \A v \in Worker : job'[v] # Idle => NowPassed(job'[v].partition, job'[v].offset)
    BY <1>1, <1>3 DEF Progress, Typed, Job, Standing
  <1> QED
    BY <1>2, <1>4, <1>5, <1>6, ProgressFrom

\* An answered offset commit: the record in hand was processed.
LEMMA OffsetCommitKeeps ==
    ASSUME IInv, NEW w \in Worker, OffsetCommit(w),
           \A p \in Partition, n \in Nat : Passed(p, n) => NowPassed(p, n)
    PROVE  Progress' /\ \A p \in Partition : committed'[p] \in {committed[p], committed[p] + 1}
  <1> DEFINE q == job[w].partition
             o == job[w].offset
  <1> USE DEF IInv, Lifecycle
  <1>1. q \in Partition /\ o \in Nat /\ job[w] # Idle /\ owner[q] = w
    BY RecordInHand DEF OffsetCommit, Job
  <1>2. /\ owner' = owner /\ position' = position /\ committed'[q] = o + 1
        /\ \A p \in Partition : p # q => committed'[p] = committed[p]
        /\ job'[w] = Idle /\ \A v \in Worker : v # w => job'[v] = job[v]
    BY Zenon, <1>1 DEF OffsetCommit, Typed, Progress, KafkaTyped
  <1>3. KafkaTyped'
    BY <1>1 DEF OffsetCommit, Progress, KafkaTyped
  <1>4. Standing(q) /\ OnRecord(q) /\ Reached(q) = o
    BY <1>1 DEF Progress, Reached, OnRecord
  <1>5. NowPassed(q, o + 1)
    <2>1. Passed(q, o) /\ Processed(Log[q][o + 1])
      BY Zenon, <1>1 DEF Progress, Resolved, OffsetCommit, Record
    <2>2. Passed(q, o + 1)
      BY Zenon, <1>1, <2>1, PassedOne
    <2> QED
      BY <1>1, <2>2
  <1>6. \A p \in Partition : committed'[p] \in {committed[p], committed[p] + 1}
    BY Zenon, <1>2, <1>4 DEF Standing, Progress, KafkaTyped
  <1>7. \A p \in Partition : owner'[p] \in Worker => Standing(p)'
    <2> SUFFICES ASSUME NEW p \in Partition, owner'[p] \in Worker PROVE Standing(p)'
      OBVIOUS
    <2>1. owner[p] \in Worker /\ owner'[p] = owner[p] /\ Standing(p)
      BY Zenon, <1>2 DEF Progress
    <2>2. CASE p = q
      <3>1. ~OnRecord(p)' /\ Reached(p)' = o + 1
        BY Zenon, <1>1, <1>2, <1>4, <2>2 DEF OnRecord, Reached, Standing
      <3> QED
        BY <1>1, <1>2, <1>5, <2>2, <3>1, NowStanding
    <2>3. CASE p # q
      <3>1. OnRecord(p)' = OnRecord(p) /\ Reached(p)' = Reached(p) /\ Reached(p) \in Nat
        BY Zenon, <1>1, <1>2, <2>1, <2>3 DEF OnRecord, Reached, Progress, KafkaTyped, Typed, Job
      <3>2. NowPassed(p, Reached(p)')
        BY Zenon, <2>1, <3>1 DEF Standing
      <3>3. OnRecord(p)' => position'[p] = job'[owner'[p]].offset + 1
        BY Zenon, <1>2, <2>1, <3>1 DEF Standing, OnRecord
      <3>4. committed'[p] \in {Reached(p)', Reached(p)' + 1}
        BY Zenon, <1>2, <2>1, <2>3, <3>1 DEF Standing
      <3> QED
        BY Zenon, <3>2, <3>3, <3>4, NowStanding
    <2> QED
      BY <2>2, <2>3
  <1>8. \A p \in Partition : NowPassed(p, committed'[p])
    BY <1>2, <1>5 DEF Progress, KafkaTyped
  <1>9. \A v \in Worker : job'[v] # Idle => NowPassed(job'[v].partition, job'[v].offset)
    BY <1>2 DEF Progress, Typed, Job
  <1> QED
    BY <1>3, <1>6, <1>7, <1>8, <1>9, ProgressFrom

\* The disturbances stay within their bound.
LEMMA FaultCounted ==
    ASSUME KafkaTyped, Fault
    PROVE  faults' \in 0..MaxFaults
  BY InboxConstants DEF KafkaTyped, Fault

\* A commit without an answer: the owner stays at the record it just committed.
LEMMA OffsetCommitFailsKeeps ==
    ASSUME IInv, NEW w \in Worker, OffsetCommitFails(w),
           \A p \in Partition, n \in Nat : Passed(p, n) => NowPassed(p, n)
    PROVE  Progress' /\ \A p \in Partition : committed'[p] \in {committed[p], committed[p] + 1}
  <1> DEFINE q == job[w].partition
             o == job[w].offset
  <1> USE DEF IInv, Lifecycle
  <1>1. q \in Partition /\ o \in Nat /\ job[w] # Idle /\ owner[q] = w
    BY Zenon, RecordInHand DEF OffsetCommitFails, Job
  <1>2. /\ owner' = owner /\ position'[q] = o /\ committed'[q] \in {committed[q], o + 1}
        /\ \A p \in Partition : p # q => committed'[p] = committed[p] /\ position'[p] = position[p]
        /\ job'[w] = Idle /\ \A v \in Worker : v # w => job'[v] = job[v]
    BY Zenon, <1>1 DEF OffsetCommitFails, Typed, Progress, KafkaTyped
  <1>3. KafkaTyped'
    <2>1. faults' \in 0..MaxFaults
      BY Zenon, FaultCounted DEF OffsetCommitFails, Progress
    <2>2. blocked' \in [Partition -> Reason] /\ position' \in [Partition -> Nat]
      BY Zenon, <1>1 DEF OffsetCommitFails, Progress, KafkaTyped, Reason
    <2>3. committed' \in [Partition -> Nat]
      BY <1>1 DEF OffsetCommitFails, Progress, KafkaTyped
    <2> QED
      BY Zenon, <1>2, <2>1, <2>2, <2>3 DEF Progress, KafkaTyped
  <1>4. Standing(q) /\ OnRecord(q) /\ Reached(q) = o
    BY <1>1 DEF Progress, Reached, OnRecord
  <1>5. NowPassed(q, o + 1) /\ NowPassed(q, o)
    <2>1. Passed(q, o) /\ Processed(Log[q][o + 1])
      BY <1>1 DEF Progress, Resolved, OffsetCommitFails, Record
    <2>2. Passed(q, o + 1)
      BY <1>1, <2>1, PassedOne
    <2> QED
      BY <1>1, <2>1, <2>2
  <1>6. \A p \in Partition : committed'[p] \in {committed[p], committed[p] + 1}
    BY Zenon, <1>2, <1>4 DEF Standing, Progress, KafkaTyped
  <1>7. \A p \in Partition : owner'[p] \in Worker => Standing(p)'
    <2> SUFFICES ASSUME NEW p \in Partition, owner'[p] \in Worker PROVE Standing(p)'
      OBVIOUS
    <2>1. owner[p] \in Worker /\ owner'[p] = owner[p] /\ Standing(p)
      BY Zenon, <1>2 DEF Progress
    <2>2. CASE p = q
      <3>1. ~OnRecord(p)' /\ Reached(p)' = o
        BY Zenon, <1>1, <1>2, <1>4, <2>2 DEF OnRecord, Reached, Standing
      <3>2. committed'[q] \in {o, o + 1}
        BY Zenon, <1>2, <1>4 DEF Standing
      <3> QED
        BY Zenon, <1>1, <1>5, <2>2, <3>1, <3>2, NowStanding
    <2>3. CASE p # q
      <3>1. OnRecord(p)' = OnRecord(p) /\ Reached(p)' = Reached(p) /\ Reached(p) \in Nat
        BY Zenon, <1>1, <1>2, <2>1, <2>3 DEF OnRecord, Reached, Progress, KafkaTyped, Typed, Job
      <3>2. NowPassed(p, Reached(p)')
        BY <2>1, <3>1 DEF Standing
      <3>3. OnRecord(p)' => position'[p] = job'[owner'[p]].offset + 1
        BY Zenon, <1>2, <2>1, <2>3, <3>1 DEF Standing, OnRecord
      <3>4. committed'[p] \in {Reached(p)', Reached(p)' + 1}
        BY Zenon, <1>2, <2>1, <2>3, <3>1 DEF Standing
      <3> QED
        BY <3>2, <3>3, <3>4, NowStanding
    <2> QED
      BY <2>2, <2>3
  <1>8. \A p \in Partition : NowPassed(p, committed'[p])
    BY <1>2, <1>5 DEF Progress, KafkaTyped
  <1>9. \A v \in Worker : job'[v] # Idle => NowPassed(job'[v].partition, job'[v].offset)
    BY <1>2 DEF Progress, Typed, Job
  <1> QED
    BY <1>3, <1>6, <1>7, <1>8, <1>9, ProgressFrom

\* Partitions are taken away and their owners may die: the others do not move.
LEMMA DropKeeps ==
    ASSUME Progress, Typed, KafkaTyped',
           UNCHANGED <<position, committed>>,
           \A p \in Partition : owner'[p] \in {owner[p], NoWorker},
           \A v \in Worker : job'[v] \in {job[v], Idle},
           \A p \in Partition : owner'[p] \in Worker => job'[owner[p]] = job[owner[p]],
           \A p \in Partition, n \in Nat : Passed(p, n) => NowPassed(p, n)
    PROVE  Progress'
  <1>1. \A p \in Partition : owner'[p] \in Worker => Standing(p)'
    <2> SUFFICES ASSUME NEW p \in Partition, owner'[p] \in Worker PROVE Standing(p)'
      OBVIOUS
    <2>1. owner'[p] = owner[p] /\ job'[owner[p]] = job[owner[p]] /\ Standing(p)
      BY Zenon, InboxConstants DEF Progress
    <2>2. OnRecord(p)' = OnRecord(p) /\ Reached(p)' = Reached(p) /\ Reached(p) \in Nat
      BY Zenon, <2>1 DEF OnRecord, Reached, Progress, KafkaTyped, Typed, Job
    <2>3. NowPassed(p, Reached(p)')
      BY Zenon, <2>1, <2>2 DEF Standing
    <2> QED
      BY <2>1, <2>2, <2>3, NowStanding DEF Standing
  <1>2. \A p \in Partition : NowPassed(p, committed'[p])
    BY ZenonT(30) DEF Progress, KafkaTyped
  <1>3. \A v \in Worker : job'[v] # Idle => NowPassed(job'[v].partition, job'[v].offset)
    BY DEF Progress, Typed, Job
  <1> QED
    BY ZenonT(30), <1>1, <1>2, <1>3, ProgressFrom

\* A new owner starts where the group's commits ended.
LEMMA AssignKeeps ==
    ASSUME Progress, Typed, NEW w \in Worker, NEW q \in Partition, Assign(w, q),
           \A p \in Partition, n \in Nat : Passed(p, n) => NowPassed(p, n)
    PROVE  Progress'
  <1>1. /\ owner'[q] = w /\ position'[q] = committed[q] /\ job' = job /\ committed' = committed
        /\ \A p \in Partition : p # q => owner'[p] = owner[p] /\ position'[p] = position[p]
        /\ job[w] = Idle
    BY Zenon DEF Assign, Progress, KafkaTyped
  <1>2. KafkaTyped'
    BY Zenon DEF Assign, Progress, KafkaTyped
  <1>3. \A p \in Partition : NowPassed(p, committed[p])
    BY DEF Progress, KafkaTyped
  <1>4. \A p \in Partition : owner'[p] \in Worker => Standing(p)'
    <2> SUFFICES ASSUME NEW p \in Partition, owner'[p] \in Worker PROVE Standing(p)'
      OBVIOUS
    <2>1. CASE p = q
      <3>1. ~OnRecord(p)' /\ Reached(p)' = committed[p]
        BY Zenon, <1>1, <2>1 DEF OnRecord, Reached
      <3> QED
        BY Zenon, <1>1, <1>3, <3>1, NowStanding
    <2>2. CASE p # q
      <3>1. owner'[p] = owner[p] /\ Standing(p)
        BY Zenon, <1>1, <2>2 DEF Progress
      <3>2. OnRecord(p)' = OnRecord(p) /\ Reached(p)' = Reached(p) /\ Reached(p) \in Nat
        BY Zenon, <1>1, <2>2, <3>1 DEF OnRecord, Reached, Progress, KafkaTyped, Typed, Job
      <3>3. NowPassed(p, Reached(p)')
        BY Zenon, <3>1, <3>2 DEF Standing
      <3> QED
        BY Zenon, <1>1, <2>2, <3>1, <3>2, <3>3, NowStanding DEF Standing
    <2> QED
      BY Zenon, <2>1, <2>2
  <1>5. \A v \in Worker : job'[v] # Idle => NowPassed(job'[v].partition, job'[v].offset)
    BY <1>1 DEF Progress, Typed, Job
  <1> QED
    BY Zenon, <1>1, <1>2, <1>3, <1>4, <1>5, ProgressFrom

OneByOne == \A p \in Partition : committed'[p] \in {committed[p], committed[p] + 1}

\* Every step of a worker keeps the progress.
LEMMA WorkerStepKeeps ==
    ASSUME IInv, NEW w \in Worker, WorkerStep(w),
           \A p \in Partition, n \in Nat : Passed(p, n) => NowPassed(p, n)
    PROVE  Progress' /\ OneByOne
  <1> USE DEF IInv, Lifecycle
  <1>1. ASSUME NEW reason \in Reason, job[w].stage # "idle", Unresolved(w, reason), faults' = faults
        PROVE  Progress' /\ OneByOne
    BY Zenon, <1>1, RecordInHand, UnresolvedKeeps DEF Unresolved, OneByOne, Progress, KafkaTyped
  <1>2. ASSUME StandStep(w), UNCHANGED <<kafka, faults>>
        PROVE  Progress' /\ OneByOne
    <2>1. KafkaTyped'
      BY <1>2 DEF kafka, Progress, KafkaTyped
    <2> QED
      BY Zenon, <1>2, <2>1, StandStepKeeps DEF kafka, OneByOne
  <1>3. ASSUME NEW stage \in Stage, Moves(w, stage), job[w].stage # "idle", faults' = faults
        PROVE  Progress' /\ OneByOne
    <2>1. job'[w] # Idle /\ job[w] # Idle /\ SameRecord(w) /\ Others(w)
      BY <1>3, RecordInHand DEF Moves, SameRecord, Others, Typed, Job, Idle, Stage
    <2>2. StandStep(w)
      BY <1>3, <2>1 DEF Moves, kafka, StandStep, SameRecord, Others
    <2> QED
      BY <1>2, <1>3, <2>2 DEF Moves
  <1>4. ASSUME NEW p \in Partition, Poll(w, p)
        PROVE  Progress' /\ OneByOne
    BY Zenon, <1>4, PollKeeps DEF Poll, OneByOne
  <1>5. ASSUME Claim(w)
        PROVE  Progress' /\ OneByOne
    <2>1. job[w].stage # "idle" /\ faults' = faults
      BY <1>5 DEF Claim
    <2>2. CASE /\ job' = [job EXCEPT ![w].stage = "running", ![w].token = ClaimedRow(Record(w)).token]
               /\ UNCHANGED kafka
      <3>1. job'[w] # Idle /\ job[w] # Idle /\ Others(w)
            /\ job'[w].partition = job[w].partition /\ job'[w].offset = job[w].offset
        BY Zenon, <2>1, <2>2, RecordInHand DEF Others, Typed, Job, Idle
      <3>2. StandStep(w)
        BY Zenon, <2>2, <3>1 DEF kafka, StandStep, Others
      <3> QED
        BY <1>2, <2>1, <2>2, <3>2
    <2> QED
      BY <1>1, <1>3, <1>5, <2>1, <2>2 DEF Claim, Reason, Stage
  <1>6. ASSUME HandlerSucceeds(w)
        PROVE  Progress' /\ OneByOne
    BY <1>1, <1>3, <1>6 DEF HandlerSucceeds, Reason, Stage
  <1>7. ASSUME NEW permanent \in BOOLEAN, HandlerFails(w, permanent)
        PROVE  Progress' /\ OneByOne
    <2>1. /\ job'[w] # Idle /\ job[w] # Idle /\ Others(w)
          /\ job'[w].partition = job[w].partition /\ job'[w].offset = job[w].offset
      BY Zenon, <1>7, RecordInHand DEF HandlerFails, Others, Typed, Job, Idle
    <2>2. StandStep(w)
      BY Zenon, <1>7, <2>1 DEF HandlerFails, kafka, StandStep, Others
    <2> QED
      BY <1>2, <1>7, <2>2 DEF HandlerFails
  <1>8. ASSUME TxCommits(w)
        PROVE  Progress' /\ OneByOne
    BY <1>3, <1>8 DEF TxCommits, Stage
  <1>9. ASSUME TransitionFailure(w)
        PROVE  Progress' /\ OneByOne
    BY Zenon, <1>1, <1>9 DEF TransitionFailure, Reason
  <1>10. ASSUME OffsetCommit(w)
         PROVE  Progress' /\ OneByOne
    BY <1>10, OffsetCommitKeeps DEF OneByOne
  <1>11. ASSUME ProtocolError(w) \/ RenewLost(w) \/ OffsetCommitRefused(w)
         PROVE  Progress' /\ OneByOne
    BY Zenon, <1>1, <1>11 DEF ProtocolError, RenewLost, OffsetCommitRefused, Reason
  <1> QED
    BY <1>4, <1>5, <1>6, <1>7, <1>8, <1>9, <1>10, <1>11 DEF WorkerStep

\* Every step of the consumer keeps the progress.
LEMMA NextKeepsProgress ==
    ASSUME IInv, InboxNext
    PROVE  Progress' /\ OneByOne
  <1> USE DEF IInv, Lifecycle
  <1>0. \A p \in Partition, n \in Nat : Passed(p, n) => NowPassed(p, n)
    BY NextKeepsLifecycle
  <1>1. ASSUME NEW w \in Worker, NEW reason \in Reason, job[w].stage # "idle",
               Unresolved(w, reason), Fault
        PROVE  Progress' /\ OneByOne
    <2>1. Progress'
      BY Zenon, <1>0, <1>1, FaultCounted, RecordInHand, UnresolvedKeeps DEF Progress
    <2> QED
      BY <1>1, <2>1 DEF Unresolved, OneByOne
  <1>2. ASSUME NEW w \in Worker,
               ClaimFails(w) \/ MarkProcessedFails(w) \/ TxCommitFails(w) \/ TransitionFails(w)
        PROVE  Progress' /\ OneByOne
    BY Zenon, <1>1, <1>2 DEF ClaimFails, MarkProcessedFails, TxCommitFails, TransitionFails, Reason
  <1>3. ASSUME NEW w \in Worker, OffsetCommitFails(w)
        PROVE  Progress' /\ OneByOne
    BY Zenon, <1>0, <1>3, OffsetCommitFailsKeeps DEF OneByOne
  <1>4. ASSUME NEW w \in Worker, NEW p \in Partition, Assign(w, p)
        PROVE  Progress' /\ OneByOne
    BY Zenon, <1>0, <1>4, AssignKeeps DEF Assign, OneByOne
  <1>5. ASSUME NEW w \in Worker, NEW p \in Partition, Revoke(w, p)
        PROVE  Progress' /\ OneByOne
    <2>1. KafkaTyped'
      BY Zenon, <1>5, FaultCounted DEF Revoke, Progress, KafkaTyped, Reason
    <2>2. /\ UNCHANGED <<position, committed, job>>
          /\ \A q \in Partition : owner'[q] \in {owner[q], NoWorker}
      BY Zenon, <1>5 DEF Revoke, Progress, KafkaTyped
    <2>3. Progress'
      BY <1>0, <2>1, <2>2, DropKeeps
    <2> QED
      BY Zenon, <2>2, <2>3 DEF OneByOne
  <1>6. ASSUME NEW w \in Worker, Expel(w) \/ Crash(w)
        PROVE  Progress' /\ OneByOne
    <2>0. Fault /\ DropsAll(w)
      BY Zenon, <1>6 DEF Expel, Crash
    <2>1. KafkaTyped'
      BY Zenon, <2>0, FaultCounted DEF DropsAll, Progress, KafkaTyped, Reason
    <2>2. /\ UNCHANGED <<position, committed>>
          /\ \A p \in Partition : owner'[p] \in {owner[p], NoWorker}
          /\ \A p \in Partition : owner[p] = w => owner'[p] = NoWorker
      BY <2>0 DEF DropsAll, Progress, KafkaTyped
    <2>3. \A v \in Worker : job'[v] \in {job[v], Idle} /\ (v # w => job'[v] = job[v])
      BY <1>6 DEF Expel, Crash, Typed
    <2>4. \A p \in Partition : owner'[p] \in Worker => job'[owner[p]] = job[owner[p]]
      BY <2>2, <2>3, InboxConstants
    <2>5. Progress'
      BY Zenon, <1>0, <2>1, <2>2, <2>3, <2>4, DropKeeps
    <2> QED
      BY <2>2, <2>5 DEF OneByOne
  <1>7. ASSUME KafkaTyped', UNCHANGED <<owner, position, committed, job>>
        PROVE  Progress' /\ OneByOne
    BY <1>0, <1>7, DropKeeps DEF OneByOne
  <1>8. ASSUME NEW w \in Worker, NEW p \in Partition, ResumeDue(w, p)
        PROVE  Progress' /\ OneByOne
    BY Zenon, <1>7, <1>8 DEF ResumeDue, Progress, KafkaTyped, Reason
  <1>9. ASSUME NEW w \in Worker, Renew(w)
        PROVE  Progress' /\ OneByOne
    BY <1>7, <1>9 DEF Renew, kafka, Progress, KafkaTyped
  <1>10. ASSUME NEW e \in Event, RetryDead(e) \/ TimePasses(e)
         PROVE  Progress' /\ OneByOne
    BY <1>7, <1>10 DEF RetryDead, TimePasses, kafka, Progress, KafkaTyped
  <1>11. ASSUME NEW e \in Event, Process(e) \/ LeaseLapses(e)
         PROVE  Progress' /\ OneByOne
    <2>1. faults' \in 0..MaxFaults /\ UNCHANGED <<kafka, job>>
      BY <1>11, FaultCounted DEF Process, LeaseLapses, Progress
    <2> QED
      BY Zenon, <1>7, <2>1 DEF kafka, Progress, KafkaTyped
  <1> QED
    BY <1>0, WorkerStepKeeps, <1>2, <1>3, <1>4, <1>5, <1>6, <1>8, <1>9, <1>10, <1>11
       DEF InboxNext
-----------------------------------------------------------------------------
\* IInv is inductive, and every step keeps the commits in order.
LEMMA Step ==
    ASSUME IInv, [InboxNext]_vars
    PROVE  IInv' /\ [OneByOne]_committed
  <1>1. CASE InboxNext
    BY <1>1, NextKeepsLifecycle, NextKeepsProgress DEF IInv
  <1>2. CASE UNCHANGED vars
    <2>1. RowStep /\ Lifecycle' /\ committed' = committed
      BY <1>2, RowStepKeeps DEF RowStep, vars, kafka, IInv
    <2>2. Progress'
      BY ZenonT(30), <1>2 DEF vars, kafka, IInv, Progress, KafkaTyped, Standing, Reached, OnRecord,
                  Passed, Processed
    <2> QED
      BY <2>1, <2>2 DEF IInv
  <1> QED
    BY <1>1, <1>2

\* The inductive invariant of the managed consumer holds in every state.
THEOREM InboxInvariance == InboxSpec => []IInv
  <1>1. IInv /\ [InboxNext]_vars => IInv'
    BY Step
  <1> QED
    BY <1>1, InitIInv, PTL DEF InboxSpec

\* Types of the inbox rows, the workers' records and the group's state.
THEOREM InboxTypeCorrect == InboxSpec => []InboxTypeOK
  <1>1. IInv => InboxTypeOK
    BY DEF IInv, Lifecycle, Typed, Progress, KafkaTyped, InboxTypeOK
  <1> QED
    BY <1>1, InboxInvariance, PTL

\* However leases are reclaimed and commits fail, the handler's transaction
\* commits once per event: MarkProcessed only runs under the current token.
THEOREM EffectsOnce == InboxSpec => []EffectOnceProcessed
  <1>1. IInv => EffectOnceProcessed
    BY DEF IInv, Lifecycle
  <1> QED
    BY <1>1, InboxInvariance, PTL

\* The group's offsets pass only processed events, for every log and every
\* sequence of rebalances, expulsions and lost commit answers.
THEOREM OffsetsSafe == InboxSpec => []OffsetsResolved
  <1>1. IInv => OffsetsResolved
    BY Zenon DEF IInv, Progress, Passed, Processed, OffsetsResolved
  <1> QED
    BY <1>1, InboxInvariance, PTL

\* Nobody has a record in hand before the ones ahead of it are processed.
THEOREM HeadOfLineSafe == InboxSpec => []HeadOfLine
  <1>1. IInv => HeadOfLine
    BY DEF IInv, Progress, Passed, Processed, HeadOfLine
  <1> QED
    BY <1>1, InboxInvariance, PTL

\* The committed offset never goes back and never skips: at every step it
\* stays or grows by one.
THEOREM CommitsOrdered == InboxSpec => CommitsInOrder
  <1>1. IInv /\ [InboxNext]_vars => [OneByOne]_committed
    BY Step
  <1>2. InboxSpec => [][OneByOne]_committed
    BY <1>1, InboxInvariance, PTL DEF InboxSpec
  <1> QED
    BY <1>2 DEF CommitsInOrder, OneByOne
-----------------------------------------------------------------------------
(* The attempt budget.                                                      *)

\* The token of a lease in force is the number of the claim that gave it out.
LeaseIsClaim == \A e \in Event : row[e].status = "inflight" => row[e].token = row[e].attempts

WithinBudget ==
    \A e \in Event :
        row[e].status = "inflight" /\ row'[e].status = "retry_wait"
            => row[e].attempts < MaxAttempts

\* A row step keeps tokens and claims together, and only a failure within the
\* budget sends an event in flight to another retry.
LEMMA RowStepWithinBudget ==
    ASSUME Lifecycle, LeaseIsClaim, RowStep
    PROVE  LeaseIsClaim' /\ WithinBudget
  <1>1. ASSUME NEW w \in Worker, JobStep(w) PROVE LeaseIsClaim' /\ WithinBudget
    BY Zenon, <1>1 DEF JobStep, LeaseIsClaim, WithinBudget
  <1>2. ASSUME NEW w \in Worker, ClaimStep(w) PROVE LeaseIsClaim' /\ WithinBudget
    BY <1>2 DEF ClaimStep, ClaimedRow, NewRow, LeaseIsClaim, WithinBudget, Lifecycle, Typed
  <1>3. ASSUME NEW w \in Worker, EffectStep(w) PROVE LeaseIsClaim' /\ WithinBudget
    BY <1>3 DEF EffectStep, ProcessedBy, NewRow, LeaseIsClaim, WithinBudget, Lifecycle, Typed
  <1>4. ASSUME NEW w \in Worker, FailStep(w) PROVE LeaseIsClaim' /\ WithinBudget
    <2>1. /\ row' = [row EXCEPT ![Record(w)] = FailedRow(w)]
          /\ Exhausted(w) => FailedRow(w).status = "dead"
          /\ FailedRow(w).status # "inflight"
      BY <1>4 DEF FailStep, FailedRow, NewRow
    <2>2. ASSUME NEW e \in Event, e = Record(w), ~Exhausted(w) PROVE row[e].attempts < MaxAttempts
      <3>1. job[w].token = row[e].attempts /\ row[e].attempts \in Nat
        BY <1>4, <2>2 DEF FailStep, HoldsLease, LeaseIsClaim, Lifecycle, Typed, InboxRow
      <3> QED
        BY <3>1, <2>2, InboxConstants DEF Exhausted
    <2> QED
      BY <2>1, <2>2 DEF LeaseIsClaim, WithinBudget, Lifecycle, Typed
  <1>5. ASSUME NEW f \in Event, DueStep(f) PROVE LeaseIsClaim' /\ WithinBudget
    BY <1>5 DEF DueStep, LeaseIsClaim, WithinBudget
  <1>6. ASSUME NEW f \in Event, ProcessStep(f) PROVE LeaseIsClaim' /\ WithinBudget
    BY Zenon, <1>6 DEF ProcessStep, NewRow, LeaseIsClaim, WithinBudget, Lifecycle, Typed
  <1>7. ASSUME UNCHANGED <<row, effect, job>> PROVE LeaseIsClaim' /\ WithinBudget
    BY <1>7 DEF LeaseIsClaim, WithinBudget
  <1> QED
    BY Zenon, <1>1, <1>2, <1>3, <1>4, <1>5, <1>6, <1>7 DEF RowStep

\* Config.MaxAttempts ends the automatic retries, however many claims crashes
\* and lapsed leases have used up: transitionFailure compares the attempts of
\* its own lease, which are those of the row as long as the lease is held.
THEOREM BudgetHolds == InboxSpec => BudgetEndsRetries
  <1>1. InboxInit => LeaseIsClaim
    BY DEF InboxInit, NewRow, LeaseIsClaim
  <1>2. IInv /\ LeaseIsClaim /\ [InboxNext]_vars => LeaseIsClaim' /\ [WithinBudget]_row
    <2> SUFFICES ASSUME IInv, LeaseIsClaim, [InboxNext]_vars
                 PROVE  LeaseIsClaim' /\ [WithinBudget]_row
      OBVIOUS
    <2>1. CASE InboxNext
      BY <2>1, NextIsRowStep, RowStepWithinBudget DEF IInv
    <2>2. CASE UNCHANGED vars
      BY <2>2 DEF vars, kafka, LeaseIsClaim
    <2> QED
      BY <2>1, <2>2
  <1>3. InboxSpec => [][WithinBudget]_row
    BY <1>1, <1>2, InboxInvariance, PTL DEF InboxSpec
  <1> QED
    BY Zenon, <1>3 DEF BudgetEndsRetries, WithinBudget
-----------------------------------------------------------------------------
(* What the integrity verifier reads in the rows.                           *)

\* Leases belong to rows in flight, and a row in the managed lifecycle has been
\* claimed: the columns a lease and a claim write come and go together.
RowShape ==
    \A e \in Event :
        /\ row[e].token # NoToken <=> row[e].status = "inflight"
        /\ row[e].status \in {"inflight", "retry_wait", "dead"} => row[e].attempts # 0

\* Every kind of row step keeps the shape of the rows.
LEMMA RowStepKeepsShape ==
    ASSUME Lifecycle, RowShape, RowStep
    PROVE  RowShape'
  <1>1. ASSUME NEW w \in Worker, JobStep(w) PROVE RowShape'
    BY Zenon, <1>1 DEF JobStep, RowShape
  <1>2. ASSUME NEW w \in Worker, ClaimStep(w) PROVE RowShape'
    <2>1. ASSUME NEW e \in Event PROVE row[e].attempts \in Nat
      BY DEF Lifecycle, Typed, InboxRow
    <2> QED
      BY <1>2, <2>1 DEF ClaimStep, ClaimedRow, NewRow, NoToken, RowShape, Lifecycle, Typed
  <1>3. ASSUME NEW w \in Worker, EffectStep(w) PROVE RowShape'
    BY Zenon, <1>3 DEF EffectStep, ProcessedBy, NewRow, RowShape, Lifecycle, Typed
  <1>4. ASSUME NEW w \in Worker, FailStep(w) PROVE RowShape'
    <2>1. /\ FailedRow(w).token = NoToken
          /\ FailedRow(w).attempts = row[Record(w)].attempts
          /\ FailedRow(w).status # "inflight"
      BY DEF FailedRow, NewRow
    <2> QED
      BY <1>4, <2>1 DEF FailStep, HoldsLease, RowShape, Lifecycle, Typed
  <1>5. ASSUME NEW e \in Event, DueStep(e) PROVE RowShape'
    BY <1>5 DEF DueStep, RowShape
  <1>6. ASSUME NEW e \in Event, ProcessStep(e) PROVE RowShape'
    BY Zenon, <1>6 DEF ProcessStep, NewRow, RowShape, Lifecycle, Typed
  <1>7. ASSUME UNCHANGED <<row, effect, job>> PROVE RowShape'
    BY Zenon, <1>7 DEF RowShape
  <1> QED
    BY Zenon, <1>1, <1>2, <1>3, <1>4, <1>5, <1>6, <1>7 DEF RowStep

\* A row of that shape with its effect in place breaks none of checkInbox's
\* rules: what remains are the three warnings.
LEMMA ShapeIsClean ==
    ASSUME Lifecycle, RowShape, NEW e \in Event, row[e].status # "absent"
    PROVE  InboxFindings(InboxRecord(e), 0) \cap Violations = {}
  <1> DEFINE r == InboxRecord(e)
  <1>1. /\ row[e].status \in {"inflight", "retry_wait", "processed", "dead"}
        /\ row[e].attempts \in Nat
    BY DEF Lifecycle, Typed, InboxRow, Status
  <1>2. /\ r.status = row[e].status /\ r.attempts = row[e].attempts
        /\ r.lease = (IF row[e].token = NoToken THEN {} ELSE {"owner", "token", "until"})
        /\ r.stamped = (effect[e] # 0)
        /\ r.source = (IF row[e].attempts = 0 THEN {} ELSE SourceFields)
        /\ r.timestamped = (row[e].attempts # 0)
    BY Zenon DEF InboxRecord
  <1> HIDE DEF r
  <1>3. r.status \in InboxStatuses /\ ~(r.attempts < 0)
    <2>1. ~(row[e].attempts < 0)
      BY <1>1
    <2> QED
      BY <1>1, <1>2, <2>1, Zenon DEF InboxStatuses
  <1>4. r.lease = (IF r.status = "inflight" THEN {"owner", "token", "until"} ELSE {})
    BY <1>2 DEF RowShape
  <1>5. (r.status = "processed") = r.stamped
    BY <1>2 DEF Lifecycle, EffectOnceProcessed
  <1>6. /\ r.source \in {{}, SourceFields}
        /\ r.timestamped \/ r.status # "processed" => r.source = SourceFields
    BY Zenon, <1>1, <1>2 DEF RowShape
  <1>7. InboxFindings(r, 0) \subseteq
            {"INBOX_RETRY_WAIT", "INBOX_DEAD_BLOCKED", "INBOX_STALE_LEASE"}
    BY <1>3, <1>4, <1>5, <1>6, Zenon DEF InboxFindings, Found
  <1> QED
    BY <1>7 DEF Violations, r

\* No crash, reclaimed lease, lost answer, operator retry or use of the Process
\* helper leaves an inbox row that checkInbox reports as a violation: Claim,
\* MarkProcessed, MarkRetry, MarkDead and RetryDead write the lease, source and
\* processed columns together, whatever the consumers and the log are.
THEOREM InboxRowsClean == InboxSpec => []InboxFindsNoViolation
  <1>1. InboxInit => RowShape
    BY DEF InboxInit, NewRow, RowShape, NoToken
  <1>2. IInv /\ RowShape /\ [InboxNext]_vars => RowShape'
    <2> SUFFICES ASSUME IInv, RowShape, [InboxNext]_vars PROVE RowShape'
      OBVIOUS
    <2>1. CASE InboxNext
      BY <2>1, NextIsRowStep, RowStepKeepsShape DEF IInv
    <2>2. CASE UNCHANGED vars
      BY <2>2 DEF vars, RowShape
    <2> QED
      BY <2>1, <2>2
  <1>3. IInv /\ RowShape => InboxFindsNoViolation
    BY ShapeIsClean DEF IInv, InboxFindsNoViolation
  <1> QED
    BY <1>1, <1>2, <1>3, InboxInvariance, PTL DEF InboxSpec
=============================================================================
