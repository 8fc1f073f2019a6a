--------------------------- MODULE UnorderedRelay ---------------------------
(***************************************************************************)
(* The relays' default path: runScheduler claims events into free slots,   *)
(* one goroutine per event runs handle, the store's marks are fenced by    *)
(* the relay's name alone.  Two goroutines of one relay may therefore hold *)
(* the same event when a lease expires under the first.                    *)
(*                                                                         *)
(* Time is abstract: an event is due when its available_at has passed      *)
(* (pending) or its lease has expired (inflight).  A batch claim is a      *)
(* sequence of single claims, its rows being independent.  faults counts   *)
(* what operators and the environment do; MaxFaults bounds it.             *)
(***************************************************************************)
EXTENDS Naturals, FiniteSets

CONSTANTS Event,        \* events without an ordering key
          Relay,        \* relay instance IDs
          Worker,       \* goroutines dispatch may start
          RelayOf,      \* [Worker -> Relay]
          Concurrency,  \* Config.Concurrency
          MaxAttempts,  \* Config.MaxAttempts
          MaxFaults     \* bound on disturbances

NoOwner == "none"
NoJob   == [stage |-> "none"]

ASSUME RelayConstants ==
    /\ NoOwner \notin Relay
    /\ IsFiniteSet(Worker)
    /\ RelayOf \in [Worker -> Relay]
    /\ Concurrency \in Nat /\ MaxAttempts \in Nat \ {0} /\ MaxFaults \in Nat

VARIABLES event,     \* emitlane.outbox_events
          job,       \* the event each goroutine handles
          active,    \* runScheduler's count of slots in use
          mode,      \* where each relay's Run is
          paused,    \* emitlane.runtime_control
          stored,    \* events the broker has a record of
          rejected,  \* events the broker refused for good
          faults

control == <<active, mode, paused>>
broker  == <<stored, rejected>>
vars == <<event, job, control, broker, faults>>

Status == {"absent", "pending", "inflight", "delivered", "dead", "deleted"}
Stage  == {"claimed", "begun", "appended", "acked", "failed", "refused", "done"}

EventRow == [status: Status, owner: Relay \cup {NoOwner}, attempts: 0..MaxAttempts,
             due: BOOLEAN, retried: BOOLEAN]
Job      == [stage: Stage, event: Event, attempts: 0..MaxAttempts]

RelayTypeOK ==
    /\ event \in [Event -> EventRow]
    /\ job \in [Worker -> {NoJob} \cup Job]
    /\ active \in [Relay -> 0..Concurrency]
    /\ mode \in [Relay -> {"stopped", "running", "draining"}]
    /\ paused \in BOOLEAN
    /\ stored \subseteq Event /\ rejected \subseteq Event
    /\ faults \in 0..MaxFaults

\* A row nobody leases, and one relay r leases.
Unleased(e, status, attempts, due) ==
    [status |-> status, owner |-> NoOwner, attempts |-> attempts, due |-> due,
     retried |-> event[e].retried]
Leased(e, r, attempts, due) ==
    [status |-> "inflight", owner |-> r, attempts |-> attempts, due |-> due,
     retried |-> event[e].retried]

RelayInit ==
    /\ event = [e \in Event |-> [status |-> "absent", owner |-> NoOwner, attempts |-> 0,
                                 due |-> FALSE, retried |-> FALSE]]
    /\ job = [w \in Worker |-> NoJob]
    /\ active = [r \in Relay |-> 0]
    /\ mode = [r \in Relay |-> "stopped"]
    /\ paused = FALSE
    /\ stored = {} /\ rejected = {}
    /\ faults = 0

Fault == faults < MaxFaults /\ faults' = faults + 1

AttemptsLeftOffByOne(attempts) == attempts <= MaxAttempts
AttemptsLeftOneLess(attempts) == attempts + 1 < MaxAttempts

\* The attempt budget, checked by handle, BeginAttempt and onPublishFailure.
AttemptsLeft(attempts) == attempts < MaxAttempts

OwnsByIdOnly(w) == event[job[w].event].status # "absent"

\* The WHERE clause of BeginAttempt, MarkDelivered, MarkRetry and MarkDead.
Owns(w) ==
    LET row == event[job[w].event]
    IN  row.status = "inflight" /\ row.owner = RelayOf[w]

Goes(w, stage) ==
    job' = [job EXCEPT ![w] = [stage |-> stage, event |-> @.event, attempts |-> @.attempts]]
-----------------------------------------------------------------------------
(* runScheduler.                                                            *)

Enqueue(e, due) ==
    /\ event[e].status = "absent"
    /\ event' = [event EXCEPT ![e] = Unleased(e, "pending", 0, due)]
    /\ UNCHANGED <<job, control, broker, faults>>

Start(r) ==
    /\ mode[r] = "stopped"
    /\ mode' = [mode EXCEPT ![r] = "running"]
    /\ UNCHANGED <<event, job, active, paused, broker, faults>>

ClaimablePendingOnly(e) == ~paused /\ event[e].status = "pending" /\ event[e].due

\* The WHERE clauses of Claim's two branches.
Claimable(e) == ~paused /\ event[e].status \in {"pending", "inflight"} /\ event[e].due

HasSlot(r) == mode[r] = "running" /\ active[r] < Concurrency

\* Claim commits and dispatch starts a goroutine.
Claim(w, e) ==
    LET r == RelayOf[w]
    IN  /\ HasSlot(r)
        /\ job[w] = NoJob
        /\ Claimable(e)
        /\ event' = [event EXCEPT ![e] = Leased(e, r, @.attempts, FALSE)]
        /\ job' = [job EXCEPT ![w] = [stage |-> "claimed", event |-> e,
                                      attempts |-> event[e].attempts]]
        /\ active' = [active EXCEPT ![r] = @ + 1]
        /\ UNCHANGED <<mode, paused, broker, faults>>

\* Claim commits but reports an error: the lease has no goroutine.
ClaimLost(r, e) ==
    /\ HasSlot(r)
    /\ Claimable(e)
    /\ Fault
    /\ event' = [event EXCEPT ![e] = Leased(e, r, @.attempts, FALSE)]
    /\ UNCHANGED <<job, control, broker>>

CompleteWhileRunning(w) ==
    /\ job[w].stage = "done" /\ mode[RelayOf[w]] = "running"
    /\ job' = [job EXCEPT ![w] = NoJob]
    /\ active' = [active EXCEPT ![RelayOf[w]] = @ - 1]
    /\ UNCHANGED <<event, mode, paused, broker, faults>>

\* The scheduler reads a completion.
Complete(w) ==
    /\ job[w].stage = "done"
    /\ job' = [job EXCEPT ![w] = NoJob]
    /\ active' = [active EXCEPT ![RelayOf[w]] = @ - 1]
    /\ UNCHANGED <<event, mode, paused, broker, faults>>

\* The context is cancelled: no more claims, running handlers finish.
Stop(r) ==
    /\ mode[r] = "running"
    /\ Fault
    /\ mode' = [mode EXCEPT ![r] = "draining"]
    /\ UNCHANGED <<event, job, active, paused, broker>>

StoppedAtOnce(r) ==
    /\ mode[r] = "draining"
    /\ mode' = [mode EXCEPT ![r] = "stopped"]
    /\ UNCHANGED <<event, job, active, paused, broker, faults>>

Stopped(r) ==
    /\ mode[r] = "draining"
    /\ active[r] = 0
    /\ mode' = [mode EXCEPT ![r] = "stopped"]
    /\ UNCHANGED <<event, job, active, paused, broker, faults>>

\* The process dies with its goroutines; a request in flight is stored (a
\* BrokerAppends before this step) or not.
Crash(r) ==
    /\ mode[r] # "stopped"
    /\ Fault
    /\ mode' = [mode EXCEPT ![r] = "stopped"]
    /\ active' = [active EXCEPT ![r] = 0]
    /\ job' = [w \in Worker |-> IF RelayOf[w] = r THEN NoJob ELSE job[w]]
    /\ UNCHANGED <<event, paused, broker>>
-----------------------------------------------------------------------------
(* handle.                                                                  *)

\* BeginAttempt counts the attempt; without a matching row handle returns.
BeginAttempt(w) ==
    /\ job[w].stage = "claimed"
    /\ AttemptsLeft(job[w].attempts)
    /\ LET e == job[w].event
           n == event[e].attempts
       IN  IF Owns(w) /\ AttemptsLeft(n)
           THEN /\ event' = [event EXCEPT ![e] = Leased(e, @.owner, n + 1, @.due)]
                /\ job' = [job EXCEPT ![w] = [stage |-> "begun", event |-> e, attempts |-> n + 1]]
           ELSE Goes(w, "done") /\ UNCHANGED event
    /\ UNCHANGED <<control, broker, faults>>

\* The statement took effect and its answer was lost: an attempt is spent.
BeginAttemptLost(w) ==
    /\ job[w].stage = "claimed"
    /\ AttemptsLeft(job[w].attempts)
    /\ Fault
    /\ LET e == job[w].event
       IN  /\ Owns(w) /\ AttemptsLeft(event[e].attempts)
           /\ event' = [event EXCEPT ![e] = Leased(e, @.owner, @.attempts + 1, @.due)]
    /\ Goes(w, "done")
    /\ UNCHANGED <<control, broker>>

BrokerAppends(w) ==
    /\ job[w].stage = "begun"
    /\ stored' = stored \cup {job[w].event}
    /\ Goes(w, "appended")
    /\ UNCHANGED <<event, control, rejected, faults>>

BrokerAcks(w) ==
    /\ job[w].stage = "appended"
    /\ Goes(w, "acked")
    /\ UNCHANGED <<event, control, broker, faults>>

\* Publish returns a retryable error or its timeout; the record is stored or not.
PublishFails(w) ==
    /\ job[w].stage \in {"begun", "appended"}
    /\ Goes(w, "failed")
    /\ UNCHANGED <<event, control, broker, faults>>

\* Publish returns a permanent error.
BrokerRefuses(w) ==
    /\ job[w].stage = "begun"
    /\ Goes(w, "refused")
    /\ rejected' = rejected \cup {job[w].event}
    /\ UNCHANGED <<event, control, stored, faults>>

\* The mark of an outcome: the row moves if the relay still owns it.
Mark(w, row) ==
    /\ event' = IF Owns(w) THEN [event EXCEPT ![job[w].event] = row] ELSE event
    /\ Goes(w, "done")
    /\ UNCHANGED <<control, broker, faults>>

MarkDelivered(w) ==
    /\ job[w].stage = "acked"
    /\ LET e == job[w].event
       IN  Mark(w, Unleased(e, "delivered", event[e].attempts, FALSE))

MarkRetry(w, due) ==
    /\ job[w].stage = "failed" /\ AttemptsLeft(job[w].attempts)
    /\ LET e == job[w].event
       IN  Mark(w, Unleased(e, "pending", event[e].attempts, due))

\* A permanent error, the last attempt, or a claim that finds none left.
MarkDead(w) ==
    /\ \/ job[w].stage = "refused"
       \/ job[w].stage \in {"claimed", "failed"} /\ ~AttemptsLeft(job[w].attempts)
    /\ LET e == job[w].event
       IN  Mark(w, Unleased(e, "dead", event[e].attempts, FALSE))

\* A database error, the ten second limit of a mark, or the forced stop: handle
\* returns and the row waits for its lease to expire.
LeaveInflight(w) ==
    /\ job[w].stage \in Stage \ {"done"}
    /\ Fault
    /\ Goes(w, "done")
    /\ UNCHANGED <<event, control, broker>>
-----------------------------------------------------------------------------
(* Operators, retention and time.                                           *)

RetryDead(e) ==
    /\ event[e].status = "dead"
    /\ Fault
    /\ event' = [event EXCEPT ![e] = [status |-> "pending", owner |-> NoOwner, attempts |-> 0,
                                      due |-> TRUE, retried |-> TRUE]]
    /\ UNCHANGED <<job, control, broker>>

CleanupDelivered(e) ==
    /\ event[e].status = "delivered"
    /\ event' = [event EXCEPT ![e] = Unleased(e, "deleted", 0, FALSE)]
    /\ UNCHANGED <<job, control, broker, faults>>

Pause ==
    /\ ~paused /\ paused' = TRUE
    /\ Fault
    /\ UNCHANGED <<event, job, active, mode, broker>>

Resume ==
    /\ paused /\ paused' = FALSE
    /\ UNCHANGED <<event, job, active, mode, broker, faults>>

\* A goroutine of the lease's relay is at work on the event.
Held(e) == \E w \in Worker : job[w].stage \in Stage \ {"done"} /\ job[w].event = e /\ Owns(w)

\* available_at passes, or a lease without a goroutine expires.
TimePasses(e) ==
    /\ event[e].status \in {"pending", "inflight"} /\ ~event[e].due
    /\ ~Held(e)
    /\ event' = [event EXCEPT ![e].due = TRUE]
    /\ UNCHANGED <<job, control, broker, faults>>

\* handle outlives the lease: nothing renews an outbox lease.
LeaseLapses(e) ==
    /\ Held(e) /\ ~event[e].due
    /\ Fault
    /\ event' = [event EXCEPT ![e].due = TRUE]
    /\ UNCHANGED <<job, control, broker>>

Handle(w) ==
    \/ BeginAttempt(w)
    \/ BrokerAppends(w)
    \/ BrokerAcks(w)
    \/ PublishFails(w)
    \/ BrokerRefuses(w)
    \/ MarkDelivered(w)
    \/ \E due \in BOOLEAN : MarkRetry(w, due)
    \/ MarkDead(w)

RelayNext ==
    \/ \E e \in Event, due \in BOOLEAN : Enqueue(e, due)
    \/ \E r \in Relay : Start(r)
    \/ \E w \in Worker, e \in Event : Claim(w, e)
    \/ \E r \in Relay, e \in Event : ClaimLost(r, e)
    \/ \E w \in Worker : Handle(w)
    \/ \E w \in Worker : Complete(w)
    \/ \E w \in Worker : BeginAttemptLost(w)
    \/ \E w \in Worker : LeaveInflight(w)
    \/ \E r \in Relay : Stop(r)
    \/ \E r \in Relay : Stopped(r)
    \/ \E r \in Relay : Crash(r)
    \/ \E e \in Event : RetryDead(e)
    \/ \E e \in Event : CleanupDelivered(e)
    \/ Pause
    \/ Resume
    \/ \E e \in Event : TimePasses(e)
    \/ \E e \in Event : LeaseLapses(e)

RelaySpec == RelayInit /\ [][RelayNext]_vars

\* PublishTimeout and the limits on marks end every step of handle; the
\* scheduler polls whether or not it is notified; a stopped relay is started
\* again; time passes.  Nothing resumes a paused cluster.
RelayFairness ==
    /\ \A w \in Worker : WF_vars(Handle(w))
    /\ \A w \in Worker : WF_vars(Complete(w))
    /\ \A r \in Relay : WF_vars(\E w \in Worker, e \in Event : RelayOf[w] = r /\ Claim(w, e))
    /\ \A r \in Relay : WF_vars(Start(r)) /\ WF_vars(Stopped(r))
    /\ \A e \in Event : WF_vars(TimePasses(e))

FairRelaySpec == RelaySpec /\ RelayFairness
-----------------------------------------------------------------------------
\* The goroutines of a relay: started by dispatch, completion not yet read.
Busy(r) == {w \in Worker : RelayOf[w] = r /\ job[w] # NoJob}

\* runScheduler's count is exact: never more than Concurrency handlers run, no
\* slot leaks when handlers fail, and Run returns only when none is left.
SlotsAccounted ==
    \A r \in Relay :
        /\ active[r] = Cardinality(Busy(r))
        /\ active[r] <= Concurrency
        /\ mode[r] = "stopped" => Busy(r) = {}

\* docs/05-DELIVERY-SEMANTICS.md: rather a duplicate than a loss.  An event is
\* called delivered, and is cleaned up, only when the broker has a record of it.
DeliveredIsStored ==
    \A e \in Event : event[e].status \in {"delivered", "deleted"} => e \in stored

\* An event dies because the broker refused it or its attempts are spent, and
\* no slow handler of an earlier claim kills it early.  (A handler that was
\* already stalled when an operator retried the event may.)
DeadHasReason ==
    \A e \in Event :
        event[e].status = "dead" /\ ~event[e].retried =>
            e \in rejected \/ event[e].attempts = MaxAttempts

\* The rows' statuses, read as what the outbox owes.
PhaseOf(status) ==
    CASE status = "absent" -> "none"
      [] status \in {"pending", "inflight"} -> "owed"
      [] status = "deleted" -> "forgotten"
      [] OTHER -> status

Promise == [e \in Event |-> PhaseOf(event[e].status)]

Outbox == INSTANCE AtLeastOnce WITH phase <- Promise

\* The relays implement at-least-once delivery, whichever handlers stall, die
\* or lose answers.
ImplementsAtLeastOnce == Outbox!OutboxSpec

\* Crashes, lost answers and expired leases leave no event behind: once
\* disturbances end, every committed event is delivered or dead for good, unless
\* the cluster stays paused.
OutboxSettles ==
    []<>~paused => <>[](\A e \in Event : event[e].status \notin {"pending", "inflight"})

\* A relay told to stop returns from Run: none stays draining.
StopsCleanly == <>[](\A r \in Relay : mode[r] # "draining")
=============================================================================
