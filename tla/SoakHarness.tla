---------------------------- MODULE SoakHarness ----------------------------
(***************************************************************************)
(* The local soak runner (cmd/emitlane-soak): it produces events into a    *)
(* real outbox, disturbs the relays, Kafka and the pause gate, restores    *)
(* them, waits for the backlog to drain, audits the topics from offset     *)
(* zero and gives a verdict.                                               *)
(*                                                                         *)
(* The system under test is deliberately arbitrary here: a live relay may  *)
(* append any event to the topic, in any order and any number of times,    *)
(* whether it was committed or not, and may settle a row without           *)
(* publishing it.  What the harness must guarantee is that its verdict     *)
(* tells a correct delivery from any of these.                             *)
(*                                                                         *)
(* Event 0 is unordered; events 1, 2, ... are one ordered stream, named by *)
(* their sequence.  A row is "open" while pending, inflight or dead: the   *)
(* gate treats the three alike.                                            *)
(***************************************************************************)
EXTENDS Naturals, FiniteSets, Sequences

CONSTANTS
    MaxSequence,        \* ordered events the producer gets to write
    TargetRelays,       \* Config.Relays
    MaxInjected,        \* bound: faults injected
    MaxRecords          \* bound: records in the topics

ASSUME SoakConstants ==
    /\ MaxSequence \in Nat
    /\ TargetRelays \in Nat \ {0}
    /\ MaxInjected \in Nat
    /\ MaxRecords \in Nat

VARIABLES
    phase,              \* runSoak's progress
    stopped,            \* the operator's SIGTERM cancelled ctx
    expired,            \* the running duration is over
    producer,           \* [at, next, failed]: the produce goroutine
    rows,               \* outbox rows: absent, open or delivered
    expected,           \* verifier.expected: commits that were acknowledged
    topics,             \* the records of the topics, oldest first
    env,                \* [kafka, paused, relays]
    fault,              \* the injector's fault under way, "none", or "done"
    injected,           \* faults begun
    infra,              \* faults.infrastructure is not zero
    recovered,          \* recover(), the audit and the check returned nil
    target,             \* the audit's captured end offset
    final               \* FinalState of result.json, or "none"

soakVars == <<phase, stopped, expired, producer, rows, expected, topics, env,
              fault, injected, infra, recovered, target, final>>
sutVars == <<rows, topics>>
verdictVars == <<recovered, target, final>>

SoakEvent == 0 .. MaxSequence
FaultKinds == {"restart", "crash", "outage", "pause", "join"}

\* runningCtx is done.
CtxDone == expired \/ stopped

----------------------------------------------------------------------------
(* The system under test, while one of its processes lives *)

RelayAppends(e) ==
    /\ env.relays > 0 /\ env.kafka /\ Len(topics) < MaxRecords
    /\ topics' = Append(topics, e)
    /\ UNCHANGED <<phase, stopped, expired, producer, rows, expected, env, fault,
                   injected, infra, verdictVars>>

RelaySettles(e) ==
    /\ env.relays > 0 /\ rows[e] = "open"
    /\ rows' = [rows EXCEPT ![e] = "delivered"]
    /\ UNCHANGED <<phase, stopped, expired, producer, expected, topics, env, fault,
                   injected, infra, verdictVars>>

----------------------------------------------------------------------------
(* The producer *)

\* One enqueue transaction.  It commits and is recorded; it fails; or the
\* commit takes effect but its answer is lost, and nothing is recorded.
Enqueue(e, at, next) ==
    /\ phase = "running" /\ rows[e] = "absent"
    /\ \/ /\ rows' = [rows EXCEPT ![e] = "open"]
          /\ expected' = expected \cup {e}
          /\ producer' = [producer EXCEPT !.at = at, !.next = next]
       \/ /\ rows' \in {rows, [rows EXCEPT ![e] = "open"]}
          /\ producer' \in [at : {"done"}, next : {producer.next},
                            failed : {~CtxDone, TRUE}]
          /\ UNCHANGED expected
    /\ UNCHANGED <<phase, stopped, expired, topics, env, fault, injected, infra,
                   verdictVars>>

EnqueueUnordered == producer.at = "loop" /\ Enqueue(0, "loop", producer.next)

EnqueueOrdered ==
    /\ producer.at = "loop" /\ producer.next <= MaxSequence
    /\ Enqueue(producer.next, "loop", producer.next + 1)

\* The inverted pair: sequence + 1 is committed before sequence.
EnqueueLaterFirst ==
    /\ producer.at = "loop" /\ producer.next < MaxSequence
    /\ Enqueue(producer.next + 1, "pair", producer.next)
EnqueueEarlierSecond ==
    /\ producer.at = "pair"
    /\ Enqueue(producer.next, "loop", producer.next + 2)

\* Between two enqueues the producer sees the end of its context, or an
\* error of a transaction it meant to roll back.
ProducerReturns ==
    /\ phase = "running" /\ producer.at = "loop"
    /\ \E failed \in BOOLEAN :
          /\ CtxDone \/ failed
          /\ producer' = [producer EXCEPT !.at = "done", !.failed = failed]
    /\ UNCHANGED <<phase, stopped, expired, rows, expected, topics, env, fault,
                   injected, infra, verdictVars>>

----------------------------------------------------------------------------
(* The fault injector *)

Broken(kind, e) ==
    CASE kind = "outage" -> [e EXCEPT !.kafka = FALSE]
      [] kind = "pause" -> [e EXCEPT !.paused = TRUE]
      [] kind = "join" -> [e EXCEPT !.relays = @ + 1]
      [] OTHER -> [e EXCEPT !.relays = @ - 1]

Repaired(kind, e) ==
    CASE kind = "outage" -> [e EXCEPT !.kafka = TRUE]
      [] kind = "pause" -> [e EXCEPT !.paused = FALSE]
      [] kind = "join" -> [e EXCEPT !.relays = @ - 1]
      [] OTHER -> [e EXCEPT !.relays = @ + 1]

\* stopIndex finds no child to stop.
NothingToStop(kind) == kind \in {"restart", "crash"} /\ env.relays = 0

FaultBegins(kind) ==
    /\ phase = "running" /\ fault = "none" /\ ~CtxDone /\ injected < MaxInjected
    /\ ~NothingToStop(kind)
    /\ fault' = kind
    /\ env' = Broken(kind, env)
    /\ injected' = injected + 1
    /\ UNCHANGED <<phase, stopped, expired, producer, sutVars, expected, infra,
                   verdictVars>>

\* The first half fails.  A relay whose stop timed out is gone all the same.
FaultCannotBegin(kind) ==
    /\ phase = "running" /\ fault = "none" /\ ~CtxDone /\ injected < MaxInjected
    /\ \/ UNCHANGED env
       \/ kind \in {"restart", "crash"} /\ env.relays > 0 /\ env' = Broken(kind, env)
    /\ infra' = TRUE
    /\ injected' = injected + 1
    /\ UNCHANGED <<phase, stopped, expired, producer, sutVars, expected, fault,
                   verdictVars>>

FaultEnds ==
    /\ fault \in FaultKinds
    /\ env' = Repaired(fault, env)
    /\ fault' = "none"
    /\ UNCHANGED <<phase, stopped, expired, producer, sutVars, expected, injected,
                   infra, verdictVars>>

\* The second half fails: nothing is repaired; or the repair is made and its
\* answer is lost, the ping fails, or the stopped relay had to be killed.
FaultCannotEnd ==
    /\ fault \in FaultKinds
    /\ \/ fault # "join" /\ UNCHANGED env
       \/ fault \in {"outage", "pause", "join"} /\ env' = Repaired(fault, env)
    /\ infra' = (infra \/ ~CtxDone)
    /\ fault' = "none"
    /\ UNCHANGED <<phase, stopped, expired, producer, sutVars, expected, injected,
                   verdictVars>>

\* The context ends while the fault waits.  A crashed relay is not replaced
\* and the injector returns; a pause stays; an extra relay stays; an outage is
\* resumed with a context of its own, whose error is dropped.
FaultAbandoned ==
    /\ fault \in FaultKinds \ {"restart"} /\ CtxDone
    /\ \/ UNCHANGED env
       \/ fault = "outage" /\ env' = Repaired(fault, env)
    /\ fault' = IF fault = "crash" THEN "done" ELSE "none"
    /\ UNCHANGED <<phase, stopped, expired, producer, sutVars, expected, injected,
                   infra, verdictVars>>

InjectorReturns ==
    /\ fault = "none" /\ CtxDone
    /\ fault' = "done"
    /\ UNCHANGED <<phase, stopped, expired, producer, sutVars, expected, env,
                   injected, infra, verdictVars>>

----------------------------------------------------------------------------
(* runSoak *)

OperatorStops ==
    /\ phase \notin {"none", "ended"} /\ ~stopped
    /\ stopped' = TRUE
    /\ UNCHANGED <<phase, expired, producer, sutVars, expected, env, fault, injected,
                   infra, verdictVars>>

DurationEnds ==
    /\ phase = "running" /\ ~expired
    /\ expired' = TRUE
    /\ UNCHANGED <<phase, stopped, producer, sutVars, expected, env, fault, injected,
                   infra, verdictVars>>

\* finish() with "aborted" or "failed": no verdict is taken.  The deferred
\* stopAll follows.
EndWithout(state) ==
    /\ phase' = "ended"
    /\ final' = state
    /\ env' = [env EXCEPT !.relays = 0]
    /\ UNCHANGED <<stopped, expired, producer, sutVars, expected, fault, injected,
                   infra, recovered, target>>

\* emitlane-soak start: its child reads the configuration and enters runSoak.
StartCommand ==
    /\ phase = "none"
    /\ phase' = "initializing"
    /\ UNCHANGED <<stopped, expired, producer, sutVars, expected, env, fault,
                   injected, infra, verdictVars>>

\* startEnvironment, the relays and the consumer.
Initialize ==
    /\ phase = "initializing"
    /\ \/ /\ phase' = "warmup"
          /\ env' = [kafka |-> TRUE, paused |-> FALSE, relays |-> TargetRelays]
          /\ UNCHANGED <<stopped, expired, producer, sutVars, expected, fault,
                         injected, infra, verdictVars>>
       \/ EndWithout("failed")
       \/ stopped /\ EndWithout("aborted")

WarmUp ==
    /\ phase = "warmup"
    /\ \/ /\ phase' = "running"
          /\ UNCHANGED <<stopped, expired, producer, sutVars, expected, env, fault,
                         injected, infra, verdictVars>>
       \/ stopped /\ EndWithout("aborted")

\* <-producerDone and <-faultDone.
StopRunning ==
    /\ phase = "running" /\ CtxDone
    /\ producer.at = "done" /\ fault = "done"
    /\ \/ stopped /\ EndWithout("aborted")
       \/ /\ ~stopped
          /\ phase' = "recovering"
          /\ infra' = (infra \/ producer.failed)
          /\ UNCHANGED <<stopped, expired, producer, sutVars, expected, env, fault,
                         injected, verdictVars>>

Restored(e) == [kafka |-> TRUE, paused |-> FALSE, relays |-> TargetRelays]

\* The restoring half of recover(): Kafka, the pause gate, the relay count.
\* An error at any of them, or between two relays started or stopped to reach
\* the count, leaves the rest as it was and is counted.
Recover ==
    /\ phase = "recovering"
    /\ \/ /\ env' = Restored(env)
          /\ phase' = "draining"
          /\ UNCHANGED <<infra, recovered>>
       \/ /\ \/ env' \in {env, [env EXCEPT !.kafka = TRUE]}
             \/ \E n \in (env.relays..TargetRelays) \cup (TargetRelays..env.relays) :
                   env' = [kafka |-> TRUE, paused |-> FALSE, relays |-> n]
          /\ phase' = "recovered"
          /\ infra' = TRUE
          /\ recovered' = FALSE
    /\ UNCHANGED <<stopped, expired, producer, sutVars, expected, fault, injected,
                   target, final>>

\* queueState reports nothing pending, inflight, dead, blocked or in a gap.
QueueEmpty == \A e \in SoakEvent : rows[e] # "open"

Drained ==
    /\ phase = "draining" /\ QueueEmpty
    /\ phase' = "recovered"
    /\ UNCHANGED <<stopped, expired, producer, sutVars, expected, env, fault,
                   injected, infra, verdictVars>>

\* recoveryCtx ends: its timeout, or the operator.
RecoveryTimesOut ==
    /\ phase = "draining"
    /\ phase' = "recovered"
    /\ recovered' = FALSE
    /\ UNCHANGED <<stopped, expired, producer, sutVars, expected, env, fault,
                   injected, infra, target, final>>

\* relays.stopAll(): every child has been waited for when it returns.
StopAllUnwaited(e) == e
StopAll(e) == [e EXCEPT !.relays = 0]

BeginVerifying ==
    /\ phase = "recovered"
    /\ \/ stopped /\ EndWithout("aborted")
       \/ /\ ~stopped
          /\ env' = StopAll(env)
          /\ phase' = "verifying"
          /\ UNCHANGED <<stopped, expired, producer, sutVars, expected, fault,
                         injected, infra, verdictVars>>

\* auditKafka: the end offsets first, the scan up to them afterwards.
ListEndOffsets ==
    /\ phase = "verifying" /\ env.kafka
    /\ target' = Len(topics)
    /\ phase' = "scanning"
    /\ UNCHANGED <<stopped, expired, producer, sutVars, expected, env, fault,
                   injected, infra, recovered, final>>

ScanTopics ==
    /\ phase = "scanning" /\ ~stopped
    /\ phase' = "checking"
    /\ UNCHANGED <<stopped, expired, producer, sutVars, expected, env, fault,
                   injected, infra, verdictVars>>

\* Either part of the audit fails, or the operator has stopped the run.
AuditFails ==
    /\ phase \in {"verifying", "scanning"}
    /\ \/ stopped /\ EndWithout("aborted")
       \/ /\ ~stopped
          /\ phase' = "checking"
          /\ infra' = TRUE
          /\ recovered' = FALSE
          /\ UNCHANGED <<stopped, expired, producer, sutVars, expected, env, fault,
                         injected, target, final>>

\* observeRecord: duplicates by id are skipped, then the sequence is compared
\* with the highest one seen.
ObserveRecord(v, e) ==
    IF e \in v.seen THEN v
    ELSE [seen |-> v.seen \cup {e},
          last |-> IF e > v.last THEN e ELSE v.last,
          broken |-> \/ v.broken
                     \/ e > 0 /\ v.last # 0 /\ e < v.last
                     \/ e > v.last + 1]

\* auditKafka's verifier after the first n records of the topics, and the one
\* adopted from the audit.
Scan[n \in 0 .. Len(topics)] ==
    IF n = 0 THEN [seen |-> {}, last |-> 0, broken |-> FALSE]
    ELSE ObserveRecord(Scan[n - 1], topics[n])
Observed == Scan[target]

\* verdict(): lost, regressions, skips, the final queue, runner errors (the
\* observed ids nobody is known to have committed are counted among these).
Verdict(queueRead) ==
    /\ expected \subseteq Observed.seen
    /\ Observed.seen \subseteq expected
    /\ ~Observed.broken
    /\ queueRead => QueueEmpty
    /\ ~infra

\* The final integrity check and finish("completed").  finish() drops the
\* error of its own queueState, whose counts are then zero.
CheckAndFinish ==
    /\ phase = "checking"
    /\ \E clean \in BOOLEAN, queueRead \in BOOLEAN :
          final' = IF recovered /\ clean /\ Verdict(queueRead) THEN "completed"
                   ELSE "failed"
    /\ phase' = "ended"
    /\ UNCHANGED <<stopped, expired, producer, sutVars, expected, env, fault,
                   injected, infra, recovered, target>>

----------------------------------------------------------------------------

SoakInit ==
    /\ phase = "none" /\ stopped = FALSE /\ expired = FALSE
    /\ producer = [at |-> "loop", next |-> 1, failed |-> FALSE]
    /\ rows = [e \in SoakEvent |-> "absent"] /\ expected = {} /\ topics = <<>>
    /\ env = [kafka |-> FALSE, paused |-> FALSE, relays |-> 0]
    /\ fault = "none" /\ injected = 0 /\ infra = FALSE
    /\ recovered = TRUE /\ target = 0 /\ final = "none"

ProducerStep ==
    \/ EnqueueUnordered \/ EnqueueOrdered
    \/ EnqueueLaterFirst \/ EnqueueEarlierSecond
    \/ ProducerReturns

InjectorStep == FaultEnds \/ FaultCannotEnd \/ FaultAbandoned \/ InjectorReturns

RunnerStep ==
    \/ Initialize \/ WarmUp \/ StopRunning \/ Recover \/ Drained \/ RecoveryTimesOut
    \/ BeginVerifying \/ ListEndOffsets \/ ScanTopics \/ AuditFails \/ CheckAndFinish

SoakNext ==
    \/ \E e \in SoakEvent : RelayAppends(e) \/ RelaySettles(e)
    \/ \E kind \in FaultKinds : FaultBegins(kind) \/ FaultCannotBegin(kind)
    \/ ProducerStep \/ InjectorStep \/ RunnerStep
    \/ StartCommand \/ OperatorStops \/ DurationEnds

SoakSpec == SoakInit /\ [][SoakNext]_soakVars

----------------------------------------------------------------------------
(* Properties *)

\* The runner's state; while the injector runs, a relay beyond the configured
\* number is that of the membership change under way.
SoakTypeOK ==
    /\ phase \in {"none", "initializing", "warmup", "running", "recovering", "draining",
                  "recovered", "verifying", "scanning", "checking", "ended"}
    /\ rows \in [SoakEvent -> {"absent", "open", "delivered"}]
    /\ expected \subseteq SoakEvent
    /\ env.relays \in 0 .. TargetRelays + 1
    /\ env.relays > TargetRelays => fault = "join" \/ CtxDone
    /\ target <= Len(topics)
    /\ final \in {"none", "completed", "failed", "aborted"}

\* The first records of the stream's events, in topic order.
FirstRecords ==
    LET First(i) == topics[i] > 0 /\ \A j \in 1 .. i - 1 : topics[j] # topics[i]
    IN  {i \in 1 .. Len(topics) : First(i)}

\* What an operator wants of the topics: every acknowledged event is there,
\* nothing else is, and the k-th distinct event of the stream is event k.
TopicsCorrect ==
    /\ {topics[i] : i \in 1 .. Len(topics)} = expected
    /\ \A i \in FirstRecords :
          topics[i] = Cardinality({j \in FirstRecords : j <= i})

\* A run ends "completed" (runSoak, finish, verdict, auditKafka) only if the
\* topics are correct as they stand and nothing is left in the outbox,
\* whatever the relays did, whichever faults were cut short, and even when the
\* last queueState of finish() could not be read.
PassIsEarned == final = "completed" => TopicsCorrect /\ QueueEmpty
=============================================================================
