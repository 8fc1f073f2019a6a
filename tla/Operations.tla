----------------------------- MODULE Operations -----------------------------
(* The audited operator requests of the admin API and the CLI: pause and    *)
(* resume, retry of a dead event, replay of one event or of a batch. Each   *)
(* is one PostgreSQL transaction run by an operator session; sessions       *)
(* interleave with each other, with relays settling rows and with cleanup,  *)
(* and a transaction may fail at any statement, or commit without its       *)
(* answer reaching the operator.                                            *)
EXTENDS Naturals, FiniteSets

CONSTANTS
    EventId,        \* the outbox rows written by applications, numbers 1..n
    OrderedId,      \* those with an ordering key
    ReplayLimit,    \* filter.Limit of a batch replay
    MaxRequests     \* bound: requests in a behaviour

ASSUME OperationsConstants ==
    /\ IsFiniteSet(EventId) /\ EventId = 1 .. Cardinality(EventId)
    /\ OrderedId \subseteq EventId
    /\ ReplayLimit \in Nat \ {0} /\ MaxRequests \in Nat

VARIABLES
    outbox,    \* id -> [status, created, from, batch, ordered], for the stored rows
    control,   \* runtime_control.paused
    auditLog,  \* admin_audit_log: records [request, action, count]
    session,   \* request number -> the session serving it (HTTP handler, CLI process)
    begun,     \* requests begun so far; a request's number is its transaction's NOW()
    lastId     \* UUIDv7 generator: the last event id handed out

operationsVars == <<outbox, control, auditLog, session, begun, lastId>>

Session == 1 .. MaxRequests
Terminal == {"delivered", "dead"}
Mode == {"", "unordered"}

\* What normalizeMutation and normalizeEventFilter let through to the store.
Requests ==
    [op : {"pause"}, value : BOOLEAN]
        \cup [op : {"retry"}, target : 1 .. lastId]
        \cup [op : {"replay"}, target : 1 .. lastId, mode : Mode]
        \cup [op : {"batch"}, statuses : (SUBSET Terminal) \ {{}}, mode : Mode]

IdleSession == [state |-> "idle", shared |-> {}, updating |-> {}]
Answered(code, created) ==
    [state |-> "answered", code |-> code, created |-> created, shared |-> {}, updating |-> {}]

\* ORDER BY created_at DESC, id DESC.
Newer(i, j) ==
    \/ outbox[i].created > outbox[j].created
    \/ outbox[i].created = outbox[j].created /\ i > j
Newest(rows, n) == {i \in rows : Cardinality({j \in rows : Newer(j, i)}) < n}

\* Row locks; row 0 stands for the single row of runtime_control.
ControlRow == 0
ShareLocked(i) == \E s \in Session : i \in session[s].shared
UpdateLocked(i) == \E s \in Session : i \in session[s].updating

-----------------------------------------------------------------------------
(* Relays and cleanup, as far as operators see them.                        *)

Settle(i, status) ==
    /\ outbox[i].status = "pending"
    /\ outbox' = [outbox EXCEPT ![i].status = status]
    /\ UNCHANGED <<control, auditLog, session, begun, lastId>>

\* SKIP LOCKED passes over a row that a replay or a retry has locked.
CleanupRow(i) ==
    /\ outbox[i].status = "delivered" /\ ~ShareLocked(i) /\ ~UpdateLocked(i)
    /\ outbox' = [j \in DOMAIN outbox \ {i} |-> outbox[j]]
    /\ UNCHANGED <<control, auditLog, session, begun, lastId>>

-----------------------------------------------------------------------------
(* A request, from its arrival to its answer.                               *)

BeginRequest(s, r) ==
    /\ s = begun + 1
    /\ begun' = s
    /\ session' = [session EXCEPT ![s] =
         [state |-> "open", ask |-> r, stage |-> "select",
          shared |-> {}, todo |-> {}, clones |-> {}, updating |-> {}]]
    /\ UNCHANGED <<outbox, control, auditLog, lastId>>

\* Returning an error runs the deferred Rollback, which drops the locks.
AnswerAbort(s, code) == session' = [session EXCEPT ![s] = Answered(code, 0)]

\* UPDATE runtime_control waits for another session's uncommitted update.
SelectControl(s) ==
    /\ session[s].ask.op = "pause"
    /\ ~UpdateLocked(ControlRow)
    /\ session' = [session EXCEPT ![s].stage = "write", ![s].updating = {ControlRow}]

\* SELECT ... FOR UPDATE waits for the share locks of a replay as for another retry.
SelectDeadBarges(i) == UpdateLocked(i)
SelectDeadBlocked(i) == ShareLocked(i) \/ UpdateLocked(i)
SelectDead(s) ==
    LET i == session[s].ask.target
    IN  /\ session[s].ask.op = "retry"
        /\ ~SelectDeadBlocked(i)
        /\ \/ i \notin DOMAIN outbox /\ AnswerAbort(s, "event_not_found")
           \/ /\ i \in DOMAIN outbox /\ outbox[i].status # "dead"
              /\ AnswerAbort(s, "invalid_event_state")
           \/ /\ i \in DOMAIN outbox /\ outbox[i].status = "dead"
              /\ session' = [session EXCEPT ![s].stage = "write", ![s].updating = {i}]

\* SELECT ... FOR SHARE of the sources of a replay.
SharesSources(s, sources) ==
    session' = [session EXCEPT ![s].stage = "clone", ![s].shared = sources, ![s].todo = sources]

SelectSource(s) ==
    LET i == session[s].ask.target
    IN  /\ session[s].ask.op = "replay"
        /\ ~UpdateLocked(i)
        /\ \/ i \notin DOMAIN outbox /\ AnswerAbort(s, "event_not_found")
           \/ /\ i \in DOMAIN outbox /\ outbox[i].status \notin Terminal
              /\ AnswerAbort(s, "invalid_event_state")
           \/ /\ i \in DOMAIN outbox /\ outbox[i].status \in Terminal
              /\ SharesSources(s, {i})

\* SELECT ... LIMIT n FOR SHARE of a batch: what matches in the statement's
\* snapshot. The rows are locked afterwards.
SelectBatch(s) ==
    /\ session[s].ask.op = "batch"
    /\ session' = [session EXCEPT ![s].stage = "lock",
         ![s].todo = {i \in DOMAIN outbox : outbox[i].status \in session[s].ask.statuses}]

SelectRows(s) ==
    /\ session[s].state = "open" /\ session[s].stage = "select"
    /\ SelectControl(s) \/ SelectDead(s) \/ SelectSource(s) \/ SelectBatch(s)
    /\ UNCHANGED <<outbox, control, auditLog, begun, lastId>>

\* The rows of the snapshot that are still to be visited and still there, and
\* the end of the statement: none is left, or LIMIT is reached.
Unvisited(s) == session[s].todo \cap DOMAIN outbox
FetchedAll(s) == Unvisited(s) = {} \/ Cardinality(session[s].shared) = ReplayLimit + 1

\* One row at a time, newest first, holding the earlier ones: a row locked for
\* update is waited for, and returned only if its latest version still matches.
\* The mutant locks FOR UPDATE, in no particular order.
LockSourceExclusive(s) ==
    /\ ~FetchedAll(s)
    /\ \E i \in Unvisited(s) :
         /\ ~ShareLocked(i) /\ ~UpdateLocked(i)
         /\ LET found == {j \in {i} : outbox[j].status \in session[s].ask.statuses}
            IN  session' = [session EXCEPT ![s].todo = @ \ {i}, ![s].shared = @ \cup found,
                                           ![s].updating = @ \cup found]
LockSource(s) ==
    /\ ~FetchedAll(s)
    /\ \E i \in Newest(Unvisited(s), 1) :
         /\ ~UpdateLocked(i)
         /\ session' = [session EXCEPT ![s].todo = @ \ {i},
              ![s].shared = IF outbox[i].status \in session[s].ask.statuses THEN @ \cup {i} ELSE @]

\* len(sources) of the rows that were returned.
OverFetched(sources) == Cardinality(sources) > ReplayLimit + 1
OverLimit(sources) == Cardinality(sources) > ReplayLimit
CountSources(s) ==
    LET sources == session[s].shared
    IN  /\ FetchedAll(s)
        /\ \/ sources = {} /\ AnswerAbort(s, "not_found")
           \/ OverLimit(sources) /\ AnswerAbort(s, "replay_limit_exceeded")
           \/ /\ sources # {} /\ ~OverLimit(sources)
              /\ SharesSources(s, sources)

LockRows(s) ==
    /\ session[s].state = "open" /\ session[s].stage = "lock"
    /\ LockSource(s) \/ CountSources(s)
    /\ UNCHANGED <<outbox, control, auditLog, begun, lastId>>

\* What the transaction's statements leave in outbox_events.
Written(s) ==
    LET me == session[s]
    IN  [i \in DOMAIN outbox \cup {c.id : c \in me.clones} |->
           IF i \notin DOMAIN outbox
           THEN [status |-> "pending", created |-> s, batch |-> s,
                 ordered |-> FALSE, from |-> (CHOOSE c \in me.clones : c.id = i).from]
           ELSE IF me.ask.op = "retry" /\ i = me.ask.target
                THEN [outbox[i] EXCEPT !.status = "pending"]
                ELSE outbox[i]]

\* The deferred Rollback leaves the table as it was.
RollbackKeepsClones(s) == Written(s)
AfterRollback(s) == outbox

\* cloneReplay, one source at a time, newest first.
CloneReplay(s) ==
    /\ session[s].state = "open" /\ session[s].stage = "clone" /\ session[s].todo # {}
    /\ \E i \in Newest(session[s].todo, 1) :
         \/ /\ outbox[i].ordered /\ session[s].ask.mode # "unordered"
            /\ AnswerAbort(s, "invalid_event_state")
            /\ outbox' = AfterRollback(s)
            /\ UNCHANGED lastId
         \/ /\ outbox[i].ordered => session[s].ask.mode = "unordered"
            /\ lastId' = lastId + 1
            /\ session' = [session EXCEPT ![s].todo = @ \ {i},
                                          ![s].clones = @ \cup {[id |-> lastId', from |-> i]}]
            /\ UNCHANGED outbox
    /\ UNCHANGED <<control, auditLog, begun>>

\* insertAudit, pg_notify and Commit. The answer may be lost on its way: the
\* operator then sees a failure of a request that was carried out.
Commit(s, code) ==
    LET me == session[s]
    IN  /\ me.state = "open"
        /\ \/ me.stage = "write"
           \/ me.stage = "clone" /\ me.todo = {}
        /\ outbox' = Written(s)
        /\ control' = (IF me.ask.op = "pause" THEN me.ask.value ELSE control)
        /\ auditLog' = auditLog \cup
             {[request |-> s, action |-> me.ask.op, count |-> Cardinality(me.clones)]}
        /\ session' = [session EXCEPT ![s] = Answered(code, Cardinality(me.clones))]
        /\ UNCHANGED <<begun, lastId>>

\* A statement fails, the request's deadline passes or the process dies.
TransactionFails(s) ==
    /\ session[s].state = "open"
    /\ AnswerAbort(s, "internal")
    /\ outbox' = AfterRollback(s)
    /\ UNCHANGED <<control, auditLog, begun, lastId>>

-----------------------------------------------------------------------------
OperationsInit ==
    /\ outbox \in [EventId -> [status : {"pending"} \cup Terminal, created : {0},
                               from : {0}, batch : {0}, ordered : BOOLEAN]]
    /\ \A i \in EventId : outbox[i].ordered <=> i \in OrderedId
    /\ control = FALSE
    /\ auditLog = {}
    /\ session = [s \in Session |-> IdleSession]
    /\ begun = 0
    /\ lastId = Cardinality(EventId)

SessionProceeds(s) ==
    SelectRows(s) \/ LockRows(s) \/ CloneReplay(s) \/ Commit(s, "ok")

OperationsNext ==
    \/ \E i \in DOMAIN outbox : \E status \in Terminal : Settle(i, status)
    \/ \E i \in DOMAIN outbox : CleanupRow(i)
    \/ \E s \in Session :
         \/ \E r \in Requests : BeginRequest(s, r)
         \/ SessionProceeds(s) \/ Commit(s, "internal") \/ TransactionFails(s)

OperationsSpec == OperationsInit /\ [][OperationsNext]_operationsVars
OperationsFairness == \A s \in Session : WF_operationsVars(SessionProceeds(s))
FairOperationsSpec == OperationsSpec /\ OperationsFairness

-----------------------------------------------------------------------------
(* Type invariant.                                                          *)
OperationsTypeOK ==
    /\ DOMAIN outbox \subseteq 1 .. lastId
    /\ \A i \in DOMAIN outbox :
         /\ outbox[i].status \in {"pending"} \cup Terminal
         /\ outbox[i].created \in 0 .. begun /\ outbox[i].batch \in 0 .. begun
         /\ outbox[i].from \in 0 .. lastId /\ outbox[i].ordered \in BOOLEAN
    /\ control \in BOOLEAN
    /\ \A a \in auditLog : a.request \in 1 .. begun /\ a.count \in 0 .. ReplayLimit
    /\ \A s \in Session : session[s].state \in {"idle", "open", "answered"}

\* Replay rows become visible only as a whole audited batch: a step that adds
\* rows to the outbox adds exactly one audit record, whose count is the number
\* of rows added, all of one new batch and each from a different source
\* (ReplayEvent, ReplayBatch; REPLAY.md: "A failure cannot leave a partially
\* created, unaudited batch").
ReplayIsWholeAndAudited ==
    [][LET added == DOMAIN outbox' \ DOMAIN outbox
       IN  added # {} =>
           \E a \in auditLog' \ auditLog :
             /\ auditLog' = auditLog \cup {a}
             /\ a.count = Cardinality(added)
             /\ \A i \in added : outbox'[i].batch = a.request
             /\ \A i, j \in added : outbox'[i].from = outbox'[j].from => i = j]_operationsVars

\* Every source of a replay is still stored, and still delivered or dead, when
\* its clone becomes visible, although it was chosen statements earlier and
\* retries and cleanup run meanwhile (the FOR SHARE of ReplayEvent and
\* ReplayBatch): a replay never copies an event that is itself on its way.
SourceOutlastsReplay ==
    [][\A i \in DOMAIN outbox' \ DOMAIN outbox :
          LET source == outbox'[i].from
          IN  source \in DOMAIN outbox /\ outbox[source].status \in Terminal]_operationsVars

\* An answer tells the operator the truth: after a success the mutation is in
\* the audit log with the count that was reported, and after a refusal (404 or
\* 409) nothing the request did is visible. Only the answer to a failure
\* ("internal") leaves it open (Service and serviceError).
AnswerTellsTruth ==
    \A s \in Session : session[s].state = "answered" =>
        CASE session[s].code = "ok" ->
                   \E a \in auditLog : a.request = s /\ a.count = session[s].created
              [] session[s].code = "internal" -> TRUE
              [] OTHER -> /\ \A a \in auditLog : a.request # s
                          /\ \A i \in DOMAIN outbox : outbox[i].batch # s

\* Session s waits for a row that t has locked.
WaitsFor(s, t) ==
    /\ session[s].state = "open"
    /\ \/ /\ session[s].stage = "select" /\ session[s].ask.op = "pause"
          /\ ControlRow \in session[t].updating
       \/ /\ session[s].stage = "select" /\ session[s].ask.op = "retry"
          /\ session[s].ask.target \in session[t].shared \cup session[t].updating
       \/ /\ session[s].stage = "select" /\ session[s].ask.op = "replay"
          /\ session[s].ask.target \in session[t].updating
       \/ /\ session[s].stage = "lock" /\ ~FetchedAll(s)
          /\ Newest(Unvisited(s), 1) \cap session[t].updating # {}

\* A batch replay keeps the rows it has locked while it waits for the next one,
\* and a retry may in turn wait for the batch; but whoever the batch waits for
\* (a retry that has its only row) waits for nobody. So waits never form a
\* circle, whatever rows the requests have in common (ReplayBatch,
\* RetryDeadAudited).
NoCircularWait ==
    \A s, t, u, v \in Session : ~(WaitsFor(s, t) /\ WaitsFor(t, u) /\ WaitsFor(u, v))

\* Every request is answered, and no transaction has to fail for it: a batch
\* replay locks its sources one after the other, and retries and replays wait
\* for each other's rows, but never in a circle that PostgreSQL's deadlock
\* detection or a deadline would have to break; and a request that is refused or
\* fails lets go of its locks (ReplayBatch, RetryDeadAudited, deferred Rollback).
RequestsAnswered == <>[](\A s \in Session : session[s].state # "open")
=============================================================================
