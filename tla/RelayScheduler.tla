--------------------------- MODULE RelayScheduler ---------------------------
(***************************************************************************)
(* The loop of runScheduler in one relay: when it claims, from which class *)
(* of events, and what wakes it.  UnorderedRelay and OrderedDelivery model *)
(* what happens to a claimed event; here only numbers of claimable rows    *)
(* and of busy slots matter.                                               *)
(*                                                                         *)
(* claimAvailable reads the pause flag and then claims from the two        *)
(* classes in separate transactions, so rows arrive and notifications land *)
(* between any two of them.  Time is abstract: a timer may fire whenever   *)
(* the loop waits.  troubles counts pauses and database errors.            *)
(***************************************************************************)
EXTENDS Naturals

CONSTANTS Concurrency,     \* publish slots
          BatchSize,
          MaxReady,        \* bound on claimable rows of a class
          PollInterval,    \* in units of the idle wait
          IdleBackoffMax,
          MaxTroubles

ASSUME SchedulerConstants ==
    /\ Concurrency \in Nat \ {0} /\ BatchSize \in Nat \ {0} /\ MaxReady \in Nat
    /\ PollInterval \in Nat \ {0} /\ IdleBackoffMax \in Nat /\ PollInterval <= IdleBackoffMax
    /\ MaxTroubles \in Nat

Class == {"ordered", "unordered"}
Least(a, b) == IF a <= b THEN a ELSE b

VARIABLES ready,      \* claimable rows of each class
          told,       \* is one of them announced and neither claimed nor given up on?
          wake,       \* the buffer of the wake channel
          halted,     \* emitlane.runtime_control
          at,         \* where the loop is
          slots,      \* active
          finished,   \* completions not yet read
          prefer,     \* preferOrdered
          probe,      \* has orderedProbeAt passed?
          probing,    \* did it when claimAvailable was called?
          took,       \* rows the current or last claim got, by class
          outcome,    \* how the last claim ended
          idleWait,
          troubles

loop == <<slots, prefer, probe, probing, took, outcome, idleWait>>
schedulerVars == <<ready, told, wake, halted, at, finished, loop, troubles>>

SchedulerTypeOK ==
    /\ ready \in [Class -> 0..MaxReady] /\ told \in [Class -> BOOLEAN]
    /\ wake \in BOOLEAN /\ halted \in BOOLEAN
    /\ at \in {"off", "top", "first", "second", "select"}
    /\ slots \in 0..Concurrency /\ finished \in 0..slots
    /\ prefer \in BOOLEAN /\ probe \in BOOLEAN /\ probing \in BOOLEAN
    /\ took \in [Class -> 0..Concurrency]
    /\ outcome \in {"ok", "paused", "error"}
    /\ idleWait \in PollInterval..IdleBackoffMax
    /\ troubles \in 0..MaxTroubles

Nothing == [c \in Class |-> 0]

SchedulerInit ==
    /\ ready = Nothing /\ told = [c \in Class |-> FALSE]
    /\ wake = FALSE /\ halted = FALSE
    /\ at = "off" /\ slots = 0 /\ finished = 0
    /\ prefer = TRUE /\ probe = TRUE /\ probing = FALSE
    /\ took = Nothing /\ outcome = "ok"
    /\ idleWait = PollInterval /\ troubles = 0

Trouble == troubles < MaxTroubles /\ troubles' = troubles + 1
-----------------------------------------------------------------------------
(* claimAvailable and what runScheduler does with its results.              *)

TotalOf(n) == n["ordered"] + n["unordered"]
Limit == Least(BatchSize, Concurrency - slots)

ToggleNever == prefer
Toggle == ~prefer

\* The claim is over: got rows were dispatched, ended in the given way.
ClaimEnds(got, how, probed) ==
    /\ took' = got
    /\ outcome' = how
    /\ prefer' = Toggle
    /\ probe' = (probe /\ ~(probed /\ got["ordered"] = 0))
    /\ slots' = slots + TotalOf(got)
    /\ idleWait' = IF TotalOf(got) > 0 THEN PollInterval
                   ELSE IF how = "ok" /\ slots = 0 THEN Least(IdleBackoffMax, idleWait * 2)
                   ELSE idleWait
    /\ at' = IF TotalOf(got) > 0 THEN "top" ELSE "select"

\* A claim that is refused leaves announced rows to the timer, unless another
\* wakeup is already buffered.
GivenUp == [c \in Class |-> told[c] /\ wake]

\* Run has validated the schema and enters runScheduler.
RunScheduler ==
    /\ at = "off"
    /\ at' = "top"
    /\ UNCHANGED <<ready, told, wake, halted, finished, loop, troubles>>

\* The completions are read; with a free slot the pause flag is read, too.
\* Every outcome but a failed read is one of the three alternatives.
LoopTop ==
    /\ at = "top"
    /\ finished' = 0
    /\ LET busy == slots - finished
       IN  \/ /\ busy = Concurrency
              /\ at' = "select"
              /\ slots' = busy
              /\ UNCHANGED <<told, prefer, probe, probing, took, outcome, idleWait>>
           \/ /\ busy < Concurrency /\ halted
              /\ at' = "select" /\ outcome' = "paused"
              /\ slots' = busy /\ prefer' = Toggle /\ took' = Nothing
              /\ told' = GivenUp
              /\ UNCHANGED <<probe, probing, idleWait>>
           \/ /\ busy < Concurrency /\ ~halted
              /\ at' = "first" /\ probing' = probe
              /\ slots' = busy /\ took' = Nothing
              /\ UNCHANGED <<told, prefer, probe, outcome, idleWait>>
    /\ UNCHANGED <<ready, wake, halted, troubles>>

FirstClass == IF prefer /\ probing THEN "ordered" ELSE "unordered"
SecondClass == IF prefer /\ probing THEN "unordered" ELSE "ordered"

\* Claim or ClaimOrdered takes up to n rows of the class.
Takes(c, n) ==
    /\ ready' = [ready EXCEPT ![c] = @ - Least(n, @)]
    /\ told' = [told EXCEPT ![c] = @ /\ ready'[c] > 0]

FirstClaim ==
    LET n   == Least(Limit, ready[FirstClass])
        got == [took EXCEPT ![FirstClass] = n]
    IN  /\ at = "first"
        /\ Takes(FirstClass, Limit)
        /\ IF n = Limit
           THEN ClaimEnds(got, "ok", FirstClass = "ordered") /\ UNCHANGED probing
           ELSE /\ at' = "second" /\ took' = got
                /\ UNCHANGED <<slots, prefer, probe, probing, outcome, idleWait>>
        /\ UNCHANGED <<wake, halted, finished, troubles>>

SecondClaim ==
    LET n == IF SecondClass = "ordered" /\ ~probing THEN 0 ELSE Limit - TotalOf(took)
        got == [took EXCEPT ![SecondClass] = Least(n, ready[SecondClass])]
    IN  /\ at = "second"
        /\ Takes(SecondClass, n)
        /\ ClaimEnds(got, "ok", probing)
        /\ UNCHANGED <<wake, halted, finished, probing, troubles>>

\* A read or claim fails: rows of the first claim are dispatched all the same.
ClaimErrors ==
    /\ at \in {"first", "second"}
    /\ Trouble
    /\ ClaimEnds(took, "error", at = "second" /\ probing)
    /\ told' = GivenUp
    /\ UNCHANGED <<ready, wake, halted, finished, probing>>
-----------------------------------------------------------------------------
(* The select at the end of an iteration.                                   *)

SelectCompleted ==
    /\ at = "select" /\ finished > 0
    /\ finished' = finished - 1 /\ slots' = slots - 1
    /\ idleWait' = PollInterval
    /\ at' = "top"
    /\ UNCHANGED <<ready, told, wake, halted, prefer, probe, probing, took, outcome, troubles>>

SelectWakeKeepsProbe ==
    /\ at = "select" /\ wake
    /\ wake' = FALSE
    /\ idleWait' = PollInterval
    /\ at' = "top"
    /\ UNCHANGED <<ready, told, halted, finished, slots, prefer, probe, probing, took, outcome, troubles>>

SelectWake ==
    /\ at = "select" /\ wake
    /\ wake' = FALSE
    /\ idleWait' = PollInterval /\ probe' = TRUE
    /\ at' = "top"
    /\ UNCHANGED <<ready, told, halted, finished, slots, prefer, probing, took, outcome, troubles>>

SelectTimer ==
    /\ at = "select"
    /\ at' = "top"
    /\ UNCHANGED <<ready, told, wake, halted, finished, loop, troubles>>
-----------------------------------------------------------------------------
(* Around the loop.                                                         *)

\* A transaction commits a claimable row, or makes one claimable.
RowArrives(c) ==
    /\ ready[c] < MaxReady
    /\ ready' = [ready EXCEPT ![c] = @ + 1]
    /\ UNCHANGED <<told, wake, halted, at, finished, loop, troubles>>

\* The listener passes a row's notification on, if it is connected: a send that
\* never blocks, into a buffer of one.
ListenerSends(c) ==
    /\ ready[c] > 0
    /\ wake' = TRUE
    /\ told' = [told EXCEPT ![c] = TRUE]
    /\ UNCHANGED <<ready, halted, at, finished, loop, troubles>>

HandlerReturns ==
    /\ finished < slots
    /\ finished' = finished + 1
    /\ UNCHANGED <<ready, told, wake, halted, at, loop, troubles>>

ProbeTimePasses ==
    /\ ~probe
    /\ probe' = TRUE
    /\ UNCHANGED <<ready, told, wake, halted, at, finished, slots, prefer, probing, took,
                   outcome, idleWait, troubles>>

OperatorPauses ==
    /\ ~halted /\ halted' = TRUE
    /\ Trouble
    /\ UNCHANGED <<ready, told, wake, at, finished, loop>>

OperatorResumes ==
    /\ halted /\ halted' = FALSE
    /\ UNCHANGED <<ready, told, wake, at, finished, loop, troubles>>

LoopStep ==
    LoopTop \/ FirstClaim \/ SecondClaim \/ SelectCompleted \/ SelectWake \/ SelectTimer

SchedulerNext ==
    \/ RunScheduler
    \/ LoopTop
    \/ FirstClaim
    \/ SecondClaim
    \/ ClaimErrors
    \/ SelectCompleted
    \/ SelectWake
    \/ SelectTimer
    \/ \E c \in Class : RowArrives(c)
    \/ \E c \in Class : ListenerSends(c)
    \/ HandlerReturns
    \/ ProbeTimePasses
    \/ OperatorPauses
    \/ OperatorResumes

SchedulerSpec == SchedulerInit /\ [][SchedulerNext]_schedulerVars

\* The loop runs on its own (its timer is always set), handlers return within
\* their timeouts, and the probe time passes.  No operator has to resume.
SchedulerFairness ==
    /\ WF_schedulerVars(LoopStep)
    /\ WF_schedulerVars(HandlerReturns)
    /\ WF_schedulerVars(ProbeTimePasses)

FairSchedulerSpec == SchedulerSpec /\ SchedulerFairness
-----------------------------------------------------------------------------
\* No notification is lost to a race with the claim in progress: when the loop
\* sits in its select with free slots and nothing to wake it but the timer, and
\* the last claim went through, no row that was announced is left unclaimed.
NoLostWakeup ==
    /\ at = "select" /\ ~wake /\ finished = 0
    /\ slots < Concurrency
    /\ outcome = "ok"
    => \A c \in Class : ~told[c]

\* claimAvailable alternates which class goes first, so that neither class, be
\* it ready all the time and hungry for every slot, keeps the other one out,
\* unless the cluster stays paused: of a scheduler that runs (it never goes off
\* again), a class is always claimed from or found empty later.
NoClassStarves ==
    []<>(~halted /\ at # "off") => \A c \in Class : []<>(ready[c] = 0 \/ took[c] > 0)
=============================================================================
