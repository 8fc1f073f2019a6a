----------------------------- MODULE MCProgress -----------------------------
(***************************************************************************)
(* What eventually happens around delivery, in three components that share *)
(* no state: every behaviour picks one of them, which runs alone while the *)
(* others stay as they began, where no fair step of theirs is enabled.     *)
(***************************************************************************)
EXTENDS RelayMembership, RelayScheduler, Operations, TLC

VARIABLE component

MCScore == [p \in VPartition |-> [i \in Instance |-> i]]

\* The three components keep to their types: no more handlers than slots, no
\* batch beyond its limit, no owner without a lease.
ProgressTypeOK == MembershipTypeOK /\ SchedulerTypeOK /\ OperationsTypeOK

ProgressInit ==
    /\ component \in {"membership", "scheduler", "operations"}
    /\ MembershipInit /\ SchedulerInit /\ OperationsInit
    /\ component # "operations" => \A i \in EventId : outbox[i].status = "dead"

ProgressNext ==
    /\ UNCHANGED component
    /\ \/ /\ component = "membership" /\ MembershipNext
          /\ UNCHANGED <<schedulerVars, operationsVars>>
       \/ /\ component = "scheduler" /\ SchedulerNext
          /\ UNCHANGED <<membershipVars, operationsVars>>
       \/ /\ component = "operations" /\ OperationsNext
          /\ UNCHANGED <<membershipVars, schedulerVars>>

\* MembershipFairness, SchedulerFairness and OperationsFairness, asked of the
\* component that runs.
ProgressFairness ==
    /\ \A i \in Instance : WF_membershipVars(component = "membership" /\ OrderingLoopStep(i))
    /\ WF_membershipVars(component = "membership" /\ \E i \in Instance : HeartbeatRelay(i))
    /\ WF_membershipVars(component = "membership" /\ \E i \in Instance : ShutdownStep(i))
    /\ WF_membershipVars(component = "membership" /\ \E i \in Instance : LateHeartbeat(i))
    /\ WF_membershipVars(component = "membership" /\ \E i \in Instance : PresenceGoesStale(i))
    /\ WF_membershipVars(component = "membership" /\ \E p \in VPartition : LeaseExpires(p))
    /\ WF_schedulerVars(component = "scheduler" /\ LoopStep)
    /\ WF_schedulerVars(component = "scheduler" /\ HandlerReturns)
    /\ WF_schedulerVars(component = "scheduler" /\ ProbeTimePasses)
    /\ \A s \in Session : WF_operationsVars(component = "operations" /\ SessionProceeds(s))

ProgressSpec ==
    /\ ProgressInit
    /\ [][ProgressNext]_<<component, membershipVars, schedulerVars, operationsVars>>
    /\ ProgressFairness
=============================================================================
