--------------------------- MODULE RelayMembership ---------------------------
(***************************************************************************)
(* Which relay ends up owning which partition.  Relays announce themselves *)
(* in emitlane.relay_instances, reconcile derives the members from the     *)
(* fresh rows of that table, and rendezvous hashing turns members into     *)
(* desired owners.  OrderingPartitions shows that a handoff is safe        *)
(* whatever desired owners are; here the question is whether ownership     *)
(* settles on relays that are there to use it.                             *)
(*                                                                         *)
(* Time is abstract: a heartbeat turns stale, or a lease expires, at some  *)
(* moment when nobody renews it.  disturbances counts crashes, shutdowns,  *)
(* failed statements and starved renewals; MaxDisturbances bounds them.    *)
(***************************************************************************)
EXTENDS Naturals, FiniteSets

CONSTANTS Instance,        \* relay instance IDs, as numbers in name order
          VPartition,      \* virtual partitions
          Score,           \* ownerScore: [VPartition -> [Instance -> Nat]]
          MaxDisturbances

Nobody == 0
NoView == {Nobody}

ASSUME MembershipConstants ==
    /\ Instance \subseteq Nat \ {Nobody}
    /\ IsFiniteSet(Instance)
    /\ VPartition \subseteq Nat
    /\ Score \in [VPartition -> [Instance -> Nat]]
    /\ MaxDisturbances \in Nat

VARIABLES life,       \* where each relay's Run is
          presence,   \* its row of relay_instances: none, fresh, stale, stopped
          lateBeat,   \* a heartbeat statement outlives the loop that sent it
          view,       \* the members an open reconcile transaction has read
          holder,     \* lease_owner of each partition and whether it is valid
          disturbances

membershipVars == <<life, presence, lateBeat, view, holder, disturbances>>

MembershipTypeOK ==
    /\ life \in [Instance -> {"down", "running", "stopping", "released"}]
    /\ presence \in [Instance -> {"none", "fresh", "stale", "stopped"}]
    /\ lateBeat \in [Instance -> BOOLEAN]
    /\ view \in [Instance -> (SUBSET Instance) \cup {NoView}]
    /\ holder \in [VPartition -> [owner: Instance \cup {Nobody}, valid: BOOLEAN]]
    /\ \A p \in VPartition : holder[p].valid => holder[p].owner # Nobody
    /\ disturbances \in 0..MaxDisturbances

Unheld == [owner |-> Nobody, valid |-> FALSE]
HeldBy(i) == [owner |-> i, valid |-> TRUE]

\* A release clears the owner and the lease.
Released(h) == [h EXCEPT !.owner = Nobody, !.valid = FALSE]

MembershipInit ==
    /\ life = [i \in Instance |-> "down"]
    /\ presence = [i \in Instance |-> "none"]
    /\ lateBeat = [i \in Instance |-> FALSE]
    /\ view = [i \in Instance |-> NoView]
    /\ holder = [p \in VPartition |-> Unheld]
    /\ disturbances = 0

Disturbed == disturbances < MaxDisturbances /\ disturbances' = disturbances + 1
-----------------------------------------------------------------------------
(* Rendezvous hashing.                                                      *)

\* The member the loop of DesiredOwner ends with: the highest score, the
\* smaller name among equals; none for an empty membership.
Beats(p, m, o) == Score[p][m] > Score[p][o] \/ (Score[p][m] = Score[p][o] /\ m < o)
DesiredOwner(p, members) ==
    IF members = {} THEN Nobody
    ELSE CHOOSE m \in members : \A o \in members \ {m} : Beats(p, m, o)

MembersEvenStale == {i \in Instance : presence[i] \in {"fresh", "stale"}}

\* activeOrderingMembers.
Members == {i \in Instance : presence[i] = "fresh"}
-----------------------------------------------------------------------------
(* Run: registration, heartbeats, shutdown.                                 *)

\* RegisterRelay is an upsert.
RunStarts(i) ==
    /\ life[i] = "down"
    /\ life' = [life EXCEPT ![i] = "running"]
    /\ presence' = [presence EXCEPT ![i] = "fresh"]
    /\ UNCHANGED <<lateBeat, view, holder, disturbances>>

\* RegisterRelay fails; Run logs it and goes on, and never tries again.
RunStartsUnregistered(i) ==
    /\ life[i] = "down"
    /\ Disturbed
    /\ life' = [life EXCEPT ![i] = "running"]
    /\ UNCHANGED <<presence, lateBeat, view, holder>>

\* HeartbeatRelay is an UPDATE: it revives a stale or stopped row, and does
\* nothing when there is none.
Beaten(row) == IF row = "none" THEN row ELSE "fresh"

HeartbeatRelay(i) ==
    /\ life[i] = "running"
    /\ presence' = [presence EXCEPT ![i] = Beaten(@)]
    /\ UNCHANGED <<life, lateBeat, view, holder, disturbances>>

\* A heartbeat that was on its way when its loop ended is applied, or dropped.
LateHeartbeat(i) ==
    /\ lateBeat[i]
    /\ lateBeat' = [lateBeat EXCEPT ![i] = FALSE]
    /\ presence' = [presence EXCEPT ![i] = Beaten(@)]
    /\ UNCHANGED <<life, view, holder, disturbances>>

\* ctx is cancelled; runScheduler drains.  The heartbeat loop is not waited for.
RunCancelled(i) ==
    /\ life[i] = "running"
    /\ Disturbed
    /\ life' = [life EXCEPT ![i] = "stopping"]
    /\ \E sent \in BOOLEAN : lateBeat' = [lateBeat EXCEPT ![i] = sent]
    /\ UNCHANGED <<presence, view, holder>>

\* The deferred release.  Run waits ten seconds for orderingLoop first, so a
\* slow reconcile may still be open.
ReleaseOrderingPartitions(i) ==
    /\ life[i] = "stopping"
    /\ life' = [life EXCEPT ![i] = "released"]
    /\ holder' = [p \in VPartition |-> IF holder[p].owner = i THEN Released(holder[p]) ELSE holder[p]]
    /\ UNCHANGED <<presence, lateBeat, view, disturbances>>

ReleaseFailsHere(i) ==
    /\ life[i] = "stopping"
    /\ Disturbed
    /\ life' = [life EXCEPT ![i] = "released"]
    /\ UNCHANGED <<presence, lateBeat, view, holder>>

\* The first deferred call runs last: MarkRelayStopped, then Run returns.
MarkRelayStopped(i) ==
    /\ life[i] = "released"
    /\ life' = [life EXCEPT ![i] = "down"]
    /\ presence' = [presence EXCEPT ![i] = IF @ = "none" THEN @ ELSE "stopped"]
    /\ view' = [view EXCEPT ![i] = NoView]
    /\ UNCHANGED <<lateBeat, holder, disturbances>>

MarkRelayStoppedFails(i) ==
    /\ life[i] = "released"
    /\ Disturbed
    /\ life' = [life EXCEPT ![i] = "down"]
    /\ view' = [view EXCEPT ![i] = NoView]
    /\ UNCHANGED <<presence, lateBeat, holder>>

ProcessDies(i) ==
    /\ life[i] # "down"
    /\ Disturbed
    /\ life' = [life EXCEPT ![i] = "down"]
    /\ \E sent \in BOOLEAN : lateBeat' = [lateBeat EXCEPT ![i] = sent \/ @]
    /\ view' = [view EXCEPT ![i] = NoView]
    /\ UNCHANGED <<presence, holder>>
-----------------------------------------------------------------------------
(* orderingLoop.                                                            *)

\* The transaction reads the members before it locks the partitions.
ReadMembers(i) ==
    /\ life[i] = "running"
    /\ view[i] = NoView
    /\ view' = [view EXCEPT ![i] = Members]
    /\ UNCHANGED <<life, presence, lateBeat, holder, disturbances>>

\* The switch of ReconcileOrderingPartitions: release what others should own,
\* renew, acquire what nobody validly holds.
Reconciled(h, i, desired) ==
    CASE h.owner = i /\ desired # i                -> Released(h)
      [] desired = i /\ (h.owner = i \/ ~h.valid)  -> HeldBy(i)
      [] OTHER                                     -> h

ReconcileCommits(i) ==
    /\ view[i] # NoView
    /\ holder' = [p \in VPartition |-> Reconciled(holder[p], i, DesiredOwner(p, view[i]))]
    /\ view' = [view EXCEPT ![i] = NoView]
    /\ UNCHANGED <<life, presence, lateBeat, disturbances>>

ReconcileRollsBack(i) ==
    /\ view[i] # NoView
    /\ Disturbed \/ (life[i] # "running" /\ UNCHANGED disturbances)
    /\ view' = [view EXCEPT ![i] = NoView]
    /\ UNCHANGED <<life, presence, lateBeat, holder>>
-----------------------------------------------------------------------------
(* Time.  A running relay renews its row and its leases, unless it is       *)
(* disturbed for long enough.                                               *)

PresenceGoesStale(i) ==
    /\ presence[i] = "fresh"
    /\ life[i] # "running"
    /\ presence' = [presence EXCEPT ![i] = "stale"]
    /\ UNCHANGED <<life, lateBeat, view, holder, disturbances>>

LeaseExpires(p) ==
    /\ holder[p].valid
    /\ life[holder[p].owner] # "running"
    /\ holder' = [holder EXCEPT ![p].valid = FALSE]
    /\ UNCHANGED <<life, presence, lateBeat, view, disturbances>>

PresenceLapses(i) ==
    /\ presence[i] = "fresh" /\ life[i] = "running"
    /\ Disturbed
    /\ presence' = [presence EXCEPT ![i] = "stale"]
    /\ UNCHANGED <<life, lateBeat, view, holder>>

LeaseLapsesUnrenewed(p) ==
    /\ holder[p].valid /\ life[holder[p].owner] = "running"
    /\ Disturbed
    /\ holder' = [holder EXCEPT ![p].valid = FALSE]
    /\ UNCHANGED <<life, presence, lateBeat, view>>

MembershipNext ==
    \/ \E i \in Instance : RunStarts(i)
    \/ \E i \in Instance : RunStartsUnregistered(i)
    \/ \E i \in Instance : HeartbeatRelay(i)
    \/ \E i \in Instance : LateHeartbeat(i)
    \/ \E i \in Instance : RunCancelled(i)
    \/ \E i \in Instance : ReleaseOrderingPartitions(i)
    \/ \E i \in Instance : ReleaseFailsHere(i)
    \/ \E i \in Instance : MarkRelayStopped(i)
    \/ \E i \in Instance : MarkRelayStoppedFails(i)
    \/ \E i \in Instance : ProcessDies(i)
    \/ \E i \in Instance : ReadMembers(i)
    \/ \E i \in Instance : ReconcileCommits(i)
    \/ \E i \in Instance : ReconcileRollsBack(i)
    \/ \E i \in Instance : PresenceGoesStale(i)
    \/ \E i \in Instance : PresenceLapses(i)
    \/ \E p \in VPartition : LeaseExpires(p)
    \/ \E p \in VPartition : LeaseLapsesUnrenewed(p)

MembershipSpec == MembershipInit /\ [][MembershipNext]_membershipVars

\* The loops tick, a shutdown is bounded by its timeouts, statements end, and
\* time passes.  Nothing promises that a relay is started or started again.
OrderingLoopStep(i) == ReadMembers(i) \/ ReconcileCommits(i)
ShutdownStep(i) == ReleaseOrderingPartitions(i) \/ MarkRelayStopped(i)

MembershipFairness ==
    /\ \A i \in Instance : WF_membershipVars(OrderingLoopStep(i))
    /\ WF_membershipVars(\E i \in Instance : HeartbeatRelay(i))
    /\ WF_membershipVars(\E i \in Instance : ShutdownStep(i))
    /\ WF_membershipVars(\E i \in Instance : LateHeartbeat(i))
    /\ WF_membershipVars(\E i \in Instance : PresenceGoesStale(i))
    /\ WF_membershipVars(\E p \in VPartition : LeaseExpires(p))

FairMembershipSpec == MembershipSpec /\ MembershipFairness
-----------------------------------------------------------------------------
Running == {i \in Instance : life[i] = "running"}

\* docs/OPERATIONS.md: recovery from a stale relay or a handoff is automatic.
\* Once the cluster is left alone every partition comes to rest, validly leased,
\* with the desired owner among the relays that run and have a presence row,
\* although heartbeats landed after their relay was marked stopped, reconciles
\* committed after their relay released everything, or no shutdown happened.
OwnershipSettles ==
    <>[](LET serving == {i \in Running : presence[i] # "none"}
         IN  serving # {} => \A p \in VPartition : holder[p] = HeldBy(DesiredOwner(p, serving)))

\* relay/store.go: presence failures must never stop delivery because
\* relay_instances is not delivery state.  As long as some relay runs, every
\* partition is eventually in the hands of a running one.
PresenceIsNotDeliveryState ==
    <>[](Running # {} => \A p \in VPartition : holder[p].owner \in Running)
=============================================================================
