-------------------------- MODULE OrderedIntegrity --------------------------
(***************************************************************************)
(* What the integrity verifier and the admin API say about the states that *)
(* ordered delivery passes through.  Check runs in one REPEATABLE READ     *)
(* transaction, so it sees one state of OrderedDelivery; it takes no step. *)
(***************************************************************************)
EXTENDS OrderedDelivery, IntegrityRules

\* The ordered rows that exist, with the columns the verifier reads.
EventRecord(st, n) ==
    [status |-> event[st][n].status, until |-> event[st][n].until,
     available |-> event[st][n].available, fields |-> OrderingFields,
     seq |-> n, partition |-> PartitionOf[st]]
Rows(st) ==
    {EventRecord(st, n) : n \in {m \in Seqs : event[st][m].status \notin {"absent", "deleted"}}}

ActiveRows(st) == {e \in Rows(st) : e.status \in Active}

\* The state of a stream for the verifier, and for the admin API.
VerifierState(st) ==
    ClassifyCursor({e \in ActiveRows(st) : e.seq = stream[st].next},
                   \E e \in ActiveRows(st) : e.seq > stream[st].next, now)
AdminState(st) ==
    AdminStreamState({e \in Rows(st) : e.seq = stream[st].next},
                     \E e \in Rows(st) : e.seq > stream[st].next, now)

\* Check over the ordering tables: checkPartitions, checkEvents on the rows its
\* mode reads, and checkStreams.
CheckPartitions(present, old) ==
    UNION {PartitionFindings(part[p].owner # NoOwner, part[p], present, old, now) :
              p \in Partition}
CheckEvents(full) ==
    UNION {UNION {EventFindings(e, stream[st].next, PartitionOf[st], now) :
                     e \in {r \in Rows(st) : EventScope(full, r)}} : st \in Stream}
CheckStreams ==
    UNION {StreamFindings([partition |-> PartitionOf[st], start |-> stream[st].start,
                           next |-> stream[st].next],
                          {e \in ActiveRows(st) : e.seq = stream[st].next},
                          VerifierState(st), PartitionOf[st]) :
              st \in {s \in Stream : stream[s].start # 0}}
-----------------------------------------------------------------------------
\* docs/INTEGRITY.md: a violation is a durable state that should be impossible
\* while the protocol's invariants hold.  Whatever relays, writers, operators
\* and cleanup are in the middle of, neither mode reports one.
VerifierFindsNoViolation ==
    /\ \A present, old \in BOOLEAN : CheckPartitions(present, old) \cap Violations = {}
    /\ \A full \in BOOLEAN : CheckEvents(full) \cap Violations = {}
    /\ CheckStreams \cap Violations = {}

\* The two views an operator has of a stream, integrity.ClassifyCursor over the
\* active rows and the admin API's query over all rows, never contradict each
\* other; the API says ready where the verifier says idle.
ViewsAgree ==
    \A st \in Stream :
        stream[st].start # 0 =>
            AdminState(st) = (IF VerifierState(st) = "idle" THEN "ready" ELSE VerifierState(st))

\* A stream blocked by a dead event stays where it is until an operator retries
\* that event: no late result, cleanup, writer or ownership change unblocks or
\* advances it.
DeadBlocksStream ==
    [][\A st \in Stream :
          stream[st].start # 0 /\ VerifierState(st) = "dead_blocked" =>
              /\ stream'[st] = stream[st]
              /\ \/ event'[st][stream[st].next] = event[st][stream[st].next]
                 \/ event'[st][stream[st].next] = Unleased("pending", 0, now)]_<<event, stream>>

\* A partition the admin API shows as owned is past its handoff barrier: only
\* its owner's publishes can still reach the broker.
OwnedMeansExclusive ==
    \A p \in Partition, w \in Worker :
        /\ AdminPartitionState(part[p].owner # NoOwner, part[p], now) = "owned"
        /\ InFlight(w) /\ attempt[w].partition = p
        => RelayOf[w] = part[p].owner
=============================================================================
