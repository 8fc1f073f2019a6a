--------------------------- MODULE MCControlPlane ---------------------------
(***************************************************************************)
(* Six components that share no state: partition handoff, listings,        *)
(* migrations, the soak harness, the integrity report and backoff.  Every  *)
(* behaviour picks one of them, which runs alone while the others stay as  *)
(* they began.                                                             *)
(***************************************************************************)
EXTENDS OrderingPartitions, KeysetListing, Migrations, SoakHarness,
        IntegrityReport, Backoff, TLC

CONSTANTS r1, r2, w1, w3

VARIABLE component

\* Two relays with different publish windows, one partition.
MCRelayOf == (w1 :> r1) @@ (w3 :> r2)
MCPublishTimeout == (r1 :> 2) @@ (r2 :> 1)
MCSafetyMargin == (r1 :> 2) @@ (r2 :> 2)
MCOrderingLease == (r1 :> 5) @@ (r2 :> 4)

\* One binary of this repository and one of a later release.
MCBinaryVersion == [m \in Migrator |-> IF m = 1 THEN 4 ELSE 5]

\* Components with several initial states start in one of them when idle.
OneInitialState ==
    /\ component # "listing" => stored = RowKey
    /\ component # "migrations" => history = {}
    /\ component # "report" => ~report.strict
    /\ component # "backoff" => base = 1 /\ maximum = 1

\* Partition rows, the schema history and the soak run keep to their types: no
\* migration the binary does not have is run, and no window is negative.
ControlPlaneTypeOK == TypeOK /\ MigrationsTypeOK /\ SoakTypeOK

ControlPlaneInit ==
    /\ component \in {"partitions", "listing", "migrations", "soak", "report", "backoff"}
    /\ Init /\ ListingInit /\ MigrationsInit /\ SoakInit /\ ReportInit /\ BackoffInit
    /\ OneInitialState

ControlPlaneNext ==
    /\ UNCHANGED component
    /\ \/ /\ component = "partitions" /\ Next
          /\ UNCHANGED <<listingVars, migrationVars, soakVars, reportVars, backoffVars>>
       \/ /\ component = "listing" /\ ListingNext
          /\ UNCHANGED <<vars, migrationVars, soakVars, reportVars, backoffVars>>
       \/ /\ component = "migrations" /\ MigrationsNext
          /\ UNCHANGED <<vars, listingVars, soakVars, reportVars, backoffVars>>
       \/ /\ component = "soak" /\ SoakNext
          /\ UNCHANGED <<vars, listingVars, migrationVars, reportVars, backoffVars>>
       \/ /\ component = "report" /\ ReportNext
          /\ UNCHANGED <<vars, listingVars, migrationVars, soakVars, backoffVars>>
       \/ /\ component = "backoff" /\ BackoffNext
          /\ UNCHANGED <<vars, listingVars, migrationVars, soakVars, reportVars>>

ControlPlaneSpec ==
    /\ ControlPlaneInit
    /\ [][ControlPlaneNext]_<<component, vars, listingVars, migrationVars, soakVars,
                              reportVars, backoffVars>>
=============================================================================
