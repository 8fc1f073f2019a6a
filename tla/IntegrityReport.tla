--------------------------- MODULE IntegrityReport ---------------------------
(***************************************************************************)
(* One run of `emitlane integrity check`: the schema first, then the six   *)
(* checks in the order of Verifier.Check, over one read-only snapshot;     *)
(* the findings accumulate into a report of bounded length, and the report *)
(* into an exit code.  Which findings a check makes is left open here (the *)
(* rules are those of IntegrityRules); a finding is its code.              *)
(***************************************************************************)
EXTENDS IntegrityRules, Naturals, Sequences

CONSTANTS
    MaxFindings,        \* Config.MaxFindings
    MaxMade             \* bound: findings made in one check

ASSUME ReportConstants == MaxFindings \in Nat \ {0} /\ MaxMade \in Nat

VARIABLES
    stage,              \* 0: schema, 1 .. 6: the checks, 7: finish, 8: exited
    report,             \* the accumulator: counts, findings, truncated
    made,               \* every finding made, in order
    usable,             \* checkSchema's runtimeReady
    exitCode            \* of the command; 0 until it has exited

reportVars == <<stage, report, made, usable, exitCode>>

\* checkSchema and the list of checks in Check, with the codes they may report.
CheckCodes ==
    << {"RUNTIME_CONTROL_INVALID"},
       {"PARTITION_COUNT_INVALID", "PARTITION_OWNER_STALE"},
       {"RELAY_PRESENCE_STALE"},
       {"STALE_EVENT_LEASE", "ACTIVE_SEQUENCE_BEHIND_CURSOR"},
       {"INBOX_RETRY_WAIT", "INBOX_STATE_INVALID"},
       {"STREAM_GAP", "EXPECTED_SEQUENCE_DUPLICATE"} >>

\* accumulator.add; the first is one that stops counting when the list is full.
AddUntilFull(r, code) ==
    IF Len(r.findings) >= MaxFindings THEN [r EXCEPT !.truncated = TRUE]
    ELSE [r EXCEPT !.warnings = @ + (IF code \in Warnings THEN 1 ELSE 0),
                   !.violations = @ + (IF code \in Violations THEN 1 ELSE 0),
                   !.findings = Append(@, code)]
Add(r, code) ==
    [r EXCEPT !.warnings = @ + (IF code \in Warnings THEN 1 ELSE 0),
              !.violations = @ + (IF code \in Violations THEN 1 ELSE 0),
              !.findings = IF Len(@) < MaxFindings THEN Append(@, code) ELSE @,
              !.truncated = @ \/ Len(r.findings) >= MaxFindings]

MakeFinding(code) ==
    /\ Len(made) < MaxMade
    /\ report' = Add(report, code)
    /\ made' = Append(made, code)

\* checkSchema: a missing index or constraint and a wrong version are reported;
\* a missing table or column also makes the other checks impossible.
SchemaFinding(blocking) ==
    /\ stage = 0
    /\ MakeFinding("SCHEMA_VERSION_MISMATCH")
    /\ usable' = (usable /\ ~blocking)
    /\ UNCHANGED <<stage, exitCode>>

SchemaChecked ==
    /\ stage = 0
    /\ stage' = IF usable THEN 1 ELSE 7
    /\ UNCHANGED <<report, made, usable, exitCode>>

CheckFinding(code) ==
    /\ stage \in 1 .. 6 /\ code \in CheckCodes[stage]
    /\ MakeFinding(code)
    /\ UNCHANGED <<stage, usable, exitCode>>

CheckDone ==
    /\ stage \in 1 .. 6
    /\ stage' = stage + 1
    /\ UNCHANGED <<report, made, usable, exitCode>>

\* A query or the commit fails, or a timeout expires: no report at all.
CheckFails ==
    /\ stage < 8
    /\ stage' = 8
    /\ exitCode' = 1
    /\ UNCHANGED <<report, made, usable>>

ExitCode(r, strict) ==
    IF r.violations > 0 \/ (strict /\ r.warnings > 0) THEN 2 ELSE 0

\* finish() and the command's exit; report.strict is its --strict flag.
Report ==
    /\ stage = 7
    /\ stage' = 8
    /\ exitCode' = ExitCode(report, report.strict)
    /\ report' = [report EXCEPT !.result = CASE report.violations > 0 -> "violations"
                                             [] report.violations = 0 /\ report.warnings > 0 -> "warnings"
                                             [] OTHER -> "clean"]
    /\ UNCHANGED <<made, usable>>

ReportInit ==
    /\ stage = 0 /\ made = <<>> /\ usable = TRUE /\ exitCode = 0
    /\ report \in [warnings : {0}, violations : {0}, findings : {<<>>},
                   truncated : {FALSE}, result : {"none"}, strict : BOOLEAN]

ReportNext ==
    \/ \E blocking \in BOOLEAN : SchemaFinding(blocking)
    \/ SchemaChecked
    \/ \E code \in Warnings \cup Violations : CheckFinding(code)
    \/ CheckDone \/ CheckFails \/ Report

ReportSpec == ReportInit /\ [][ReportNext]_reportVars
-----------------------------------------------------------------------------
\* What was made, by severity.
MadeOf(severity) == {i \in 1 .. Len(made) : made[i] \in severity}

\* The command succeeds, and the report says "clean" or "warnings", only when
\* no check was skipped and none made a violation (with --strict: a warning),
\* however many findings the report had no room to list (accumulator.add,
\* finish, ExitCode); and a report that is not truncated lists them all.
ReportIsHonest ==
    /\ stage = 8 /\ exitCode # 1 =>
          /\ exitCode = 0 <=> MadeOf(Violations) = {}
                              /\ (report.strict => MadeOf(Warnings) = {})
          /\ report.result = "clean" <=> made = <<>>
          /\ exitCode = 0 => usable
    /\ report.findings = IF report.truncated THEN SubSeq(made, 1, MaxFindings) ELSE made
=============================================================================
