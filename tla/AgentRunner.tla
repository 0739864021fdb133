----------------------------- MODULE AgentRunner ----------------------------
(***************************************************************************)
(* bus/runner.rs: one run of an agent by its profile, with the retries for *)
(* an output schema.  What Agent::run (module AgentLoop) returns is one of *)
(* the cases run_once tells apart.                                         *)
(***************************************************************************)
EXTENDS Naturals

CONSTANT MaxSchemaRetries  \* MAX_SCHEMA_RETRIES

VARIABLES
    schema,   \* output_schema: "none", "unusable" or "usable"
    at,       \* "start", "running", "validating", "returned"
    retries,  \* retries done
    output,   \* the last output: "none", "raw", "json" or "conforming"
    verdict   \* what run returns

runnerVars == <<schema, at, retries, output, verdict>>

RunnerInit ==
    /\ schema \in {"none", "unusable", "usable"}
    /\ at = "start"
    /\ retries = 0
    /\ output = "none"
    /\ verdict = "none"

Returns(v) == at' = "returned" /\ verdict' = v

\* A schema that is not JSON, or not a schema, fails before anything runs.
SchemaUnusable ==
    /\ at = "start" /\ schema = "unusable"
    /\ Returns("error")
    /\ UNCHANGED <<schema, retries, output>>

FirstRun ==
    /\ at = "start" /\ schema # "unusable"
    /\ at' = "running"
    /\ UNCHANGED <<schema, retries, output, verdict>>

\* run_once fails on an error event, on text that looks like an error and,
\* with a schema, on empty output and on output that is not JSON.
RunOnceFails ==
    /\ at = "running"
    /\ Returns("error")
    /\ UNCHANGED <<schema, retries, output>>

\* Without a schema, output that is not JSON is wrapped.
RunOnce(o) ==
    /\ at = "running"
    /\ o = "raw" => schema = "none"
    /\ output' = o
    /\ IF schema = "none" THEN Returns("ok")
       ELSE at' = "validating" /\ UNCHANGED verdict
    /\ UNCHANGED <<schema, retries>>

\* Mutant of Validate: whatever the last retry gave is returned.
ValidateTrustsLast ==
    /\ at = "validating"
    /\ IF retries = MaxSchemaRetries \/ output = "conforming" THEN Returns("ok") /\ UNCHANGED retries
       ELSE at' = "running" /\ retries' = retries + 1 /\ UNCHANGED verdict
    /\ UNCHANGED <<schema, output>>

\* Each turn of the loop validates, then retries; the output of the last
\* retry is not validated any more and counts as a failure.
Validate ==
    /\ at = "validating"
    /\ IF retries = MaxSchemaRetries THEN Returns("still fails") /\ UNCHANGED retries
       ELSE IF output = "conforming" THEN Returns("ok") /\ UNCHANGED retries
       ELSE at' = "running" /\ retries' = retries + 1 /\ UNCHANGED verdict
    /\ UNCHANGED <<schema, output>>

RunnerNext ==
    \/ SchemaUnusable
    \/ FirstRun
    \/ RunOnceFails
    \/ \E o \in {"raw", "json", "conforming"} : RunOnce(o)
    \/ Validate

----------------------------------------------------------------------------
(* Properties *)

\* With a schema, run returns only output that was validated against it: no
\* path through the retries lets an unchecked answer reach the handoff rules.
RunnerReturnsValid ==
    verdict = "ok" /\ schema # "none" => output = "conforming"
=============================================================================
