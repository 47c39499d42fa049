----------------------------- MODULE ScenarioBatch -----------------------------
(***************************************************************************)
(* The runner of the first versions: scripts/run-batch.mjs runs a scenario *)
(* several times through scripts/run-scenario.mjs, that is one container   *)
(* per attempt under runCommand (src/process.mjs), classified by           *)
(* src/classify.mjs and aggregated by src/batch.mjs.  In the container     *)
(* harness/entrypoint.mjs starts vitest on a file with one scenario        *)
(* (harness/scenario.mjs), whose markers reach the host as its log.        *)
(* scripts/run-digest.mjs reads the batch and lists its candidates.  Each  *)
(* of the three scripts reads the next one through runCommand, so that     *)
(* each output is cut at MAX_LOG_LENGTH: the log of a container, the       *)
(* evidence of an attempt and the batch.                                   *)
(*                                                                         *)
(* Time is not counted: the host's timer and vitest's test timeout may     *)
(* fire at any moment while they are set.  A log is its markers and the    *)
(* other output ("noise") in the order they were printed, one unit each.   *)
(***************************************************************************)
EXTENDS Integers, Sequences, FiniteSets

CONSTANTS
  attempts,        \* --runs
  MaxLogLength,    \* MAX_LOG_LENGTH, in units of a marker
  Signatures       \* bound: the violations of the oracle that can be told apart

ASSUME BatchAssumption ==
  /\ attempts \in Nat \ {0}
  /\ MaxLogLength \in Nat \ {0}
  /\ Signatures \cap {"none", "noise", "P1", "P2", "P3", "P4", "CONTROL_FAILURE"} = {}

VARIABLES
  \* the scenario in its container
  body,        \* where the test function is
  control,     \* what the control did
  oracle,      \* what the assertion did
  observed,    \* the signature of its violation
  test,        \* vitest's verdict of the test, "timed out" when it gave it up
  container,
  exitCode,    \* of the container, or of the client when it is closed
  \* runCommand
  log,         \* stdout
  lost,        \* stdout.truncated
  client,      \* the docker client: "running", "closed", or "failed" to start
  timedOut,
  cleanup,     \* cleanupPromise: "none", "running", "removed", "failed"
  run,         \* how it was classified
  \* run-batch
  evidences,   \* of the attempts that are over
  aggregate,   \* of the scenario
  \* run-digest
  digest       \* the scenario is "listed", "excluded", or there is no digest: "failed"

scenarioVars == <<body, control, oracle, observed, test>>
hostVars == <<client, timedOut, cleanup, run>>
batchVars == <<evidences, aggregate, digest>>
vars == <<scenarioVars, container, exitCode, log, lost, hostVars, batchVars>>

Classified(outcome, rule, signature) ==
  [outcome |-> outcome, rule |-> rule, signature |-> signature]
Unrunnable(rule) == Classified("unrunnable", rule, "none")
Running == Classified("running", "none", "none")

AttemptInit ==
  /\ body = "none" /\ control = "none" /\ oracle = "none" /\ observed = "none"
  /\ test = "none" /\ container = "none" /\ exitCode = "none"
  /\ log = <<>> /\ lost = FALSE
  /\ client = "running" /\ timedOut = FALSE /\ cleanup = "none" /\ run = Running

Init ==
  /\ AttemptInit
  /\ evidences = <<>>
  /\ aggregate = [outcome |-> "none", reportable |-> FALSE]
  /\ digest = "none"

\* runScenarioOnce starts the next attempt from scratch.
NextAttempt ==
  /\ body' = "none" /\ control' = "none" /\ oracle' = "none" /\ observed' = "none"
  /\ test' = "none" /\ container' = "none" /\ exitCode' = "none"
  /\ log' = <<>> /\ lost' = FALSE
  /\ client' = "running" /\ timedOut' = FALSE /\ cleanup' = "none" /\ run' = Running

\* appendLog: what does not fit is lost, and with it everything after it.  Nothing is
\* read once the client is closed.
AppendLog(entry) ==
  IF client # "running" THEN UNCHANGED <<log, lost>>
  ELSE /\ lost' = (lost \/ Len(log) >= MaxLogLength)
       /\ log' = IF Len(log) < MaxLogLength THEN Append(log, entry) ELSE log

-----------------------------------------------------------------------------
\* The container.  A client that was signalled may leave its creation under way.
ContainerStarts ==
  /\ container = "none"
  /\ client = "running" \/ (exitCode = "signal" /\ cleanup = "running")
  /\ container' = "up"
  /\ AppendLog("P1")
  /\ UNCHANGED <<scenarioVars, exitCode, hostVars, batchVars>>

\* vitest loads the file, and defineScenario accepts its definition or throws.
Load ==
  /\ container = "up" /\ test = "none"
  /\ \/ test' = "running" /\ body' = "control" /\ AppendLog("P2")
     \/ test' = "failed" /\ UNCHANGED <<body, log, lost>>
  /\ UNCHANGED <<control, oracle, observed, container, exitCode, hostVars, batchVars>>

At(place) == container = "up" /\ body = place

\* What vitest makes of the end of the test function; a test it has already given up
\* stays timed out.
TestEnds(verdict) == test' = IF test = "running" THEN verdict ELSE test

\* A scenario without a control goes on like one whose control passed.
Control ==
  /\ At("control")
  /\ \/ control' = "passed" /\ body' = "act" /\ AppendLog("P3") /\ UNCHANGED test
     \/ control' = "failed" /\ body' = "over" /\ AppendLog("CONTROL_FAILURE") /\ TestEnds("failed")
  /\ UNCHANGED <<oracle, observed, container, exitCode, hostVars, batchVars>>

Act ==
  /\ At("act")
  /\ \/ body' = "assert" /\ AppendLog("P4") /\ UNCHANGED test
     \/ body' = "over" /\ TestEnds("failed") /\ UNCHANGED <<log, lost>>
  /\ UNCHANGED <<control, oracle, observed, container, exitCode, hostVars, batchVars>>

Satisfied ==
  /\ At("assert")
  /\ oracle' = "satisfied"
  /\ body' = "over"
  /\ TestEnds("passed")
  /\ UNCHANGED <<control, observed, container, exitCode, log, lost, hostVars, batchVars>>

Violated(signature) ==
  /\ At("assert")
  /\ oracle' = "violated"
  /\ observed' = signature
  /\ body' = "over"
  /\ TestEnds("failed")
  /\ AppendLog(signature)
  /\ UNCHANGED <<control, container, exitCode, hostVars, batchVars>>

\* assert throws something else than an AssertionError.
AssertThrows ==
  /\ At("assert")
  /\ oracle' = "threw"
  /\ body' = "over"
  /\ TestEnds("failed")
  /\ UNCHANGED <<control, observed, container, exitCode, log, lost, hostVars, batchVars>>

\* testTimeout: vitest has failed the test, its function runs on.
TestTimesOut ==
  /\ container = "up" /\ test = "running"
  /\ test' = "timed out"
  /\ UNCHANGED <<body, control, oracle, observed, container, exitCode, log, lost, hostVars, batchVars>>

Noise ==
  /\ container = "up" /\ ~lost
  /\ AppendLog("noise")
  /\ UNCHANGED <<scenarioVars, container, exitCode, hostVars, batchVars>>

\* The client takes over the exit code of its container.
Gone(code) ==
  /\ container' = "gone"
  /\ exitCode' = IF client = "running" THEN code ELSE exitCode

\* vitest ends with the verdict of its test, or the memory limit ends the container.
ContainerExits ==
  /\ container = "up"
  /\ \/ test = "passed" /\ Gone("zero")
     \/ test \in {"failed", "timed out"} /\ Gone("one")
     \/ Gone("137")
  /\ UNCHANGED <<scenarioVars, log, lost, hostVars, batchVars>>

-----------------------------------------------------------------------------
\* runCommand.  spawn reports an error: the promise rejects, run-scenario prints no
\* evidence, and parseEvidence calls the attempt unrunnable.
ClientFails ==
  /\ client = "running" /\ container = "none" /\ ~timedOut
  /\ client' = "failed"
  /\ run' = Unrunnable("runner-output-parse-failure")
  /\ UNCHANGED <<scenarioVars, container, exitCode, log, lost, timedOut, cleanup, batchVars>>

\* The timer: kill the client, which passes the signal on, and start the removal.
TimerFires ==
  /\ client = "running" /\ ~timedOut
  /\ timedOut' = TRUE
  /\ cleanup' = "running"
  /\ UNCHANGED <<scenarioVars, container, exitCode, log, lost, client, run, batchVars>>

\* removeContainer: its exit code is not looked at, so a failure, or the answer that
\* there is no such container yet, ends the cleanup like a removal.
RemoverRemoves ==
  /\ cleanup = "running" /\ container # "none"
  /\ cleanup' = "removed"
  /\ IF container = "up" THEN Gone("137") ELSE UNCHANGED <<container, exitCode>>
  /\ UNCHANGED <<scenarioVars, log, lost, client, timedOut, run, batchVars>>

RemoverFails ==
  /\ cleanup = "running"
  /\ cleanup' = "failed"
  /\ UNCHANGED <<scenarioVars, container, exitCode, log, lost, client, timedOut, run, batchVars>>

\* The client closes when its container is gone, when it was signalled before there
\* was one, or when docker run could not create it.
ClientCloses ==
  /\ client = "running"
  /\ \/ container = "gone" /\ UNCHANGED exitCode
     \/ container = "none" /\ timedOut /\ exitCode' = "signal"
     \/ container = "none" /\ exitCode' = "125"
  /\ client' = "closed"
  /\ UNCHANGED <<scenarioVars, container, log, lost, timedOut, cleanup, run, batchVars>>

Logged(entry) == \E n \in 1..Len(log) : log[n] = entry
LastViolation ==
  CHOOSE signature \in Signatures :
    \E n \in 1..Len(log) :
      log[n] = signature /\ \A later \in (n + 1)..Len(log) : log[later] \notin Signatures

\* Plausible bug: a test that reached the oracle without a violation passes.
ClassificationOfMarkers ==
  IF timedOut THEN Unrunnable("harness-timeout")
  ELSE IF \E signature \in Signatures : Logged(signature)
    THEN Classified("candidate-failure", "oracle-violation", LastViolation)
  ELSE IF Logged("P3") /\ Logged("P4")
    THEN Classified("pass", "oracle-satisfied", "none")
  ELSE Unrunnable("ambiguous-test-failure")

\* classifyRun: the first rule that applies.
Classification ==
  IF timedOut THEN Unrunnable("harness-timeout")
  ELSE IF exitCode = "137" THEN Unrunnable("resource-limit")
  ELSE IF ~Logged("P1") THEN Unrunnable("container-start-failure")
  ELSE IF ~Logged("P2") THEN Unrunnable("test-load-failure")
  ELSE IF Logged("CONTROL_FAILURE") THEN Unrunnable("oracle-control-failure")
  ELSE IF exitCode = "zero" /\ Logged("P3") /\ Logged("P4")
    THEN Classified("pass", "oracle-satisfied", "none")
  ELSE IF Logged("P4") /\ \E signature \in Signatures : Logged(signature)
    THEN Classified("candidate-failure", "oracle-violation", LastViolation)
  ELSE Unrunnable("ambiguous-test-failure")

\* Plausible bug: a failed cleanup rejects the close handler, which never resolves.
ClassifyUnlessCleanupFailed ==
  /\ client = "closed" /\ run = Running
  /\ cleanup \notin {"running", "failed"}
  /\ run' = Classification
  /\ UNCHANGED <<scenarioVars, container, exitCode, log, lost, client, timedOut, cleanup, batchVars>>

\* The close handler awaits the cleanup, then the run is resolved and classified.
Classify ==
  /\ client = "closed" /\ run = Running
  /\ cleanup # "running"
  /\ run' = Classification
  /\ UNCHANGED <<scenarioVars, container, exitCode, log, lost, client, timedOut, cleanup, batchVars>>

-----------------------------------------------------------------------------
Outcomes(runs) == {runs[n].outcome : n \in 1..Len(runs)}
Keys(runs) == {runs[n].signature : n \in 1..Len(runs)}

AggregateOutcome(runs) ==
  IF Cardinality(Outcomes(runs)) = 1 THEN runs[1].outcome ELSE "intermittent"

\* Plausible bug: candidates are aggregated without comparing their signatures.
AggregateOfOutcomes(runs) ==
  [outcome |-> AggregateOutcome(runs),
   reportable |-> AggregateOutcome(runs) = "candidate-failure" /\ Len(runs) >= 3]

\* aggregateRuns
Aggregate(runs) ==
  [outcome |-> AggregateOutcome(runs),
   reportable |-> /\ AggregateOutcome(runs) = "candidate-failure"
                  /\ Cardinality(Keys(runs)) = 1
                  /\ Len(runs) >= 3]

\* parseEvidence: what was cut does not parse.  Evidence holds what the scenario's markers
\* said, of whatever size, when the rule says so; without it the evidence always fits.
HoldsMarkers == run.rule \in {"oracle-satisfied", "oracle-violation", "ambiguous-test-failure"}
Parsed ==
  {run} \cup (IF HoldsMarkers THEN {Unrunnable("runner-output-parse-failure")} ELSE {})

\* What an attempt leaves behind: its record, and what really happened in it: the violation
\* of its oracle, whether the run was left to its end with all of its log, and whether the
\* evidence was cut.
Evidence(record) ==
  [outcome |-> record.outcome, signature |-> record.signature, observed |-> observed,
   undisturbed |-> observed # "none" /\ ~lost /\ ~timedOut /\ exitCode # "137",
   cut |-> observed # "none" /\ record # run]

\* runScenarioOnce returned: the next attempt, or the aggregate.
AttemptOver ==
  /\ run # Running
  /\ Len(evidences) < attempts
  /\ \E record \in Parsed : evidences' = Append(evidences, Evidence(record))
  /\ IF Len(evidences') = attempts
     THEN /\ aggregate' = Aggregate(evidences')
          /\ UNCHANGED <<scenarioVars, container, exitCode, log, lost, hostVars>>
     ELSE NextAttempt /\ UNCHANGED aggregate
  /\ UNCHANGED digest

\* run-digest parses the batch, with the evidence of every scenario in it, and throws when
\* it was cut; otherwise it lists what is reportable.
Digest ==
  /\ aggregate.outcome # "none" /\ digest = "none"
  /\ \/ digest' = "failed"
     \/ digest' = IF aggregate.reportable THEN "listed" ELSE "excluded"
  /\ UNCHANGED <<scenarioVars, container, exitCode, log, lost, hostVars, evidences, aggregate>>

Over == digest # "none" /\ UNCHANGED vars

Container ==
  \/ ContainerStarts \/ Load \/ Control \/ Act \/ Satisfied
  \/ \E signature \in Signatures : Violated(signature)
  \/ AssertThrows \/ TestTimesOut \/ Noise \/ ContainerExits

Next ==
  \/ Container
  \/ ClientFails \/ TimerFires \/ RemoverRemoves \/ RemoverFails \/ ClientCloses
  \/ Classify \/ AttemptOver \/ Digest \/ Over

SafetySpec == Init /\ [][Next]_vars

\* The timer of a run fires, docker rm answers, a client whose container is gone closes
\* and the host's promises are resolved.  Nothing is assumed of the container.
Fairness ==
  /\ WF_vars(TimerFires)
  /\ WF_vars(RemoverRemoves \/ RemoverFails)
  /\ WF_vars(ClientCloses)
  /\ WF_vars(Classify)

Spec == SafetySpec /\ Fairness

-----------------------------------------------------------------------------
\* A verdict of an attempt is what the scenario's own oracle said, with a control that
\* did not fail, however much of the log was lost and whatever ended the container; and
\* vitest's verdict is never the other one.
VerdictIsTheOracles ==
  /\ run.outcome = "pass" => oracle = "satisfied" /\ control = "passed" /\ test = "passed"
  /\ run.outcome = "candidate-failure" =>
       /\ oracle = "violated" /\ control = "passed" /\ run.signature = observed
       /\ test \in {"failed", "timed out"}

\* docs/V0.1-CONTRACT.md, Unrunnable: a test that vitest gave up for its time has no marker
\* of the oracle, and its attempt is recorded as unrunnable.
TimedOutIsUnrunnable ==
  test = "timed out" => run.outcome \in {"running", "unrunnable"}

\* What a digest reports was observed: at least three attempts in a row in which the
\* oracle was violated the same way (docs/V0.1-CONTRACT.md, Reproduction).
ReportedIsReproduced ==
  aggregate.reportable \/ digest = "listed" =>
    /\ Len(evidences) >= 3
    /\ \E signature \in Signatures :
         \A n \in 1..Len(evidences) : evidences[n].observed = signature

\* Every one of at least three undisturbed attempts violated the oracle the same way.
Reproduced ==
  /\ Len(evidences) = attempts /\ attempts >= 3
  /\ \E signature \in Signatures :
       \A n \in 1..Len(evidences) :
         evidences[n].observed = signature /\ evidences[n].undisturbed

\* Then the scenario is reportable, or the evidence of an attempt was cut, which shows:
\* that attempt is recorded as unrunnable, and the scenario as no better.
ReproducedIsReported ==
  Reproduced =>
    \/ aggregate.reportable /\ digest # "excluded"
    \/ /\ \E n \in 1..Len(evidences) : evidences[n].cut
       /\ aggregate.outcome \in {"unrunnable", "intermittent"}

\* A digest reports nothing but what was reproduced.  What was reproduced without a
\* disturbance is reported too, or counted among the unrunnable or intermittent scenarios
\* since the evidence of an attempt did not fit, or there is no digest at all.
ReportIsReproduction == ReportedIsReproduced /\ ReproducedIsReported

\* An attempt whose container is gone is recorded, also when the removal failed.
GoneRunIsRecorded == container = "gone" ~> run # Running
=============================================================================
