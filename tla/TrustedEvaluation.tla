-------------------------- MODULE TrustedEvaluation --------------------------
(***************************************************************************)
(* One trusted case end to end: the runner of CaseRunner, the evaluator    *)
(* process inside the container (harness-v0.3/trust), the result directory *)
(* they share, and the host's reading and classification of it             *)
(* (src/v03-trust.mjs, the case loop of scripts/prepare-v03-trust.mjs).    *)
(* The evaluator runs exactly while the container is up, and whatever      *)
(* ends the container freezes it where it is.                              *)
(***************************************************************************)
EXTENDS CaseRunner

CONSTANT Entrypoints  \* the modes of a run of the model: a bound

CaseModes == {"missing", "malformed", "wrong-digest", "early-exit", "timeout", "log-overflow"}

ASSUME EntrypointAssumption == Entrypoints \subseteq CaseModes \cup {"main"}

VARIABLES
  mode,         \* the entrypoint: main.mjs, or case-main.mjs --mode <mode>
  step,         \* how far the evaluator has come
  evaluation,   \* the execution it computed
  exitStatus,   \* the exit status of its process
  files,        \* the result directory: what each file name holds
  host,         \* the case loop
  entries,      \* resultEntries
  resultBytes,  \* resultBytes
  verdict       \* classification: the execution, or the reason of the error

evaluatorVars == <<step, evaluation, exitStatus, files>>
hostVars == <<host, entries, resultBytes, verdict>>
allVars == <<vars, mode, evaluatorVars, hostVars>>

Evaluations == {"pass", "candidate-failure"}
Names == {"result.json", "result.json.tmp"}
\* A file is "absent", or holds a "partial" result, one with a "wrong-digest", or the
\* trusted result of an evaluation; validateTrustedResult accepts the last only.
ValidateTrustedResult(contents) == contents \in Evaluations

Present == {name \in Names : files[name] # "absent"}

CaseInit ==
  /\ Init
  /\ mode \in Entrypoints
  /\ step = "evaluating"
  /\ evaluation = "none"
  /\ exitStatus = "none"
  /\ files = [name \in Names |-> "absent"]
  /\ host = "running"
  /\ entries = {}
  /\ resultBytes = "null"
  /\ verdict = "none"

-----------------------------------------------------------------------------
\* The evaluator.
Running == container \in {"up", "late"}

EvaluatorStep(from, to) ==
  /\ Running
  /\ step = from
  /\ step' = to
  /\ UNCHANGED <<vars, mode, exitStatus, hostVars>>

\* evaluateTrustedResult: interpret the plan against the product, and evaluate.
Evaluate ==
  /\ EvaluatorStep("evaluating", "evaluated")
  /\ evaluation' \in Evaluations
  /\ UNCHANGED files

WritesTrustedResult == mode \in {"main", "wrong-digest", "timeout", "log-overflow"}

\* writeFile of result.json.tmp with flag 'wx': the name exists before its content.
CreateTemporary ==
  /\ WritesTrustedResult
  /\ EvaluatorStep("evaluated", "created")
  /\ files' = [files EXCEPT !["result.json.tmp"] = "partial"]
  /\ UNCHANGED evaluation

FillTemporary ==
  /\ EvaluatorStep("created", "filled")
  /\ files' = [files EXCEPT !["result.json.tmp"] =
                 IF mode = "wrong-digest" THEN "wrong-digest" ELSE evaluation]
  /\ UNCHANGED evaluation

Rename ==
  /\ EvaluatorStep("filled", "done")
  /\ files' = [name \in Names |->
                 IF name = "result.json" THEN files["result.json.tmp"] ELSE "absent"]
  /\ UNCHANGED evaluation

\* Mode malformed writes a truncated document under the final name.
WriteMalformed ==
  /\ mode = "malformed"
  /\ EvaluatorStep("evaluated", "done")
  /\ files' = [files EXCEPT !["result.json"] = "partial"]
  /\ UNCHANGED evaluation

\* The process ends.  With 0 when its entrypoint returned, or when its event loop
\* ran dry under an await (the virtual clock keeps no real timer alive); the modes
\* that hold forever never do.  With another code at any time: a throw, exit code
\* 17 of mode early-exit, a signal, the memory limit.
ExitsZero ==
  \/ step = "evaluating"
  \/ step = "evaluated" /\ mode = "missing"
  \/ step = "done" /\ mode \in {"main", "wrong-digest", "malformed"}

EvaluatorExits ==
  /\ ContainerExits
  /\ \/ ExitsZero /\ exitStatus' = "zero"
     \/ exitStatus' = "nonzero"
  /\ UNCHANGED <<mode, step, evaluation, files, hostVars>>

-----------------------------------------------------------------------------
\* The runner.  Its client exits 0 only when the evaluator did.
RunnerStep ==
  /\ \/ SpawnThrows
     \/ Spawn
     \/ ChildError
     \/ \E s \in Streams, n \in ChunkSizes : Data(s, n)
     \/ \E exitCode \in ExitCodes :
          ChildClose(exitCode) /\ (exitCode = "zero" => exitStatus = "zero")
     \/ BudgetExpires
     \/ RemoveGraceExpires
     \/ RemoverSucceeds
     \/ RemoverFails
     \/ StopGraceExpires
     \/ Tick
     \/ ContainerStarts
  /\ UNCHANGED <<mode, evaluatorVars, hostVars>>

-----------------------------------------------------------------------------
\* The host's case loop after `await runCase`.
HostStep(from) ==
  /\ host = from
  /\ UNCHANGED <<vars, mode, evaluatorVars>>

\* Plausible bug: the exit code is not looked at.
ClassificationOfAnyExit(bytesRead) ==
  CASE report.timedOut -> "evaluator-timeout"
    [] ~report.timedOut /\ report.outputTruncated -> "evaluator-log-limit"
    [] OTHER ->
         IF bytesRead = "null" THEN "missing-trusted-result"
         ELSE IF ValidateTrustedResult(bytesRead) THEN bytesRead
         ELSE "malformed-trusted-result"

\* classifyTrustedResult: the first objection decides.
Classification(bytesRead) ==
  CASE report.timedOut -> "evaluator-timeout"
    [] ~report.timedOut /\ report.outputTruncated -> "evaluator-log-limit"
    [] OTHER ->
         IF report.exitCode # "zero" THEN "evaluator-early-exit"
         ELSE IF bytesRead = "null" THEN "missing-trusted-result"
         ELSE IF ValidateTrustedResult(bytesRead) THEN bytesRead
         ELSE "malformed-trusted-result"

Classify(bytesRead) ==
  /\ host' = "classified"
  /\ resultBytes' = bytesRead
  /\ verdict' = Classification(bytesRead)

\* A rejected run leaves the loop.
RunRejected ==
  /\ HostStep("running")
  /\ outcome = "rejected"
  /\ host' = "thrown"
  /\ UNCHANGED <<entries, resultBytes, verdict>>

\* readTrustedResultChannel: readdir,
ListResults ==
  /\ HostStep("running")
  /\ outcome = "resolved"
  /\ entries' = Present
  /\ host' = "listed"
  /\ UNCHANGED <<resultBytes, verdict>>

\* then lstat of every listed name, which throws for one that is gone,
StatResults ==
  /\ HostStep("listed")
  /\ UNCHANGED entries
  /\ \/ /\ ~(entries \subseteq Present)
        /\ host' = "thrown"
        /\ UNCHANGED <<resultBytes, verdict>>
     \/ /\ entries \subseteq Present
        /\ entries = {"result.json"}
        /\ host' = "accepted"
        /\ UNCHANGED <<resultBytes, verdict>>
     \/ /\ entries \subseteq Present
        /\ entries # {"result.json"}
        /\ Classify("null")

\* then readFile of an accepted result.
ReadResult ==
  /\ HostStep("accepted")
  /\ UNCHANGED entries
  /\ Classify(files["result.json"])

CaseOver ==
  /\ host \in {"classified", "thrown"}
  /\ UNCHANGED allVars

CaseNext ==
  \/ Evaluate
  \/ CreateTemporary
  \/ FillTemporary
  \/ Rename
  \/ WriteMalformed
  \/ EvaluatorExits
  \/ RunnerStep
  \/ RunRejected
  \/ ListResults
  \/ StatResults
  \/ ReadResult
  \/ CaseOver

RunnerAlone(action) == action /\ UNCHANGED <<mode, evaluatorVars, hostVars>>

\* The host's event loop is fair, as in CaseRunner; nothing is assumed of the
\* evaluator, which may hang, or of Docker.
CaseFairness ==
  /\ WF_allVars(RunnerAlone(Spawn \/ SpawnThrows))
  /\ WF_allVars(RunnerAlone(ChildError))
  /\ WF_allVars(RunnerAlone(BudgetExpires))
  /\ WF_allVars(RunnerAlone(RemoveGraceExpires))
  /\ WF_allVars(RunnerAlone(StopGraceExpires))
  /\ WF_allVars(RunnerAlone(Tick))
  /\ WF_allVars(RunRejected \/ ListResults \/ StatResults \/ ReadResult)

CaseSafetySpec == CaseInit /\ [][CaseNext]_allVars
CaseSpec == CaseSafetySpec /\ CaseFairness

-----------------------------------------------------------------------------
\* A verdict about the product is the one the production evaluator computed in a
\* process that exited 0 by itself, and the run's record counts as evidence, though
\* classifyTrustedResult never looks at cleanupError (V0.3-CONTRACT: "exceeding the budget is never
\* a candidate failure"; the negative cases of prepare-v03-trust.mjs 230-235).
VerdictIsTheEvaluation ==
  verdict \in Evaluations =>
    /\ mode = "main"
    /\ verdict = evaluation
    /\ exitStatus = "zero"
    /\ report.cleanupError = "null" /\ ~report.timedOut /\ ~report.outputTruncated

\* Whatever the product and Docker do, the case loop goes on.
CaseIsDecided == <>(host \in {"classified", "thrown"})
=============================================================================
