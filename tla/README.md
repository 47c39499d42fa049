# Verification of bug-dreamer

This directory specifies and verifies bug-dreamer (the repository above it) in
TLA+: modules that translate the code's control flow, TLC configurations that
check them on small instances, and theorems that the TLA+ proof system checks
for every value of the constants.

## The system

bug-dreamer searches for bugs in three published packages (`tx`, `local-first`,
`prepaint` of FirstTx) by running *nightmares*, generated test scenarios, in
isolated Docker containers and by deciding on the host what the runs show. Its
value rests on trust in that decision: a verdict must be the evaluator's own,
a "reduced" reproduction must really be minimal, a budget must really bound the
work, and a failure of the infrastructure must never look like a failure of the
product.

| component | source | state | operations | interacts with |
|---|---|---|---|---|
| case runner | `src/v03-runner.mjs` | closure of one run: flags, timers, byte counts, cleanup, outcome | handlers of the Docker client, of `docker rm`, and of three timers | Docker; awaited by every preparation and measurement script |
| result channel, classification | `src/v03-trust.mjs` | none (reads a directory) | `readTrustedResultChannel`, `classifyTrustedResult` | the evaluator writes the directory it reads |
| run record validation | `src/v03-run-record.mjs` | none | `validateRunRecord` | every consumer of recorded evidence |
| trust evaluator | `harness-v0.3/trust/*` | bindings, observations, gates, virtual clock, result file | `interpret`, `evaluate`, `writeTrustedResult` | the product under test, the host through the result directory and the exit code |
| spec, plan, operators | `src/v03-spec.mjs`, `src/v03-operators.mjs`, `src/v03-benchmark-spec.mjs` | none | transformation with a digest chain, plan building, validation of stored specs and plans | reduction, evaluator, authoring |
| reduction | `src/v03-reduction.mjs` | current input, attempts, runs, budgets | scan, clean check, replays | evaluations through the case runner |
| benchmark measurement | `src/v03-benchmark-runner.mjs` | rows, budget ledger | initial schedule, replay selection, execution under two budgets | case runner, contract validators, scorer |
| benchmark scoring | `src/v03-benchmark-score.mjs`, `src/v03-benchmark-contract.mjs` | none | metrics, first-match verdict | rows and ledger of the measurement |
| local-first environment | `harness-v0.3/benchmark/local-first*.mjs` | activity tracker, broadcast relay, callback log | wait for rest, open a window, relay once, count | fake-indexeddb, the product under test |
| benchmark evaluator harness | `harness-v0.3/benchmark/*` | bindings, gates, clock, prepaint environment | interpreters and direct comparisons of three modules | the products under test |
| benchmark preparation | `scripts/prepare-v03-benchmark.mjs`, `src/v03-benchmark-preparation.mjs`, `harness-v0.3/benchmark-build/materialize-artifacts.mjs` | the factory's sources and packages, images, tags, containers, budget ledger | build the artifact sets, build, inspect and probe an image of each, try the smoke cases, clean up, write the evidence | Docker, the file system, the case runner |
| authoring, sealing, validation | `src/v03-benchmark-authoring.mjs`, `src/v03-benchmark-contract.mjs`, `src/v03-benchmark-validation.mjs` | registration, frozen files, commits and tag, contexts, epoch receipt | readiness of the registration, authoring context, epoch closure, final validation | git, the team, preparation, measurement |
| other preparation scripts | `scripts/prepare-v03-{spec,operators,reduction,trust,contracts,spike}.mjs` | images, fixtures, recorded evidence | build and run, write the evidence | Docker, the file system |
| scenario runner, batch, digest | `src/process.mjs`, `src/batch.mjs`, `src/classify.mjs`, `src/digest.mjs`, `scripts/run-*.mjs` | one process, the attempts of a scenario | run, reproduce, classify, fold | Docker, result files |
| wire format | `src/v03-wire.mjs` | parser position | strict parsing, canonical serialization, digests | everything that is hashed |
| history audit, contract probes | `src/v03-history.mjs`, `src/v03-contracts.mjs`, `src/v03-replay-validation.mjs` | none | comparison of recorded documents and git history | the recorded evidence |

What makes the components correct, and what is hard about them:

- **Case runner.** Six asynchronous sources (output, close and error of the
  client, the remover, the budget timer, two grace timers) race for one promise.
  It must settle once, in bounded time, with a record that agrees with what
  happened, and a record without cleanup error must mean that nothing runs on.
- **Result channel.** Three asynchronous reads of a directory another process
  writes, and a process that may end at any point of its publication. A verdict
  about the product must be the one the production evaluator computed.
- **Spec, plan, operators.** A spec and a plan come back from a file and are
  believed because the recorded operators lead, digest by digest, from the base
  actions to the transformed ones. No edit of one field may get through, and what
  the benchmark selects by itself must never be refused.
- **Reduction.** A fixed-point scan whose selectors change meaning with every
  accepted removal, under two budgets, with evaluations that may fail or be
  flaky. `one-minimal` must mean that every single removal was tried on the
  final input and rejected, and that the result was replayed.
- **Interpreter and virtual clock.** Completions that are gated, released in a
  registered order and settled by moving virtual time: an order nobody wrote
  down, or a wait that no timer ends, must not become an observation. The
  benchmark has its own interpreter, in which several runs wait at the same
  time and each moves the clock.
- **Measurement.** Two budgets, one in evaluations and one in seconds, over two
  phases of which the second depends on the rows of the first. No row may be
  dropped, and no budget exceeded.
- **Local-first environment.** It must notice, without a clock, when a package it
  does not control has nothing left to do: a rest that is taken too early, or a
  wait that is never woken, turns a good package into a failure or the reverse.
- **Scoring.** A first-match order of verdicts over incomplete evidence.
- **Benchmark preparation.** Every defect's packages are built in the same
  directories, one after the other; commands fail, are stopped or cannot be
  started, and so can the commands that clean up after them; tags belong to
  everyone. The evidence of a preparation must hold exactly what was planned, and
  must tell of whatever was left behind.
- **Authoring, sealing, validation.** What the authors were shown, what the images
  hold, what was measured and what was tagged are bound to each other by digests
  in files the team can still change, commit and amend in any order.
- **Scenario runner, batch.** A child process with a timeout, a bounded output
  and a cleanup that may fail, and a majority over attempts.

The complete list, with what each part leaves out, is under `components` of
`PROJECT.json`; the hazards are listed line by line under `hazards`, with the
properties that would catch them.

## Plan

The order is that of the trust chain: first what decides whether evidence may be
believed, then what computes results from evidence, then what the evidence is
made from.

| # | modules | composes / implements | state |
|---|---|---|---|
| 1 | `RunContract`, `CaseRunner` (proofs in 2) | `CaseRunner` implements `RunContract` | checked, proved |
| 2 | `TrustedEvaluation`, `TrustedEvaluationProofs` | `CaseRunner` + the evaluator + the host's reads; the proofs of both | checked, proved |
| 3 | `ReductionRules`, `Reduction`, `SpecProofs` | the scan over the pure rules | checked, proved |
| 4 | `Measurement`, `MeasurementProofs` | both schedules and budgets over one row per item, and the final validator's check of the rows | checked, proved |
| 5 | `VirtualClock`, `Interpreter`, `Interpreters`, `InterpreterProofs` | the trust interpreter, the benchmark interpreter and the direct comparison over the clock (and `ReductionRules` for validity) | checked, proved |
| 6 | `ScenarioBatch`, `ScenarioBatchProofs` | scenario, container, process runner, batch | checked, proved |
| 7 | `Scorer` (proofs in 4) | first-match verdict over the rows of `Measurement` | checked, proved |
| 8 | `LocalFirstEnvironment`, `LocalFirstProofs` | activity tracker, relay and oracle over the microtask queue | checked, proved |
| 9 | `Transformation` (proofs in 3) | operators, specs, plans and their validators over `ReductionRules` | checked, proved |
| 10 | `ArtifactFactory`, `Preparation`, `AuthoringProofs` | the factory inside the build of its image, the images, the ledger and the evidence | checked, proved |
| 11 | `Sealing` (proofs in 10) | registration, authoring, images, measurement and final validation over files and commits | checked, proved |
| 12 | `ReductionReceipt` | replay of a recorded reduction against `ReductionRules` | planned |
| 13 | prepaint environment | storage, routes and snapshots of `prepaint-environment.mjs` | planned |

`Histories` holds the lemmas several proofs share: sequences that only grow, and
smallest and largest numbers, with induction over numbers drawn from them (the finite
subsets of an interval are well-founded, so that a least counterexample exists).

Each module is written to be proved about: parameters are CONSTANTS with named
assumptions, every operation is one action, invariants are conjunctions of named
parts, and no module uses RECURSIVE operators (recursion is by functions on a
finite domain, by folds, or by a least fixed point over subsets).

## The modules and the code

### CaseRunner, RunContract — `src/v03-runner.mjs`

`CaseRunner` has one action per handler of `runCase`: `Spawn`/`SpawnThrows`,
`ChildError`, `Data` (both streams), `ChildClose`, `BudgetExpires`,
`RemoverSucceeds`/`RemoverFails`, `RemoveGraceExpires`, `StopGraceExpires`.
`Finish` is the inner `finish()` (settle once, clear timers, decide a null or a
set `cleanupError`), `Stop` and `AfterRemoval` the two halves of `stop()` around
its `await`. Time is a tick of the host's clock; a timer whose moment has come
fires before the clock moves on, in any order with the other due timers. Docker
is external: the container may start, exit, stay silent or print at any time,
`docker rm --force` may succeed, fail or never answer, and the client may close
at any time or never. `docker rm` with exit code 0 means that the container
that existed at that moment is removed; a container the client creates later is
named `late` and excluded from the properties about leftover containers.
Bytes are numbers of bytes; `charWidth` gives the encoded width of the text's
characters, so that the cut of a record inside a character can be expressed.
A `kill` that fails with an error event (EPERM) is not modelled.

`RunContract` is the promise of `runCase`: it is pending, then resolved or
rejected, once, no later than the budget and two graces after the spawn.

### TrustedEvaluation — `v03-trust.mjs`, `harness-v0.3/trust/*main.mjs`, `evaluator.mjs`, the case loop of `prepare-v03-trust.mjs`

Extends the runner with the process inside the container (evaluating, creating
and filling `result.json.tmp`, renaming it, exiting, in each entrypoint mode of
`case-main.mjs`) and with the host's three reads of the result directory, each a
turn of the event loop of its own, and the classification. The contents of a
file are the kinds the code can tell apart: absent, partial, malformed,
complete. The evaluator may exit 0 without a result, since node ends when its
event loop runs dry under an `await`. The size limit of a result is not
modelled. `Interpreter` below is the detailed form of this module's step
"evaluating": an interpreted plan gives a result, an infrastructure error, a
blocked run or a left-over control a nonzero exit, and a drained event loop
exit 0 without a result.

### ReductionRules, Reduction — `v03-reduction.mjs`, parts of `v03-spec.mjs`

`ReductionRules` holds the pure part: the selectors of the four rules in their
order, the dependency closure of a removal (a least fixed point), the
renumbering of actions and what makes a candidate valid. Single-field schema
checks and wire limits, which a removal cannot change, are left out. `Reduction`
is the loop of `reduceSpec`: initial run, one attempt per selector with a
restart after each accepted one, clean check, replays, both budgets, and the
ways out (`blocked`, `incomplete`, `one-minimal`, a thrown validation error).
An evaluation answers anything an evaluation can answer, every time anew, so
flaky reproductions are included.

### Transformation — `v03-spec.mjs`, `v03-operators.mjs`, `v03-benchmark-spec.mjs`, `selectPhase4OperatorRequests`

One module for both variants of the code (`variant` is `phase3` or `benchmark`),
since they share their shape. `ApplyEntry` applies one entry of the request to
the base actions with all its bounds (targets, gates, advances, the limit on
transformations) and records it with the state before and after, the request is
refused at the first entry that fails, `Finish` builds spec, fixtures and plan,
`Store` writes both and lets one field of either be edited, or one entry be dropped
or exchanged with its neighbour, also with the plan built anew from the edited spec,
and `Judge` is the validator, which replays the records for the clean or the
defective artifact. A digest is what it was computed from. The requests the
benchmark selects by itself are inputs too. What an accepted spec may still differ
in (the digest of its seed, the invariant, and the record of a fault that changes
nothing) is stated at `AcceptedIsAsBuilt`. Of an argument the model keeps what a rule
looks at; identifier patterns and the catalogs of the other modules are left out.

### Measurement — `v03-benchmark-runner.mjs`, parts of `v03-benchmark-validation.mjs`

The initial schedule (arms, items, skipping what was not selected or duplicated),
the evaluation of each item, the selection of replay candidates with its quotas,
the replay schedule, the check of both budgets before each evaluation and the
ledger at the end with its validation. A row names the run record its evaluation
left, if it left one; `ValidateMeasurementRow` is what the final validator asks of
a row and its record, and `EvidenceIsValid` what it asks of a measurement. Durations
are numbers of seconds. The executor composition the module offers
(`createDockerCaseExecutor` with `normalizePhase4ExecutedCase`) is what an
evaluation is; the scripts do not wire it yet.

### Scorer — `v03-benchmark-score.mjs`

Extends `Measurement` with one step, `scorePhase4Benchmark`, on what a
measurement that was not thrown away leaves behind. `PairRaw`, `ReplayComplete`
and `Confirmed` are the facts of pairs and replays, read from the rows by their
coordinates; the groups of an arm, the review metrics and the rates are sets and
fractions over them; `GenerationBlocked`, `OperatorBlocked` and
`PipelineBlocked` are the blockers, and `Branch` is the first-match order.
`Rejected` holds the assertions an output of the runner can meet. What the
scorer is given beside the measurement (reviews, trust, an aborted epoch,
whether authoring was complete, accepted seeds without rows, arms without
requests) is a choice from a set. The code's thresholds are constants. The
identity of a violation is what the row's outcome says: the committed one or
another one. Schema checks of the input and the printed metrics are left out.

### VirtualClock, Interpreter, Interpreters — `harness-v0.3/trust/virtual-clock.mjs`, `evaluator.mjs`, `harness-v0.3/benchmark/{interpreter-main,tx,tx-environment,tx-direct,main-common}.mjs`

`VirtualClock` is the queue of virtual timers with its due order.
`Interpreter` is the trust evaluator's execution of a plan: plain and gated runs,
gates opened in the order of the release requests, anchored advances, the settle
loop and the awaited commit. The package under evaluation may settle a started run
at any time, set and clear timers of its own, or wait forever. The settle loop's
eight empty turns of the event loop are one wait. `MaxHandles` bounds the timers
the package may set.

`Interpreters` adds the two executions of the benchmark, chosen by `harness`. In
the benchmark interpreter each launched run has a settle loop of its own, which
turns whenever the interpreter awaits anything: the runs of a group that is not
complete fire timers (`LoopFiresTimer`), may be found blocked (`LoopIsBlocked`) or
fail (`UnawaitedFails`) while another action is awaited. The last run of a
group opens the gates of all (`RunOfGroup`), and they are awaited one after the
other. A commit is settled like a run. The direct comparison knows no groups. What
a run's scripted step does (its gate, attempts and compensation) is part of what
the package may do with it; fixtures and the oracle's projection are left out.

### LocalFirstEnvironment — `harness-v0.3/benchmark/local-first*.mjs`

The microtask queue, job by job: `jobs` is the queue, `running` the task of the
package on the stack, `macros` the requests and the immediate that the event loop
may run, in any order, once the queue is empty. The tracker is its generation,
its open requests and its waiters; the relay its inbox and its counts; the
adapter walks through a row as `local-first.mjs` (three awaits of `executePlan`
between two actions) or as `local-first-direct.mjs` (none). Each `await` of the
harness is as many jobs as in node, since the distance in jobs is what the
tracker's two empty turns are about. The package is a script for each of its
tasks: awaits, requests, states of its cache, notifications, messages. It has one
task at a time with an open request. Transactions end once, by `complete`; the
earlier end an `error` event gives to one that aborts later is not modelled, nor
is a handler that throws. A process that runs out of work while the evaluator
waits ends as `dry`, without a result.

What the run establishes is a tolerance. After a request ended, the package may
take `StartHops` = 3 awaits to the next one and `NotifyHops` = 6 to its last
notification, and after `replace` resolved it may take `PostHops` = 6 to its
message; with one more of either the properties fail. A package with longer chains
of promises can be judged before it is done. `LocalFirstProofs` has the tolerance for
scripts of any length. A package that subscribes without
opening a request runs dry, so the property asks a conforming one to read the
store.

### ScenarioBatch — `process.mjs`, `classify.mjs`, `batch.mjs`, `run-scenario.mjs`, `run-batch.mjs`, `harness/*`

The scenario's function with its control, act and assertion, vitest's verdict
and test timeout, the container, the log with its limit, `runCommand` with its
timer and removal, the classification, the aggregate of the attempts and what the
digest lists. The two streams are one log, since every marker goes to stdout.
Signatures are what `signatureKey` tells apart. Time is not counted.

Each of the scripts reads the next one through `runCommand`, and every one of these
outputs is cut at `MAX_LOG_LENGTH`. The first cut is that of the container's log
(`AppendLog`). The second is that of an attempt's evidence (`run-batch.mjs:74`):
pretty-printed, with the scenario's inputs, `actual` and the signature's copies of it,
it may be too long though the log was not, and then `parseEvidence` makes the attempt
unrunnable, whatever it was. `Parsed` offers that outcome to every attempt whose
evidence holds what the markers said (`HoldsMarkers`), without counting its size; the
other records are bounded far below the limit by their excerpt. The third is that of
the whole batch (`run-digest.mjs:46`), whose loss leaves no digest (`Digest`).

### ArtifactFactory, Preparation — `materialize-artifacts.mjs`, `prepare-v03-benchmark.mjs`, `v03-benchmark-preparation.mjs`

`ArtifactFactory` builds the clean set and, for each defect, edits the source of
its package, builds, packs and restores; what a package, a `dist` directory or a
tarball holds is the set of edits that went into it. `Preparation` runs it inside
the build of the factory image and then extracts the sets, builds, inspects and
probes an image of each, tries the smoke cases and writes the evidence. A charged
operation runs while `running` is set, so that the clock may reach the wall limit
and other processes may move a tag (`Retag`) meanwhile. A final image is told by its
contract key. The factory image is not: its tag holds the revision of the target, and
its labels that revision and a constant (`prepare-v03-benchmark.mjs:348-360`), so that
the factory image of another preparation of the target passes for the own one.
`artifactFactory` is what was inspected under the tag: its `owner`, which only the
model knows, and its `sets`, from which all that follows is made. `ForeignReceipts` are
the sets of another preparation, with edits of its own under the same names in the
packages that `OtherModules` allows, or with other names. `CommandFails` and
`CommandIsNotStarted` are the two ways a command goes wrong, `Removal` that of a
container, `Catch` and `CleanUp` the two handlers around them, and `Report` the
writing of the evidence, which may be torn. A container whose creation the killed
client had only asked for may come into being after the removal: it is `late` and
excluded from what must be recorded. The runner of a smoke case may throw with its
container still there (`RunnerThrows`), also after it had resolved with a cleanup
error, when the result channel cannot be read; no cleanup is counted then
(`prepare-v03-benchmark.mjs:549`). The import closures, the fixture tools and
the texts of Dockerfiles and lock files are abstracted to what they hold.

### Sealing — `v03-benchmark-contract.mjs`, `v03-benchmark-authoring.mjs`, `v03-benchmark-validation.mjs`

The working tree as a record of files, each the set of its contents; `commits`
with their parents and the tag. The team may `Commit`, `Amend`, `Tag`, record each
field of the registration (`Record*`) and edit files in any order; the tools
`Prepare`, `MaterializeContext`, `Author`, `Seal` and `Measure` read the tree and
write what they write. `Accepted` is the final validation as a state predicate,
clause by clause. `MaterializeContext` is one step, although the code
reads HEAD and files one after the other. What the frozen files hold is a
version. The authoring ledger of sessions and turns, the policy's text and the
schemas are not modelled.

## The runs

Every run finishes within a few minutes with two workers. *Passing* runs:

| run | what it asks | bounds |
|---|---|---|
| `case_runner` | Does a record follow the removal, does accepted evidence leave no container, is `IInv` an invariant, and does the runner keep its contract? | budget and grace 2 ticks, limit 2 bytes with record cap 1, 3 bytes printed: below, at and above the limit and cap, every order of the timers, also due together |
| `trusted_evaluation` | Is a verdict the evaluator's own (`VerdictIsTheEvaluation`), and is every case classified or failed with an exception (`CaseIsDecided`)? | all entrypoint modes; budget and grace 1, since this module adds no timer |
| `measurement` | Does the evidence of an accepted measurement hold a record of every evaluation, has every item its row, are the replays the first candidates, do the budgets hold? | one arm with four items in three groups (one duplicate group), and a set of three arms; durations 0 and 3 against 4 s; 9 evaluations: both budgets end in both phases; six outcomes with at most one unusual evaluation per measurement |
| `scorer` | What do the verdicts adopt and retire rest on? | two procedures with two truths (one set lacks a pair), one P seed with its three operators, one with a second truth of the group that is not eligible, one retention row, a truth of two groups; at most one evaluation per measurement that ends in neither a pass nor the registered violation; 12 evaluations: two candidates can be replayed, a third finds the budget exhausted; thresholds scaled to one row. Every verdict but the pipeline's `otherwise` is reached |
| `interpreter` | Do gates, advances and time happen as planned in all three executions, and does every interpretation end? | trust: three valid plans (late run, reordered releases, shared run) and an invalid one (advance past the timeout through a gated anchor); benchmark: a group around another run, the same with an advance after that run, two groups that share a run, and a plan without groups, which is the comparison's; three package timers of delay 0 or 2 |
| `local_first` | Is a verdict that of the package, for every rhythm the tracker tolerates? | both callers; loads of no, one or two requests with every distance up to `StartHops` and the ends of `NotifyHops`, early, late, double and missing notifications; replace with the message before or up to six awaits after it resolves; the message of the patch before, at or long after (`LatePost`, so that the relay waits) its end; filtering and reloading handlers, awaited or not; one channel or none |
| `scenario_batch` | What do a verdict and a reported candidate rest on, what becomes of a reproduction that is not reported, and is every attempt whose container is gone recorded? | three attempts (the least that can be reported), two signatures, a log of five entries (the markers of a violation), filled up by other output at any place; the evidence of any attempt and the batch cut or not |
| `specs` | Of the reduction: what does a one-minimal result rest on, does a removal take along what depends on it and no more, and does the loop end? Of the transformation: is an accepted pair the one that was built, is its plan the requested one, and are the benchmark's own requests never refused? | `MCSpecs` puts the two programs side by side: they share no variable, and every behaviour is of one of them while the other rests in a state in which it is over, so that the run asks what two runs would. Reduction: five inputs (dependent, shared, gated, invalid and already minimal removals), 12 attempts, 8 evaluations, 2 replays: each budget ends in each stage, and one-minimal is reached after two accepted removals. Transformation: requests of none, one or two entries of every kind and one of three, single entries that must be refused, an advance limit of 4 ms, two transformations and two fixtures: at, below and above each limit; one edit of the stored pair |
| `preparation` | Does each set carry its edit, is a prepared benchmark complete, is what is left behind recorded, does the script end? | three defects, two of them of one package; two smoke cases; another preparation whose edits are in the same packages or in exchanged ones (`OtherModules`); a wall limit of one second; 6 builds for 5 planned and 13 probes for 12, so that the budget ends among the cleanups |
| `sealing` | Is every context of Checkpoint A, is an accepted measurement under the tag, do the images hold the rows and truth that were measured, and is the registration fixed once an epoch is accepted? | two versions of the frozen files, two commits (one amended), one edit at any moment: enough to change a file before or after each check that reads it |

*Violation* runs, the counterexamples of sentences in the repository's own
documents (`findings` in `PROJECT.json` quotes them):

| run | what it shows |
|---|---|
| `changed_universe` | the rows are changed after the authors have worked at Checkpoint A and are recorded again before the seal; the benchmark is accepted, because rows, adapters and truth are compared with Checkpoint A only while a context is written |
| `timed_out_test` | vitest gives a test up for its time, its function runs on, violates its oracle and prints the marker; the attempt is recorded as a candidate failure, although `docs/V0.1-CONTRACT.md:50` says that such a test has no marker of the oracle and is unrunnable. One attempt and one signature suffice |

Deadlock is checked in `case_runner`, `trusted_evaluation`, `specs`, `measurement`,
`scorer`, `interpreter`, `local_first`, `scenario_batch` and `timed_out_test`, whose
modules have an explicit stuttering action for their final states. In `specs` that is
the reduction's; beside a reduction at rest a transformation may stop anywhere, as it
does after its validation. It is not checked in `preparation` (the script ends),
`sealing` and `changed_universe` (the team may stop at any moment).

### What else the models show

The following are consequences of the code that came up while modelling and have
no run of their own. Where a document says otherwise it is named.

- A run stopped for its output gets the timeout flag too when its budget ends during
  the removal (`v03-runner.mjs:29`; `docs/V0.3-CONTRACT.md:136`).
- A measurement whose budget ends among the replays is rejected by the scorer
  (`v03-benchmark-score.mjs:298`; `docs/PHASE4-EXECUTION-PLAN.md:137`,
  `docs/V0.3-CONTRACT.md:112`).
- A malformed result is recorded as a planner error, not as an unrunnable evaluation
  (`v03-benchmark-runner.mjs:424`; `docs/V0.3-CONTRACT.md:188`). One such row, or one
  failed removal, costs the acceptance of the whole measurement
  (`v03-benchmark-validation.mjs:338`; `EvidenceIsOfEveryRun`).
- In the trust evaluator a commit that waits for a virtual timer drains the event
  loop instead of failing inside the evaluator (`evaluator.mjs:131`;
  `docs/V0.3-CONTRACT.md:100`). The benchmark settles its commits.
- In the benchmark interpreter all gates of a group open together
  (`main-common.mjs:116`), and only the awaits follow the order
  (`docs/V0.3-CONTRACT.md:125`). A run named by two release orders belongs to the
  first, so that the second group never becomes runnable (`interpreter-main.mjs:27`,
  `:50`); `InterpretationIsComplete` says that this is the only plan that is left
  over. A gated run that no order names is awaited with its gate closed.
- The settle loops of waiting runs fire timers while other actions are awaited
  (`tx-environment.mjs:29`). When that happens during an advance, the clock is set
  beyond the target and then back to it, so that virtual time runs backwards
  (`docs/V0.3-CONTRACT.md:100`). The validators accept plans with an order and an
  advance; the benchmark's own requests have none.
- The benchmark judges the observation of the run it awaited last, whereas the tx
  oracle looks at the plan's final run.
- A measurement whose last evaluation ends after the wall-clock maximum is thrown
  away by the validation of its own ledger (`BudgetsHold` says that nothing else
  throws).
- The epoch of rows and scorer input is compared among themselves and not with the
  registration or the closure (`v03-benchmark-score.mjs:195`,
  `v03-benchmark-validation.mjs:313`), so that rows of an earlier epoch pass after
  another seal (`docs/PHASE4-EXECUTION-PLAN.md:226`).
- `materializeAuthoringContext` reads HEAD and the files one after the other
  (`v03-benchmark-authoring.mjs:199`); a commit in between is not noticed. The model
  takes it as one step.
- In the local-first oracle a notification before the error counts as that of the
  error (`local-first.mjs:167`); the packages of the run notify after their error if
  they notify of it at all.
- An undisturbed violation whose evidence does not fit `MAX_LOG_LENGTH` is recorded as
  unrunnable (`run-batch.mjs:49`, `:74`), and a batch that does not fit gives no digest
  (`run-digest.mjs:58`). So not everything that was reproduced is reported;
  `ReproducedIsReported` says that it then counts as unrunnable or intermittent, and
  never as a pass, or that there is no digest.
- The factory image is inspected by a tag that all preparations of a target share
  (`prepare-v03-benchmark.mjs:348`), and its labels do not tell them apart. When
  another preparation takes the tag between the build and the inspection, the images
  carry the edits of the other's manifest. The receipt in the evidence names them, but
  neither `prepare-v03-benchmark.mjs:395` nor `v03-benchmark-validation.mjs:392`
  compares more than the names of the sets with the manifest. `PreparedIsComplete`
  therefore has the defects' own edits only for an own factory image.
- A container that a smoke case leaves behind is not counted when the runner throws
  afterwards, for example because the result channel cannot be read
  (`v03-benchmark-runner.mjs:318`, `prepare-v03-benchmark.mjs:549`): the ledger of the
  stopped preparation may show no failed cleanup, and the cleanup error is lost.
  `LeftBehindIsRecorded` makes it an exception that the evidence shows as the runner's
  error.
- An evaluator stopped between creating and renaming its result leaves
  `result.json.tmp` behind in the record of the run (`TrustedEvaluation`).
- An attempt whose budget ended and whose removal failed waits for its client
  without a bound (`ScenarioBatch`; `GoneRunIsRecorded` therefore starts from a
  container that is gone).

## Fairness

- **CaseRunner** assumes what node's event loop gives: `spawn` answers, its
  `error` is delivered, due timers fire and the clock advances. Nothing is
  assumed of Docker, of the container or of `docker rm`. That suffices, because
  the runner's own timers bound every wait, and this is the point of
  `ImplementsContract` and `CaseIsDecided`.
- **TrustedEvaluation** adds weak fairness of the host's reads.
- **Interpreters** assumes weak fairness of the interpreter's own steps
  (`InterpretAny`) and nothing of the package. `InterpretationEnds` holds up to
  `MaxHandles` timers: a package that re-arms a zero-delay timer forever is ended by
  the host's budget only.
- **LocalFirstEnvironment** assumes that the event loop runs what there is to run
  (`ScenarioEnds`); the scripts of the package are finite, but the tracker's loop
  is not bounded by the code.
- **ScenarioBatch** assumes that the timer fires, that `docker rm` answers, that
  the client of a container that is gone closes and that promise reactions run.
  Nothing is assumed of the container.
- **Preparation** assumes weak fairness of its steps: every command ends, if only
  because its timeout kills it, and the script goes on.
- **Reduction** and **Measurement** are sequential and need none: `EveryStepAdvances`
  shows that every step of a reduction spends from a bounded budget, and with
  the deadlock check it ends; a measurement walks two finite schedules.
- **Transformation** and **Sealing** state safety only and need none.

## What is proved

Each inductive invariant was checked by TLC, as an invariant of the run of its module,
before it was proved.

`TrustedEvaluationProofs` holds the proofs of the runner and, on top of them, those
of a trusted case. Of the runner (for every budget, grace, limit, cap, text and
number of bytes):

- `TypeCorrect`, `Invariant`: the inductive invariant `IInv` of the runner. The
  safety properties are not inductive by themselves: that a record follows the
  removal depends on which timers are set, on what the pending half of `stop()`
  will do and on whether the outcome is still open. `IInv` has one part for each
  of these: `StartInv` (what is true before the spawn), `StopInv` (what a
  started stop implies), `SettleInv` (what the pending continuation will
  decide), `TimerInv` (which timers are set in which phase, and when they are
  due), `ReportInv` (what the outcome records), `ContainerInv` (what the
  removal's answer says of the container), `OutputInv` (byte counts and flags).
  Each action has its step, with one step per disturbed part below it.
- `RecordsWaitForRemoval`, `EvidenceIsClean`, `UnflaggedRunsAreUntouched`,
  `TruncationAgrees`, and `AsciiRecordsFitTheCap` (under the assumption that all
  characters take one byte: a record that is cut inside a wider character is
  decoded with U+FFFD, three bytes, and may be longer than the cap). The last
  three are proved and belong to no run.
- `ImplementsSafety`: initial states map to initial states of `RunContract` and
  every step to a step or a stutter, from `IInv` (the due moment of the last
  timer bounds the outcome's moment).

Of a trusted case (for every entrypoint mode and the constants of the runner):
`CaseInvariant`, where `CInv` extends `IInv` by `DirectoryInv` (what the
result directory can hold at each stage of the process), `ExitInv` (what an exit
code says of the process) and `HostInv` (what the host has read, which only a
process that is gone cannot change any more), and from it `VerdictsAreTrusted`.

`SpecProofs` holds the proofs of the reduction and of the transformations. Of the
reduction (for every set of inputs, budgets and number of replays):

- `ScanIsKnown` by induction over the scan (what was passed over was rejected on
  the current input), from it `ResultIsOneMinimal`; and `ResultIsReplayed`,
  `AttemptsLeadToTheResult`, `ReductionAdvances`.
- `RemovalsAreConsistent`: what a removal takes along is the least set closed under
  "needs a removed action", as the loop in the code grows it, and what is left is
  again a well-formed input whose requests follow their actions. The closure is a
  function over the rounds of the loop. The proof shows that it grows, that it
  is contained in every closed set, and that it is closed when the rounds are over,
  since every round that does not close it adds an action; the actions that are kept
  are renumbered by how many are kept before them, which is increasing.
  `InputsAssumption` gives the inputs the types of their schemas, no more.

Of the transformations (for every seed and request): the invariant is the chain of
records. A record of an operator names what it changed; the fields of spec and plan
are what the records before it left. `PlansAreAsked` follows the outcomes of each run
through the requested faults to the last one that names it, and the controls through
their positions in the request. `AcceptedPairsAreAsBuilt` shows that the replay
of a stored pair, edited in one place, from its records fails unless the edit was to
the record of a fault that changes nothing. `SelectedRequestsAreBuilt` shows that the
requests the benchmark makes of a valid seed meet the guards of their operators, and
that the spec they give passes its own validation. `SeedsAssumption` and
`RequestsAssumption` say what the schemas do: the types of the fields, that an advance
or a fault names one action, and that the limit of a timeout is below that of an
advance. Nothing is assumed of what an entry asks for; most requests are refused.

`AuthoringProofs` holds the proofs of the preparation and of the sealing. Of the
preparation (for every list of packages, defects, smoke cases and all
budgets): `PreparationInvariant`, where `PInv` has the parts `FactoryInv` (which
packages are built from which sources; a build also leaves outputs that nobody takes
in, since the packages others depend on are never edited), `LedgerInv` (what was
charged by each point of the script), `ReceiptInv` (whose sets were inspected, that
they are the finished factory's when they are the own ones, and what the receipt's
check leaves of the others), `CleanInv` (what may be left behind, and that the ledger
counts it as a failure unless a removal could not be started or a runner threw),
`ProgressInv` and `SmokeInv` (the images and results present at each point) and
`EvidenceInv`. From it `SetsCarryTheirEdits`, `LeftBehindIsCounted` and
`PreparedIsWhole`. `OtherAssumption` says of the other preparation that each of its
defects edits one of the packages.

Of the sealing (for every set of versions and number of commits and edits):
`SealingInvariant`, where `SInv` has the parts `TreeShape`, `CheckpointInv` (a
recorded checkpoint is a commit, and commits only grow), `ContextInv` (a context
holds what its commit held) and `FileInv` (a file has at most one content, and a
manifest belongs to a context that was written).
Ancestry of commits stays opaque in the proofs. From it `ContextsAreFrozen`,
`AcceptedUnderTheTag`, `ImagesHoldWhatIsScored` and `RegistrationIsFixed`.

`MeasurementProofs` (for every set of cases, every outcome and duration, and both
budgets): `MeasurementInvariantHolds`. The rows are compared with the schedules, and
the replay schedule is itself a function of rows that were written before it, so the
proof has three layers: the order of the cases (`BeforeIsAnOrder`, `RankGrows`,
`OrderedByRank`: a set of cases is enumerated by the number of cases before each, and
`FirstCases`: what taking the first ones leaves out), the schedules as functions of
cases and rows, and the invariant with the parts `SchedulesOK` (the schedules are
those functions, and `SelectionIsSettled` says that later rows do not change them),
`ProgressOK`, `RowsOK` (each row is of the item at its place, not run or charged with
what its run was classified as), `CountsOK` (the ledger counts the charged rows),
`ExhaustionOK` (an exhausted budget stays exhausted), `ClockOK` and `ClosingOK`.
From it `MeasurementKeepsItsBudgets`, `NoCaseDropsOut`, `ReplaysGoToTheFirst` and
`EvidenceHasEveryRun`. `CasesAssumption` is what the manifest's validation
guarantees of the cases, and that the quotas of the arms and the frozen retention
cases fit the replay budget, as the approved budgets do; without it the runner can
throw its rows away for the replays alone.

Of the scorer (for everything it may be given beside the measurement, every
threshold and every choice of ineligible truths): `ScoreInvariantHolds`. A score is
given to a measurement that is over, and what is over does not change, so that the
rest is about one state: `InitialIsLookedUp` and `ReplayIsLookedUp` (the row found at
the coordinates of a case is its one row for that evaluation, since unless
`IndexesConflict` a case is known by its arm, input and truth), `ConfirmedIsCaught`
(what the scorer confirms is what every evaluation of the case showed, in both
directions), `SeedsAreComplete` and `PairsAreOfCases` (a complete pair is that of a
case). From these `AdoptedGenerationLosesNothing`, `AdoptedOperatorsAddNewGroups` and
`RetiredPipelineHasCounterevidence`. The proof of the second showed what an ineligible
truth is worth: its pair in P counts against a discovery of its group when it is
two-sided, but nothing asks that it came to a result.

`InterpreterProofs` (for every plan, any number of timers and whatever the package
does): `InterpretersInvariantHolds` for all three executions at once. That a finished
interpretation is complete needs to know, at every step, what was worked off:
`LoopOK` (the loop launched what it passed), `AnchorOK` (what is settled or
advanced now is that of the loop or of the release, and its gate is open),
`ReleaseOK` (the runs before the position of a release are done), `TrustOK` (an order
that was not executed still waits for a launch), `GroupOK` and `OrdersOK` (in the
benchmark a launched run of a group is pending, done, or being worked off; groups
that share no run are released one by one). From it `TimersAreNeverLate`,
`GatesAreOpenedInOrder` and `InterpretationsAreComplete`. `PlansAssumption` and
`BenchmarkPlansAssumption` say of the plans what the schema and the validation of
their controls say.

`FinalRunsAreLate` is of the trust interpreter alone, since only there a plan was
validated to be applicable. The advances before the final run are summed by a fold
over a set, which the proof replaces by a function on the subsets
of that set, so that one advance more adds its own time. `LateOK` then has the
plan (applicable, and the same to the end), the moment the producer started, the
advances passed and, when the final run's turn comes, the time elapsed since.

`ScenarioBatchProofs` (for any number of attempts, length of the log and set of
signatures): `BatchInvariant`. The host decides from a log that may be cut anywhere
and from an exit code, so that `SInv` relates them to the scenario: `ScenarioInv` (how
far test, control and oracle can have come), `LogInv` (what a marker says of them,
with at most one violation in the log, and what the log of an undisturbed attempt
must hold), `HostInv` (which end of the container an exit code stands for, and that
only a client that was stopped leaves a container up), `RunInv` (a verdict is of a
container that is gone) and `BatchInv` (each record says what happened in its
attempt: its verdict is that of the run, or it was cut and is unrunnable; and the digest
lists what the aggregate says). From it `VerdictsAreTheOracles` and
`ReportsAreReproductions`: what is reported was reproduced, for every batch, and what
was reproduced is reported as long as no evidence of it was cut.

`LocalFirstProofs` (for every package, with scripts of any length): what the tracker
calls a rest is one for a package that keeps within a tolerance, and the theorem says
which. `WithinTolerance` reads it off the scripts: once a request has ended, three
awaits at most up to the next request of the task and six up to what its subscribers
are told or to its message, and no limit before the answer the adapter waits for. From
it `SettledWithinTolerance`: when the observation is judged, nothing is left of the
package that could have changed it. The queue decides, so that the invariant `Going`
says who is in it: `ScriptOK` (what a task has left is the end of its script),
`TaskOK` (a task is on the stack, once in the queue, or behind one open request),
`StageOK` and `CallOK` (where the adapter can be, and what it has not called yet),
`WaitOK` (the adapter has one continuation, in the queue or with the one thing it
waits for) and `OpenOK` (what woke it). `RestOK` is the argument: as long as no
request is open, a task is no more resumptions away from its next request than the
adapter is from the check, and no more away from its last notification than the
adapter is from the reading, where a place in the queue before the adapter counts as
one. A step of the task and a turn of the adapter both take one; a request puts the
adapter back; and requests end only when the queue is empty, so that when the last
one has ended nobody but its task has anything left. `AnswersAssumption` is that a
promise settles once: a task answers the adapter at most once, and only where the
adapter awaits it.

The constants' assumptions are named in the modules that declare them and are
evaluated by TLC in each run.

**Model-checked only.** Liveness under fairness, and everything with ENABLED:
`ImplementsContract`'s liveness part, `CaseIsDecided`, `InterpretationEnds`,
`GoneRunIsRecorded`, `ScenarioEnds`, `PreparationEnds`. And
`VerdictIsTheProducts` of `LocalFirstEnvironment`: what a script tells its subscribers
in the end, and how often, is a fold over the script, whose value for every script is
an induction over data. It holds for the packages `MCLocalFirstEnvironment`
enumerates, all of which are within the tolerance of the theorem.

## Not modelled

- The wire format: character-level parsing and serialization without state.
- The history audit, the contract probes and the validators of fixed documents:
  pure comparisons of files.
- The reduction receipt's validation (planned): it runs `reduceSpec` on recorded
  answers and compares documents.
- The preparation scripts of earlier phases (`prepare-v03-spike.mjs` and the
  others), but for the case loop of `prepare-v03-trust.mjs`: straight sequences of
  commands of the kind `Preparation` models with more faults.
- Import closures, the authoring ledger and the policy's text, the catalogs of the
  modules other than tx.
- The prepaint environment of the benchmark (planned), the tx oracle's projection
  and the fixture records.
- Argument parsing, the text of records, and the products under test, which appear
  as free choices of the environment.
