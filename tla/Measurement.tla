------------------------------ MODULE Measurement ------------------------------
(***************************************************************************)
(* runPhase4Measurement of src/v03-benchmark-runner.mjs: the initial       *)
(* schedule of every arm, the replay schedule computed from its rows, the  *)
(* two budgets (evaluations and seconds) and the ledger; and what the      *)
(* final validator (src/src/v03-benchmark-validation.mjs) accepts of its   *)
(* rows.  executeCase is createDockerCaseExecutor with                     *)
(* normalizePhase4ExecutedCase as its classifier, the two functions that   *)
(* module offers for it, and buildPhase4RawRunRecord for its record: one   *)
(* container run, which may come to any end and take any time.             *)
(*                                                                         *)
(* A logical case is a record of the fields the schedules are ordered and  *)
(* selected by; modules, inputs and truths are numbered in their order.    *)
(***************************************************************************)
EXTENDS Integers, Sequences, FiniteSets

CONSTANTS
  CaseSets,              \* bound: the sets of logical cases a measurement may be given
  Outcomes,              \* bound: the results of an evaluation, of AllOutcomes
  Durations,             \* bound: the seconds an evaluation may take
  dockerEvaluationMaximum,
  wallClockMaximum,      \* monotonicWallClockSecondsMaximum
  candidateMaximumPerArm,
  candidateMaximum,
  separateRuns           \* separateRunsPerCandidate

Arms == <<"G", "P", "A", "B", "C", "D", "E">>
GenerationArms == {"G", "P", "A", "B", "C"}
ArmIndex(arm) == CHOOSE a \in 1..Len(Arms) : Arms[a] = arm

\* A pass, a violation with the identity its truth is committed to, another one, a run
\* that exits without its result, one with a malformed result, one that passes and whose
\* container is not removed, and an exception of the executor.
AllOutcomes ==
  {"pass", "violation", "other violation", "unrunnable", "malformed", "uncleaned", "exception"}

ASSUME MeasurementAssumption ==
  /\ Outcomes \subseteq AllOutcomes
  /\ Durations \subseteq Nat
  /\ dockerEvaluationMaximum \in Nat
  /\ wallClockMaximum \in Nat
  /\ candidateMaximumPerArm \in Nat
  /\ candidateMaximum \in Nat
  /\ separateRuns \in Nat \ {0}

\* The logical cases are told apart by their coordinates (validatePhase4MeasurementManifest
\* refuses two with the same ones), and the quotas of the arms and the frozen retention
\* cases fit the replay budget (PHASE4_APPROVED_BUDGETS: 5 * 2 + 20 <= 30).
ASSUME CasesAssumption ==
  \A set \in CaseSets :
    /\ IsFiniteSet(set)
    /\ \A c \in set : /\ \E a \in 1..Len(Arms) : c.arm = Arms[a]
                      /\ c.module \in Nat /\ c.input \in Nat /\ c.truth \in Nat
    /\ \A c1, c2 \in set :
         c1.arm = c2.arm /\ c1.module = c2.module /\ c1.input = c2.input /\ c1.truth = c2.truth
           => c1 = c2
    /\ Cardinality(GenerationArms) * candidateMaximumPerArm
         + Cardinality({c \in set : c.arm = "E"}) <= candidateMaximum

VARIABLES
  stage,           \* "initial", "replay", "measured", or "thrown"
  cases,           \* the logical cases
  clock,           \* nowSeconds() - startedAt
  rows,
  initialSchedule,
  replaySchedule,
  ledger           \* the counts of the budget ledger

scheduleVars == <<initialSchedule, replaySchedule>>
vars == <<stage, cases, clock, rows, scheduleVars, ledger>>

-----------------------------------------------------------------------------
\* The schedules.
Before(c1, c2) ==
  LET keys(c) == <<ArmIndex(c.arm), c.module, c.input, c.truth>>
  IN \E k \in 1..4 :
       keys(c1)[k] < keys(c2)[k] /\ \A l \in 1..(k - 1) : keys(c1)[l] = keys(c2)[l]

Ordered(set) ==
  [n \in 1..Cardinality(set) |->
     CHOOSE c \in set : Cardinality({other \in set : Before(other, c)}) = n - 1]

\* buildPhase4InitialSchedule: every case on the clean and on the defect artifact.
InitialScheduleOf(set) ==
  LET ordered == Ordered(set)
  IN [n \in 1..(2 * Len(ordered)) |->
        [case |-> ordered[(n + 1) \div 2],
         role |-> IF n % 2 = 1 THEN "clean" ELSE "single-patch-defect",
         phase |-> "initial", replayIndex |-> 0, selected |-> TRUE]]

InitialOutcome(c, role) ==
  LET r == CHOOSE r \in 1..Len(rows) :
             rows[r].phase = "initial" /\ rows[r].case = c /\ rows[r].role = role
  IN rows[r].outcome

\* A two-sided candidate: the registered violation on the defect, a pass on the clean.
RawCandidates(arm) ==
  {c \in cases :
     /\ c.arm = arm
     /\ InitialOutcome(c, "single-patch-defect") = "violation"
     /\ InitialOutcome(c, "clean") = "pass"}

\* Plausible bug: a duplicate counts against the quota of its arm.
SelectedWithDuplicates(arm) ==
  {c \in RawCandidates(arm) :
     Cardinality({other \in RawCandidates(arm) : Before(other, c)}) < candidateMaximumPerArm}

\* The first candidate of each of the first duplicate groups of an arm.
Selected(arm) ==
  LET firsts == {c \in RawCandidates(arm) :
                   \A other \in RawCandidates(arm) :
                     Before(other, c) => other.duplicateGroup # c.duplicateGroup}
  IN {c \in firsts :
        Cardinality({other \in firsts : Before(other, c)}) < candidateMaximumPerArm}

Retention == {c \in cases : c.arm = "E"}
ReplayCandidates == (UNION {Selected(arm) : arm \in GenerationArms}) \cup Retention

\* buildPhase4ReplaySchedule: separateRuns items for every case of a generation or
\* operator arm and of the retention path, those not selected included.
ReplaySchedule ==
  LET ordered == Ordered({c \in cases : c.arm \in GenerationArms} \cup Retention)
  IN [n \in 1..(separateRuns * Len(ordered)) |->
        LET c == ordered[((n - 1) \div separateRuns) + 1]
        IN [case |-> c, role |-> "single-patch-defect", phase |-> "replay",
            replayIndex |-> ((n - 1) % separateRuns) + 1,
            selected |-> c \in ReplayCandidates]]

-----------------------------------------------------------------------------
Init ==
  /\ cases \in CaseSets
  /\ stage = "initial"
  /\ clock = 0
  /\ rows = <<>>
  /\ initialSchedule = InitialScheduleOf(cases)
  /\ replaySchedule = <<>>
  /\ ledger = [dockerEvaluations |-> 0, replayRuns |-> 0, replayCandidates |-> 0,
               elapsedSeconds |-> 0, stoppedBy |-> "null"]

\* The two for loops: rows are pushed in the order of the schedules, one per item.
Schedule == initialSchedule \o replaySchedule
Due == Len(rows) < Len(Schedule)
Item == Schedule[Len(rows) + 1]

\* A row; its run record is empty while runRecordRef is null.
Row(item, outcome, reasonCode, evaluationOrdinal, runRecord) ==
  [case |-> item.case, role |-> item.role, phase |-> item.phase,
   replayIndex |-> item.replayIndex, outcome |-> outcome, reasonCode |-> reasonCode,
   evaluationOrdinal |-> evaluationOrdinal, runRecord |-> runRecord]

Push(row) == rows' = Append(rows, row)

\* notRunRow
NotRunRow(item, reasonCode) == Row(item, "not-run", reasonCode, 0, {})

\* validatePhase4MeasurementRow: a reason is an identifier, which that of a malformed
\* result is not, and a row is charged when it has an ordinal within the budget.
ValidateMeasurementRow(row) ==
  /\ row.reasonCode \in {"null", "evaluator-early-exit", "runner-infrastructure",
                         "budget-exhausted", "replay-not-selected"}
  /\ row.evaluationOrdinal <= dockerEvaluationMaximum

\* Plausible bug: only the number of evaluations is a budget.
BudgetLeftOfEvaluations == ledger.dockerEvaluations < dockerEvaluationMaximum

BudgetLeft ==
  /\ ledger.dockerEvaluations < dockerEvaluationMaximum
  /\ clock < wallClockMaximum

\* execute without budget: the row says so and is not charged.
BudgetExhausted ==
  /\ stage \in {"initial", "replay"}
  /\ Due
  /\ Item.selected
  /\ ~BudgetLeft
  /\ Push(NotRunRow(Item, "budget-exhausted"))
  /\ ledger' = [ledger EXCEPT !.stoppedBy = "measurement-budget-exhausted"]
  /\ UNCHANGED <<stage, cases, clock, scheduleVars>>

\* createIsolatedBenchmarkCaseRunner: the run of an evaluation, none when it throws.
Runs(outcome) ==
  IF outcome = "exception" THEN {}
  ELSE {[exitsWell |-> outcome # "unrunnable",
         result |-> IF outcome = "uncleaned" THEN "pass" ELSE outcome,
         removed |-> outcome # "uncleaned"]}

\* classifyBenchmarkTrustedResult
Classification(run) ==
  CASE ~run.exitsWell -> [status |-> "unrunnable", reason |-> "evaluator-early-exit"]
    [] run.exitsWell /\ run.result = "malformed" ->
         [status |-> "unrunnable", reason |-> "malformed-trusted-result:<detail>"]
    [] OTHER -> [status |-> run.result, reason |-> "null"]

\* buildPhase4RawRunRecord
RawRunRecord(sequence, run) == [sequence |-> sequence, run |-> run]

\* normalizePhase4ExecutedCase: the removal of the container is not looked at.
Normalized(item, ordinal, sequence, run) ==
  Row(item, Classification(run).status, Classification(run).reason, ordinal,
      {RawRunRecord(sequence, run)})

\* The row of the catch: what threw may have been the run or the validation of its row.
InfrastructureRow(item, ordinal) ==
  Row(item, "planner-error", "runner-infrastructure", ordinal, {})

ExecutedRow(item, ordinal, sequence, outcome) ==
  LET rowsOfRuns == {Normalized(item, ordinal, sequence, run) : run \in Runs(outcome)}
  IN IF \E row \in rowsOfRuns : ValidateMeasurementRow(row)
     THEN CHOOSE row \in rowsOfRuns : TRUE
     ELSE InfrastructureRow(item, ordinal)

\* execute: charged before it runs.
Execute(outcome, seconds) ==
  /\ stage \in {"initial", "replay"}
  /\ Due
  /\ Item.selected
  /\ BudgetLeft
  /\ LET ordinal == ledger.dockerEvaluations + 1 IN
       /\ ledger' = [ledger EXCEPT !.dockerEvaluations = ordinal,
                                   !.replayRuns = IF Item.phase = "replay" THEN @ + 1 ELSE @]
       /\ Push(ExecutedRow(Item, ordinal, Len(rows), outcome))
  /\ clock' = clock + seconds
  /\ UNCHANGED <<stage, cases, scheduleVars>>

\* Plausible bug: a replay that was not selected leaves no row.
SkipWithoutRow ==
  /\ stage = "replay"
  /\ Due
  /\ ~Item.selected
  /\ replaySchedule' = SelectSeq(replaySchedule, LAMBDA item : item.selected)
  /\ UNCHANGED <<stage, cases, clock, rows, initialSchedule, ledger>>

SkipUnselected ==
  /\ stage = "replay"
  /\ Due
  /\ ~Item.selected
  /\ Push(NotRunRow(Item, "replay-not-selected"))
  /\ UNCHANGED <<stage, cases, clock, scheduleVars, ledger>>

\* Between the loops the replay schedule is built; it asserts its own maximum.
BuildReplaySchedule ==
  /\ stage = "initial"
  /\ ~Due
  /\ IF Cardinality(ReplayCandidates) <= candidateMaximum
     THEN stage' = "replay" /\ replaySchedule' = ReplaySchedule
     ELSE stage' = "thrown" /\ UNCHANGED replaySchedule
  /\ UNCHANGED <<cases, clock, rows, initialSchedule, ledger>>

\* A candidate is started when one of its replays was charged.
Started(c) ==
  \E r \in 1..Len(rows) :
    rows[r].phase = "replay" /\ rows[r].case = c /\ rows[r].evaluationOrdinal # 0

SelectedForReplay == {replaySchedule[n].case :
                        n \in {m \in 1..Len(replaySchedule) : replaySchedule[m].selected}}

\* validatePhase4BudgetLedger
ValidateBudgetLedger(l) ==
  /\ l.dockerEvaluations <= dockerEvaluationMaximum
  /\ l.replayCandidates <= candidateMaximum
  /\ l.replayRuns <= candidateMaximum * separateRuns
  /\ l.elapsedSeconds <= wallClockMaximum

\* The ledger is closed and validated.
Close ==
  /\ stage = "replay"
  /\ ~Due
  /\ ledger' = [ledger EXCEPT !.replayCandidates = Cardinality({c \in SelectedForReplay : Started(c)}),
                              !.elapsedSeconds = clock]
  /\ stage' = IF ValidateBudgetLedger(ledger') THEN "measured" ELSE "thrown"
  /\ UNCHANGED <<cases, clock, rows, scheduleVars>>

Over ==
  /\ stage \in {"measured", "thrown"}
  /\ UNCHANGED vars

Next ==
  \/ BudgetExhausted
  \/ \E outcome \in Outcomes, seconds \in Durations : Execute(outcome, seconds)
  \/ SkipUnselected
  \/ BuildReplaySchedule
  \/ Close
  \/ Over

Spec == Init /\ [][Next]_vars

-----------------------------------------------------------------------------
\* validatePhase4RawRunRecord: the container was removed, and the verdict of the row is
\* what the raw result is classified as.
ValidateRawRunRecord(record, row) ==
  /\ record.run.removed
  /\ row.outcome = Classification(record.run).status
  /\ row.reasonCode = Classification(record.run).reason

\* Plausible bug: a charged row may go without its run record.
ChargedRowUnrecorded(row) == TRUE

ChargedRowHasRecord(row) == row.evaluationOrdinal # 0 => row.runRecord # {}

\* validatePhase4Evidence, as far as rows, run records and ledger are concerned.
EvidenceIsValid ==
  /\ Len(rows) = Len(Schedule)
  /\ \A r \in 1..Len(rows) :
       /\ ValidateMeasurementRow(rows[r])
       /\ ChargedRowHasRecord(rows[r])
       /\ \A record \in rows[r].runRecord :
            record.sequence = r - 1 /\ ValidateRawRunRecord(record, rows[r])
  /\ ValidateBudgetLedger(ledger)

\* A measurement is accepted as evidence exactly when every evaluation that was charged
\* left a run whose container is gone and whose result could be classified: then there
\* are as many run records as evaluations, and no verdict without one.  One evaluation
\* that ends otherwise costs the acceptance of all of them.
EvidenceIsOfEveryRun ==
  stage = "measured" =>
    /\ EvidenceIsValid <=>
         /\ \A r \in 1..Len(rows) : rows[r].outcome # "planner-error"
         /\ \A r \in 1..Len(rows) : \A record \in rows[r].runRecord : record.run.removed
    /\ EvidenceIsValid =>
         /\ Cardinality(UNION {rows[r].runRecord : r \in 1..Len(rows)}) = ledger.dockerEvaluations
         /\ \A r \in 1..Len(rows) :
              rows[r].outcome # "not-run" =>
                \E record \in rows[r].runRecord :
                  record.run.exitsWell => rows[r].outcome = record.run.result

\* No case drops out: a measurement has one row for each initial evaluation and for
\* each replay of a generation, operator or retention case, whatever became of the
\* others (docs/V0.3-CONTRACT.md line 106: no rejection, timeout or failure "may remove a
\* frozen retention row").
EveryItemHasItsRow ==
  stage = "measured" =>
    \A c \in cases :
      /\ \A role \in {"clean", "single-patch-defect"} :
           Cardinality({r \in 1..Len(rows) :
             rows[r].case = c /\ rows[r].phase = "initial" /\ rows[r].role = role}) = 1
      /\ c.arm # "D" =>
           \A run \in 1..separateRuns :
             Cardinality({r \in 1..Len(rows) :
               rows[r].case = c /\ rows[r].phase = "replay" /\ rows[r].replayIndex = run}) = 1

\* Replays are spent on the frozen retention cases and, in each other arm, on at most
\* the quota of two-sided candidates, no two of a duplicate group, and none while an
\* earlier candidate of the arm was passed over for anything but a duplicate.
ReplaysAreTheFirstCandidates ==
  stage \in {"replay", "measured"} =>
    \A arm \in GenerationArms :
      LET chosen == {c \in SelectedForReplay : c.arm = arm} IN
      /\ Cardinality(chosen) <= candidateMaximumPerArm
      /\ \A c \in chosen :
           /\ InitialOutcome(c, "single-patch-defect") = "violation"
           /\ InitialOutcome(c, "clean") = "pass"
      /\ \A c1, c2 \in chosen : c1.duplicateGroup = c2.duplicateGroup => c1 = c2
      /\ \A c \in RawCandidates(arm) \ chosen :
           \/ \E twin \in chosen : twin.duplicateGroup = c.duplicateGroup /\ Before(twin, c)
           \/ /\ Cardinality(chosen) = candidateMaximumPerArm
              /\ \A other \in chosen : Before(other, c)

\* Both budgets hold as far as a check before each evaluation can hold them: after the
\* first exhausted row none is charged any more, the wall-clock budget is exceeded by
\* less than the evaluation it could not foresee, and nothing but that makes the runner
\* throw its rows away.
BudgetsHold ==
  /\ \A r1, r2 \in 1..Len(rows) :
       r1 < r2 /\ rows[r1].reasonCode = "budget-exhausted" => rows[r2].evaluationOrdinal = 0
  /\ clock > wallClockMaximum =>
       \E seconds \in Durations : clock < wallClockMaximum + seconds
  /\ stage = "thrown" => clock > wallClockMaximum

=============================================================================
