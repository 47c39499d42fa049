--------------------------------- MODULE Scorer ---------------------------------
(***************************************************************************)
(* scorePhase4Benchmark of src/v03-benchmark-score.mjs on the output of a  *)
(* measurement: the facts of pairs, replays and arms, and the first-match  *)
(* verdict of the three strategies.  Generation compares the arms G and P, *)
(* the operator strategy the arms A, B and C with the P seeds they start   *)
(* from, and the pipeline retains in E what D shows.  What the runner does *)
(* not write (the user's reviews, the state of trust, the authoring ledger *)
(* and the requests) is given to the scorer beside it.                     *)
(***************************************************************************)
EXTENDS Measurement

CONSTANTS
  Evidence,              \* bound: what a score may be given beside the measurement
  Ineligible,            \* truths that are not in metricEligibleTruthIds
  moduleIds,             \* PHASE4_MODULE_IDS
  retentionMinimum,      \* the rows the pipeline must retain from, 6 in the code
  applicableMinimum,     \* the complete applicable requests of a retirement, 6
  incrementalMinimum,    \* the groups an adopted operator adds, 2
  infrastructureRate,    \* the highest rate of unrunnable evaluations, <<1, 20>>
  retentionRate          \* below it the pipeline retires, <<4, 5>>

OperatorArms == {"A", "B", "C"}
\* The reviews of the candidates, by truth; the two verdicts of a real bug are one here.
ReviewVerdicts == {"real-bug", "wrong-expectation", "undecided"}

ASSUME ScorerAssumption ==
  /\ \A given \in Evidence :
       /\ \A truth \in DOMAIN given.reviews : given.reviews[truth] \in ReviewVerdicts
       /\ given.trust \in {"pass", "repairable-failure", "non-repairable-failure"}
       /\ given.epochAbort \in BOOLEAN
       /\ given.authoringComplete \in BOOLEAN   \* two sessions and turns, within the limits
       /\ given.seedsWithoutRows \subseteq {"G", "P"}
       /\ given.armsWithoutRequests \subseteq OperatorArms
  /\ {retentionMinimum, applicableMinimum, incrementalMinimum} \subseteq Nat
  /\ infrastructureRate \in Nat \X (Nat \ {0})
  /\ retentionRate \in Nat \X (Nat \ {0})

VARIABLES
  evidence,   \* what the scorer was given beside the measurement, when it ran
  score       \* whether scoring ended, and the branch of each strategy's verdict

scoreVars == <<evidence, score>>

-----------------------------------------------------------------------------
\* The indexes.  A truth has one module and one duplicate group, or buildIndexes throws.
IndexesConflict ==
  \E c1, c2 \in cases :
    /\ c1.truth = c2.truth
    /\ c1.module # c2.module \/ c1.duplicateGroup # c2.duplicateGroup

Truths == {c.truth : c \in cases}
EligibleTruths == Truths \ Ineligible
CaseOf(truth) == CHOOSE c \in cases : c.truth = truth
GroupOf(truth) == CaseOf(truth).duplicateGroup
ModuleOf(truth) == CaseOf(truth).module
EligibleGroups == {GroupOf(truth) : truth \in EligibleTruths}

\* rowsByCoordinate: run 0 is the initial evaluation; a missing row has no outcome.
OutcomeAt(arm, input, truth, role, run) ==
  LET at == {r \in 1..Len(rows) :
               /\ rows[r].case.arm = arm
               /\ rows[r].case.input = input
               /\ rows[r].case.truth = truth
               /\ rows[r].role = role
               /\ rows[r].replayIndex = run}
  IN IF at = {} THEN "missing" ELSE rows[CHOOSE r \in at : TRUE].outcome

Completed(outcome) == outcome \in {"pass", "violation", "other violation"}
CandidateFailure(outcome) == outcome \in {"violation", "other violation"}

\* initialPair.
CleanOf(arm, input, truth) == OutcomeAt(arm, input, truth, "clean", 0)
DefectOf(arm, input, truth) == OutcomeAt(arm, input, truth, "single-patch-defect", 0)
PairComplete(arm, input, truth) ==
  Completed(CleanOf(arm, input, truth)) /\ Completed(DefectOf(arm, input, truth))

PairRaw(arm, input, truth) ==
  /\ CleanOf(arm, input, truth) = "pass"
  /\ DefectOf(arm, input, truth) = "violation"

Raw(c) == PairRaw(c.arm, c.input, c.truth)

\* replayFacts: of the candidates the runner replayed.
ReplayOutcomes(c) ==
  {OutcomeAt(c.arm, c.input, c.truth, "single-patch-defect", run) : run \in 1..separateRuns}
ReplayComplete(c) == Started(c) /\ \A outcome \in ReplayOutcomes(c) : Completed(outcome)

Confirmed(c) == Raw(c) /\ ReplayComplete(c) /\ ReplayOutcomes(c) = {"violation"}

-----------------------------------------------------------------------------
\* armFacts.
EligibleCases(arms) ==
  {c \in cases : c.arm \in arms /\ c.duplicateGroup \in EligibleGroups}
GroupsOf(set) == {c.duplicateGroup : c \in set}
RawGroups(arm) == GroupsOf({c \in EligibleCases({arm}) : Raw(c)})
ConfirmedGroups(arms) ==
  GroupsOf({c \in EligibleCases(arms) \cap SelectedForReplay : Confirmed(c)})
CandidateGroups(arms) ==
  GroupsOf({c \in EligibleCases(arms) :
              \/ CandidateFailure(CleanOf(c.arm, c.input, c.truth))
              \/ CandidateFailure(DefectOf(c.arm, c.input, c.truth))})
CleanRegression(arms) ==
  \E c \in EligibleCases(arms) : CandidateFailure(CleanOf(c.arm, c.input, c.truth))
AllReplaysComplete(arm) ==
  \A c \in EligibleCases({arm}) \cap SelectedForReplay : Started(c) => ReplayComplete(c)

HighInfrastructureRate(charged) ==
  LET unrunnable == {r \in charged : rows[r].outcome = "unrunnable"}
  IN Cardinality(unrunnable) * infrastructureRate[2]
       > infrastructureRate[1] * Cardinality(charged)
Charged == {r \in 1..Len(rows) : rows[r].evaluationOrdinal # 0}
ChargedReplays == {r \in Charged : rows[r].phase = "replay"}
ChargedRows(set) == {r \in Charged : rows[r].case \in set}

\* reviewMetrics; a rate is compared as a fraction.
ReviewOf(given, group) ==
  LET truths == {truth \in DOMAIN given.reviews \cap Truths : GroupOf(truth) = group}
  IN IF truths = {} THEN "undecided" ELSE given.reviews[CHOOSE truth \in truths : TRUE]
Reviewed(given, groups) == \A group \in groups : ReviewOf(given, group) # "undecided"
Wrong(given, groups) == {group \in groups : ReviewOf(given, group) = "wrong-expectation"}

FalseOracleRateExceeds(given, arm, other) ==
  LET groups(a) == CandidateGroups({a})
  IN Cardinality(Wrong(given, groups(arm))) * Cardinality(groups(other))
       > Cardinality(Wrong(given, groups(other))) * Cardinality(groups(arm))

\* budgetFacts.
Exhausted ==
  \/ ledger.stoppedBy # "null"
  \/ \E r \in 1..Len(rows) : rows[r].reasonCode = "budget-exhausted"
BudgetPassed(given) == given.authoringComplete /\ ~Exhausted

\* verdict: the first branch that matches.
Branch(given, blocked, adopt, retire) ==
  CASE given.epochAbort -> "epoch-abort"
    [] ~given.epochAbort /\ given.trust = "non-repairable-failure" -> "trust-retire"
    [] OTHER -> IF blocked \/ given.trust = "repairable-failure" THEN "blocked-revise"
                ELSE IF adopt THEN "adopt"
                ELSE IF retire THEN "retire" ELSE "otherwise-revise"

-----------------------------------------------------------------------------
\* Plausible bug: a seed's pairs are those it has rows for.
SeedsCompleteOfRows(given, arm) ==
  /\ arm \notin given.seedsWithoutRows
  /\ \A c \in EligibleCases({arm}) : PairComplete(c.arm, c.input, c.truth)

\* expectedSeedPairs: every accepted seed belongs to one module, the seeds cover the
\* modules of the eligible truths, and each is evaluated on every one of its module.
Seeds(arm) == {c.input : c \in {c \in cases : c.arm = arm}}
SeedModules(arm, seed) == {c.module : c \in {c \in cases : c.arm = arm /\ c.input = seed}}
SeedsComplete(given, arm) ==
  /\ arm \notin given.seedsWithoutRows
  /\ \A seed \in Seeds(arm) : Cardinality(SeedModules(arm, seed)) = 1
  /\ {ModuleOf(truth) : truth \in EligibleTruths}
       \subseteq UNION {SeedModules(arm, seed) : seed \in Seeds(arm)}
  /\ \A seed \in Seeds(arm), truth \in EligibleTruths :
       ModuleOf(truth) \in SeedModules(arm, seed) => PairComplete(arm, seed, truth)

GenerationBlocked(given) ==
  \E arm \in {"G", "P"} :
    \/ Seeds(arm) = {}
    \/ CandidateGroups({arm}) = {}
    \/ ~SeedsComplete(given, arm)
    \/ ~AllReplaysComplete(arm)
    \/ ~Reviewed(given, CandidateGroups({arm}) \cup ConfirmedGroups({arm}))
    \/ CleanRegression({arm})
    \/ HighInfrastructureRate(ChargedRows(EligibleCases({arm})))
    \/ ~BudgetPassed(given)

Generation(given) ==
  Branch(given, GenerationBlocked(given),
    /\ ConfirmedGroups({"G"}) \subseteq ConfirmedGroups({"P"})
    /\ ~FalseOracleRateExceeds(given, "P", "G"),
    /\ Cardinality(ConfirmedGroups({"P"})) < Cardinality(ConfirmedGroups({"G"}))
    /\ FalseOracleRateExceeds(given, "P", "G"))

\* The operator strategy.  A request is applicable when it led to cases.
RequestedArms(given) == OperatorArms \ given.armsWithoutRequests
CompleteApplicable(given) ==
  {request \in RequestedArms(given) \X Seeds("P") :
     \E c \in cases :
       /\ c.arm = request[1]
       /\ c.input = request[2]
       /\ \E truth \in EligibleTruths : ModuleOf(truth) = c.module
       /\ \A truth \in EligibleTruths :
            ModuleOf(truth) = c.module => PairComplete(c.arm, c.input, truth)}

\* Plausible bug: the baseline is what P confirmed in its replays.
IncrementalToConfirmed == ConfirmedGroups(OperatorArms) \ ConfirmedGroups({"P"})

Incremental == ConfirmedGroups(OperatorArms) \ RawGroups("P")

OperatorBlocked(given) ==
  \/ RequestedArms(given) # OperatorArms
  \/ Seeds("P") = {}
  \/ ~SeedsComplete(given, "P")
  \/ ~Reviewed(given, CandidateGroups(OperatorArms))
  \/ CleanRegression(OperatorArms)
  \/ HighInfrastructureRate(ChargedRows(EligibleCases(OperatorArms)))
  \/ ~BudgetPassed(given)

Operator(given) ==
  Branch(given, OperatorBlocked(given),
    Cardinality(Incremental) >= incrementalMinimum,
    /\ Cardinality(CompleteApplicable(given)) >= applicableMinimum
    /\ moduleIds \subseteq {c.module : c \in
         {c \in cases : <<c.arm, c.input>> \in CompleteApplicable(given)}}
    /\ Incremental = {})

\* The pipeline: E retains a row whose anchor D is two-sided.
Anchored(c) == PairRaw("D", c.input, c.truth)
Retained(c) == Anchored(c) /\ Raw(c) /\ ReplayComplete(c) /\ ReplayOutcomes(c) = {"violation"}
RetentionComplete(c) ==
  /\ PairComplete("D", c.input, c.truth)
  /\ PairComplete("E", c.input, c.truth)
  /\ ReplayComplete(c)

\* Plausible bug: an incomplete row counts as one that was not retained.
PipelineBlockedWithoutCompleteness(given) ==
  \/ Cardinality(Retention) < retentionMinimum
  \/ ~(moduleIds \subseteq {c.module : c \in Retention})
  \/ \E c \in Retention : ~Anchored(c)
  \/ ~Reviewed(given, GroupsOf(Retention))
  \/ CleanRegression({"D", "E"})
  \/ HighInfrastructureRate(ChargedRows({c \in cases : c.arm \in {"D", "E"}}))
  \/ ~BudgetPassed(given)

PipelineBlocked(given) ==
  \/ Retention = {}
  \/ Cardinality(Retention) < retentionMinimum
  \/ ~(moduleIds \subseteq {c.module : c \in Retention})
  \/ \E c \in Retention : ~Anchored(c) \/ ~RetentionComplete(c)
  \/ ~Reviewed(given, GroupsOf(Retention))
  \/ CleanRegression({"D", "E"})
  \/ HighInfrastructureRate(ChargedRows({c \in cases : c.arm \in {"D", "E"}}))
  \/ ~BudgetPassed(given)

Pipeline(given) ==
  LET retained == Cardinality({c \in Retention : Retained(c)})
      all == Cardinality(Retention)
  IN Branch(given, PipelineBlocked(given),
       all > 0 /\ retained = all,
       all > 0 /\ retained * retentionRate[2] < retentionRate[1] * all)

-----------------------------------------------------------------------------
\* A row has a run record when its evaluation ended with a classified result.
HasRunRecord(outcome) == Completed(outcome) \/ outcome = "unrunnable"

\* What the scorer throws at: a ledger that disagrees with the rows, a truth of two modules
\* or duplicate groups, conflicting reviews of a group, a quota exceeded, a replay without a request, and, in replayFacts, a
\* replay row of a candidate that did not start or one without its run record.
Rejected(given) ==
  \/ {rows[r].evaluationOrdinal : r \in Charged} # 1..ledger.dockerEvaluations
  \/ Cardinality(ChargedReplays) # ledger.replayRuns
  \/ Cardinality({c \in SelectedForReplay : Started(c)}) # ledger.replayCandidates
  \/ IndexesConflict
  \/ \E t1, t2 \in DOMAIN given.reviews \cap Truths :
       GroupOf(t1) = GroupOf(t2) /\ given.reviews[t1] # given.reviews[t2]
  \/ \E arm \in GenerationArms :
       Cardinality({c \in SelectedForReplay : c.arm = arm}) > candidateMaximumPerArm
  \/ \E c \in SelectedForReplay : c.arm \in given.armsWithoutRequests
  \/ \E c \in SelectedForReplay :
       \/ ~Started(c)
       \/ \E outcome \in ReplayOutcomes(c) : ~HasRunRecord(outcome)

Verdicts(state, generation, operator, pipeline) ==
  [state |-> state, generation |-> generation, operator |-> operator, pipeline |-> pipeline]

ScoreInit ==
  /\ Init
  /\ evidence = {}
  /\ score = Verdicts("none", "none", "none", "none")

\* scorePhase4Benchmark.
Score(given) ==
  /\ stage = "measured"
  /\ score.state = "none"
  /\ evidence' = {given}
  /\ score' = IF Rejected(given)
              THEN Verdicts("rejected", "none", "none", "none")
              ELSE Verdicts("scored", Generation(given), Operator(given), Pipeline(given))
  /\ UNCHANGED vars

ScoreNext ==
  \/ Next /\ UNCHANGED scoreVars
  \/ \E given \in Evidence : Score(given)

ScoreSpec == ScoreInit /\ [][ScoreNext]_<<vars, scoreVars>>

-----------------------------------------------------------------------------
\* The replays of a case all showed the registered violation, and its pair is two-sided.
Caught(c) ==
  /\ c \in SelectedForReplay
  /\ \A r \in 1..Len(rows) :
       rows[r].case = c =>
         rows[r].outcome = IF rows[r].role = "clean" THEN "pass" ELSE "violation"

\* No budget ended early, every group an evaluation of G caught is caught by P, every
\* accepted seed has a result on every eligible truth of its module, and no eligible
\* clean artifact violated anything.
NothingIsLost ==
  /\ \A r \in 1..Len(rows) : rows[r].reasonCode # "budget-exhausted"
  /\ \A c \in cases :
       c.arm = "G" /\ c.truth \notin Ineligible /\ Caught(c) =>
         \E twin \in cases : twin.arm = "P" /\ twin.duplicateGroup = c.duplicateGroup
                              /\ Caught(twin)
  /\ \A arm \in {"G", "P"}, truth \in EligibleTruths :
       /\ \E c \in cases : c.arm = arm /\ c.module = ModuleOf(truth)
       /\ \A c \in cases : c.arm = arm /\ c.module = ModuleOf(truth) =>
            \E twin \in cases :
              /\ twin.arm = arm /\ twin.input = c.input /\ twin.truth = truth
              /\ InitialOutcome(twin, "clean") = "pass"
              /\ InitialOutcome(twin, "single-patch-defect") \in
                   {"pass", "violation", "other violation"}

\* A procedure is adopted on a whole measurement that says something of each of its
\* seeds, and the adoption loses nothing that was found without it.
AdoptionLosesNothing ==
  score.generation = "adopt" =>
    NothingIsLost /\ \A given \in evidence : given.seedsWithoutRows = {}

\* At least incrementalMinimum groups were caught by an operator's case and are shown by
\* no pair of P, though P has a result on both sides of their eligible truths.
YieldIsNew ==
  \E groups \in SUBSET {c.duplicateGroup : c \in cases} :
    /\ Cardinality(groups) >= incrementalMinimum
    /\ \A group \in groups :
         /\ \E c \in cases :
              c.arm \in OperatorArms /\ c.duplicateGroup = group /\ Caught(c)
         /\ \E c \in cases : c.arm = "P" /\ c.duplicateGroup = group /\ c.truth \notin Ineligible
         /\ \A c \in cases : c.arm = "P" /\ c.duplicateGroup = group =>
              /\ c.truth \notin Ineligible =>
                   {InitialOutcome(c, "clean"), InitialOutcome(c, "single-patch-defect")}
                     \subseteq {"pass", "violation", "other violation"}
              /\ ~(/\ InitialOutcome(c, "clean") = "pass"
                   /\ InitialOutcome(c, "single-patch-defect") = "violation")

\* What an adopted operator strategy adds is new: no group the P seeds had shown counts,
\* on any of its truths, replayed or not (docs/PHASE4-EXECUTION-PLAN.md line 140: no "P
\* observation outside its replay quota as an operator-only discovery").
OperatorYieldIsNew == score.operator = "adopt" => YieldIsNew

\* Every frozen row has its two-sided anchor and came to a result in each evaluation of
\* E, and one of them was a result other than the anchor's violation.
RetentionFailed ==
  /\ \A c \in Retention :
       /\ \E anchor \in cases :
            /\ anchor.arm = "D" /\ anchor.input = c.input /\ anchor.truth = c.truth
            /\ InitialOutcome(anchor, "clean") = "pass"
            /\ InitialOutcome(anchor, "single-patch-defect") = "violation"
       /\ \A r \in 1..Len(rows) :
            rows[r].case = c => rows[r].outcome \in {"pass", "violation", "other violation"}
  /\ \E c \in Retention : ~Caught(c)

\* A pipeline is retired on counterevidence, never on infrastructure or on a missing row.
RetirementIsCounterevidence == score.pipeline = "retire" => RetentionFailed

=============================================================================
