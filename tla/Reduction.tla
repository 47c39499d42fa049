------------------------------ MODULE Reduction ------------------------------
(***************************************************************************)
(* reduceSpec of src/v03-reduction.mjs: the scan that removes dependency   *)
(* closures while the violation is preserved, the clean check and the      *)
(* replays that close it, and everything that blocks it.  The loop is      *)
(* sequential; what it cannot know is what `evaluate` answers, a whole     *)
(* container run of scripts/prepare-v03-reduction.mjs, so every evaluation *)
(* may have any outcome, also of the same spec twice.                      *)
(***************************************************************************)
EXTENDS ReductionRules

CONSTANTS
  Inputs,                \* the inputs a reduction may start from
  maxCandidateAttempts,  \* registration
  maxEvaluations,
  replayRuns

ASSUME RegistrationAssumption ==
  /\ maxCandidateAttempts \in Nat \ {0}
  /\ maxEvaluations \in Nat \ {0}
  /\ replayRuns \in Nat \ {0}

\* What the schema of seeds and requests says of an input.
ASSUME InputsAssumption ==
  Inputs \subseteq
    [actors : Seq(STRING),
     actions : Seq([actionId : STRING, actor : STRING, bind : STRING, tx : STRING,
                    outcome : STRING, timeoutMs : Nat]),
     transformations : Seq([operatorId : STRING, ids : Seq(Nat), advanceMs : Nat,
                            outcome : STRING]),
     invariant : STRING]

VARIABLES
  stage,      \* where reduceSpec is, or how it ended
  blocker,    \* why it is not one-minimal
  input,      \* the input it was given
  current,    \* the reduced input so far
  scanned,    \* the selectors of current the scan has passed since its restart
  attempts,
  runs,
  validAttempts,
  acceptedRemovals

countVars == <<validAttempts, acceptedRemovals>>
vars == <<stage, blocker, input, current, scanned, attempts, runs, countVars>>

\* What evaluate and the check of its record come to, in the order execute looks.
Throws == {"evaluate throws", "record is invalid"}
Blocks == {"container-cleanup-failed", "unrunnable"}
Verdicts == {"pass", "same violation", "other violation"}
Outcomes == Throws \cup Blocks \cup Verdicts
\* A violation of the clean artifact names another artifact digest.
CleanOutcomes == Outcomes \ {"same violation"}

Preserves(outcome) == outcome = "same violation"

Init ==
  /\ input \in {i \in Inputs : Valid(i)}
  /\ current = input
  /\ stage = "initial"
  /\ blocker = "null"
  /\ scanned = {}
  /\ attempts = <<>>
  /\ runs = <<>>
  /\ validAttempts = 0
  /\ acceptedRemovals = 0

-----------------------------------------------------------------------------
\* A ReductionBlocked error ends the reduction with its message.
Block(reason) ==
  /\ stage' = "reduced-not-one-minimal"
  /\ blocker' = reason

\* runs.push: a run is recorded unless evaluate itself threw.
Record(phase, artifact, candidate, outcome) ==
  runs' = IF outcome = "evaluate throws" THEN runs
          ELSE Append(runs, [phase |-> phase, artifact |-> artifact,
                             candidate |-> candidate, outcome |-> outcome])

\* execute and what its caller asks of the verdict, outside the scan.
Execute(phase, artifact, outcome, required, next, mismatch) ==
  /\ Record(phase, artifact, current, outcome)
  /\ \/ /\ outcome \in Throws
        /\ stage' = "thrown"
        /\ UNCHANGED blocker
     \/ /\ outcome \in Blocks
        /\ Block(outcome)
     \/ /\ outcome = required
        /\ stage' = next
        /\ UNCHANGED blocker
     \/ /\ outcome \in Verdicts \ {required}
        /\ Block(mismatch)
  /\ UNCHANGED <<input, current, scanned, attempts, countVars>>

EvaluationsLeft == Len(runs) < maxEvaluations

\* execute's own budget check, outside the scan.
EvaluationBudgetExhausted ==
  /\ \/ stage \in {"initial", "replay"}
     \/ stage = "scan" /\ scanned = Selectors(current)
  /\ ~EvaluationsLeft
  /\ Block("evaluation-budget-exhausted")
  /\ UNCHANGED <<input, current, scanned, attempts, runs, countVars>>

\* The given input must violate the invariant the expected way.
InitialRun ==
  /\ stage = "initial"
  /\ EvaluationsLeft
  /\ \E outcome \in Outcomes :
       Execute("initial", "defect", outcome,
               "same violation", "scan", "initial-violation-mismatch")

-----------------------------------------------------------------------------
\* The scan: one attempt at the next selector of the current input.
Unscanned == Selectors(current) \ scanned
Scanning == stage = "scan" /\ Unscanned # {}

\* What is pushed to attempts; runIndex 0 stands for null, and for an invalid
\* attempt, which has none.
Attempt(selector, status, runIndex, preserved) ==
  [before |-> current, selector |-> selector, status |-> status,
   runIndex |-> runIndex, preserved |-> preserved]

\* Plausible bug: an invalid candidate is skipped without an attempt.
PassOverUnrecorded(selector, status, runIndex) ==
  /\ attempts' = IF status = "invalid" THEN attempts
                 ELSE Append(attempts, Attempt(selector, status, runIndex, FALSE))
  /\ scanned' = scanned \cup {selector}
  /\ UNCHANGED <<stage, blocker, current, acceptedRemovals>>

\* The attempt is refused: the scan goes on with the next selector.
PassOver(selector, status, runIndex) ==
  /\ attempts' = Append(attempts, Attempt(selector, status, runIndex, FALSE))
  /\ scanned' = scanned \cup {selector}
  /\ UNCHANGED <<stage, blocker, current, acceptedRemovals>>

\* The attempt blocks the reduction, and is recorded all the same.
BlockAttempt(selector, reason, runIndex) ==
  /\ Block(reason)
  /\ attempts' = Append(attempts, Attempt(selector, "blocked", runIndex, FALSE))
  /\ UNCHANGED <<current, scanned, acceptedRemovals>>

\* Plausible bug: the scan goes on where it is instead of restarting.
AcceptWithoutRestart(selector, candidate) ==
  /\ attempts' = Append(attempts, Attempt(selector, "executed", Len(runs) + 1, TRUE))
  /\ current' = candidate
  /\ acceptedRemovals' = acceptedRemovals + 1
  /\ UNCHANGED <<stage, blocker, scanned>>

\* Plausible bug: the candidate is counted but not kept.
AcceptWithoutKeeping(selector, candidate) ==
  /\ attempts' = Append(attempts, Attempt(selector, "executed", Len(runs) + 1, TRUE))
  /\ scanned' = {}
  /\ acceptedRemovals' = acceptedRemovals + 1
  /\ UNCHANGED <<stage, blocker, current>>

\* The attempt is accepted: the candidate becomes the current input and the scan
\* restarts at its first selector.
Accept(selector, candidate) ==
  /\ attempts' = Append(attempts, Attempt(selector, "executed", Len(runs) + 1, TRUE))
  /\ current' = candidate
  /\ scanned' = {}
  /\ acceptedRemovals' = acceptedRemovals + 1
  /\ UNCHANGED <<stage, blocker>>

CandidateBudgetExhausted ==
  /\ Scanning
  /\ Len(attempts) >= maxCandidateAttempts
  /\ Block("candidate-budget-exhausted")
  /\ UNCHANGED <<input, current, scanned, attempts, runs, countVars>>

\* prepare throws: the rest is no spec, no evaluation is spent on it.
RejectInvalid ==
  /\ Scanning
  /\ Len(attempts) < maxCandidateAttempts
  /\ LET selector == FirstOf(Unscanned) IN
       /\ ~Valid(Remove(current, selector))
       /\ PassOver(selector, "invalid", 0)
  /\ UNCHANGED <<input, runs, validAttempts>>

\* A valid candidate is executed.
TryCandidate ==
  /\ Scanning
  /\ Len(attempts) < maxCandidateAttempts
  /\ LET selector == FirstOf(Unscanned)
         candidate == Remove(current, selector)
     IN
       /\ Valid(candidate)
       /\ validAttempts' = validAttempts + 1
       /\ \/ /\ ~EvaluationsLeft
             /\ BlockAttempt(selector, "evaluation-budget-exhausted", 0)
             /\ UNCHANGED runs
          \/ /\ EvaluationsLeft
             /\ \E outcome \in Outcomes :
                  /\ Record("candidate", "defect", candidate, outcome)
                  /\ \/ /\ outcome \in Throws
                        /\ stage' = "thrown"
                        /\ UNCHANGED <<blocker, current, scanned, attempts, acceptedRemovals>>
                     \/ /\ outcome \in Blocks
                        /\ BlockAttempt(selector, outcome, Len(runs) + 1)
                     \/ /\ outcome \in Verdicts
                        /\ ~Preserves(outcome)
                        /\ PassOver(selector, "executed", Len(runs) + 1)
                     \/ /\ Preserves(outcome)
                        /\ Accept(selector, candidate)
  /\ UNCHANGED input

-----------------------------------------------------------------------------
\* A full scan without a removal: the clean artifact must pass on the result,
CleanCheck ==
  /\ stage = "scan"
  /\ Unscanned = {}
  /\ EvaluationsLeft
  /\ \E outcome \in CleanOutcomes :
       Execute("clean-check", "clean", outcome, "pass", "replay", "clean-check-failed")

Replays == {r \in 1..Len(runs) : runs[r].phase = "replay"}

\* Plausible bug: one replay too few.
ReplayOneLess ==
  /\ stage = "replay"
  /\ EvaluationsLeft
  /\ \E outcome \in Outcomes :
       Execute("replay", "defect", outcome, "same violation",
               IF Cardinality(Replays) + 2 >= replayRuns THEN "one-minimal" ELSE "replay",
               "replay-violation-mismatch")

\* and the defect artifact must violate it again, replayRuns times.
Replay ==
  /\ stage = "replay"
  /\ EvaluationsLeft
  /\ \E outcome \in Outcomes :
       Execute("replay", "defect", outcome, "same violation",
               IF Cardinality(Replays) + 1 = replayRuns THEN "one-minimal" ELSE "replay",
               "replay-violation-mismatch")

Final == {"one-minimal", "reduced-not-one-minimal", "thrown"}

Ended ==
  /\ stage \in Final
  /\ UNCHANGED vars

Next ==
  \/ EvaluationBudgetExhausted
  \/ InitialRun
  \/ CandidateBudgetExhausted
  \/ RejectInvalid
  \/ TryCandidate
  \/ CleanCheck
  \/ Replay
  \/ Ended

Spec == Init /\ [][Next]_vars

-----------------------------------------------------------------------------
Violates(outcome) == outcome = "same violation"
\* A selector was tried on this very input, and its removal was rejected: it is no
\* spec, or it ran and did not show the violation.
Rejected(i, selector) ==
  \E k \in 1..Len(attempts) :
    /\ attempts[k].before = i
    /\ attempts[k].selector = selector
    /\ attempts[k].status \in {"invalid", "executed"}
    /\ ~attempts[k].preserved

\* What the scan knows at every moment: the selectors it has passed were rejected on
\* the current input, and past the scan all of them were (lines 149-185).
ScanInv ==
  /\ stage = "scan" => \A selector \in scanned : Rejected(current, selector)
  /\ stage \in {"replay", "one-minimal"} =>
       \A selector \in Selectors(current) : Rejected(current, selector)

\* one-minimal is what it says (V0.3-CONTRACT line 218, "a full fixed-point scan"):
\* no registered removal from the final input is left untried or unrejected, those
\* tried before the last accepted removal included.
OneMinimal ==
  stage = "one-minimal" => \A selector \in Selectors(current) : Rejected(current, selector)

\* and it rests on fresh executions: the given input and the final one show the
\* violation, the clean artifact passes, and the last runs are the replays.
OneMinimalIsReplayed ==
  stage = "one-minimal" =>
    LET last == Len(runs) IN
    /\ runs[1].phase = "initial" /\ Violates(runs[1].outcome)
    /\ runs[last - replayRuns].phase = "clean-check"
    /\ runs[last - replayRuns].candidate = current
    /\ runs[last - replayRuns].outcome = "pass"
    /\ \A r \in (last - replayRuns + 1)..last :
         runs[r].artifact = "defect" /\ runs[r].candidate = current /\ Violates(runs[r].outcome)
    /\ last = validAttempts + replayRuns + 2

\* The attempts chain from the given input to the current one, each removal starting
\* where the one before it left: what replay reconstructs (line 222).
AttemptsChain ==
  LET after(k) == IF attempts[k].preserved
                  THEN Remove(attempts[k].before, attempts[k].selector)
                  ELSE attempts[k].before
  IN IF attempts = <<>> THEN current = input
     ELSE /\ attempts[1].before = input
          /\ \A k \in 2..Len(attempts) : attempts[k].before = after(k - 1)
          /\ current = after(Len(attempts))

\* The dependency closure is the least set with the targets that no consumer of a
\* removed handle is outside of: nothing dangles and nothing is removed in vain.
ClosureIsLeast ==
  \A selector \in Selectors(current) :
    LET removed == RemovedActions(current, selector)
        closed(set) == \A i \in set : Consumers(current, i) \subseteq set
    IN /\ closed(removed)
       /\ \A set \in SUBSET Positions(current.actions) :
            Targets(current, selector) \subseteq set /\ closed(set) => removed \subseteq set

\* A removal never breaks the structure of a spec: what prepare may still reject is
\* an input without actors or actions, or an invariant that no longer applies.
RemovalKeepsStructure ==
  \A selector \in Selectors(current) : Structure(Remove(current, selector))

\* A surviving request names the same actions after the renumbering as before it.
RequestsFollowTheirActions ==
  \A selector \in Selectors(current) :
    LET kept == KeptRequests(current, selector)
        reduced == Remove(current, selector)
    IN \A t \in kept :
         LET before == current.transformations[t]
             after == reduced.transformations[Renumbered(kept, t)]
         IN /\ after.operatorId = before.operatorId
            /\ Len(after.ids) = Len(before.ids)
            /\ \A k \in 1..Len(before.ids) :
                 /\ after.ids[k] \in Positions(reduced.actions)
                 /\ reduced.actions[after.ids[k]] = current.actions[before.ids[k]]

\* All of them: what is left of a spec after a removal is the spec it was without the
\* actions that had to go.
RemovalIsConsistent ==
  ClosureIsLeast /\ RemovalKeepsStructure /\ RequestsFollowTheirActions

\* A reduction ends, whatever the evaluations answer: every step spends some of the
\* two budgets that bound it, or is the last one.
Spent == Len(attempts) + Len(runs) + (IF stage \in Final THEN 1 ELSE 0)
EveryStepAdvances == [][Spent' > Spent]_vars
=============================================================================
