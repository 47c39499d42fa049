------------------------------- MODULE SpecProofs -------------------------------
(***************************************************************************)
(* Proofs about what is done with specs: their reduction (Reduction), and  *)
(* how they are transformed, stored and validated (Transformation).        *)
(*                                                                         *)
(* Of Reduction, for every input, budget and number of replays, and        *)
(* whatever the evaluations answer.  The proofs about the scan leave       *)
(* opaque what a removal removes and what a valid spec is: they hold of    *)
(* any such rules.  A section of their own is about the rules.             *)
(*                                                                         *)
(* Of Transformation, for every seed and request the schemas allow, of any *)
(* length, and every edit of what was stored.  The records of a spec are a *)
(* chain: each one's state before is the state after the one before it,    *)
(* and its state after is what its operator makes of that.  That chain is  *)
(* the invariant of the building, and what the validator's replay          *)
(* establishes of a spec it accepts.                                       *)
(***************************************************************************)
EXTENDS Reduction, Transformation, Histories

-----------------------------------------------------------------------------
(***************************************************************************)
(* One-minimality: a reduction that ends without a blocker has tried, and  *)
(* seen rejected, every removal from the input it ends with.               *)
(***************************************************************************)

\* What every step of the scan preserves.
ScanState ==
  /\ History(attempts)
  /\ stage = "initial" => scanned = {}
  /\ ScanInv

\* A selector that was rejected stays rejected when another attempt is recorded.
LEMMA RejectedIsRemembered ==
  ASSUME History(attempts), NEW e, attempts' = Append(attempts, e),
         current' = current, NEW s, Rejected(current, s)
  PROVE  Rejected(current, s)'
<1>1. PICK k \in 1..Len(attempts) :
        /\ attempts[k].before = current
        /\ attempts[k].selector = s
        /\ attempts[k].status \in {"invalid", "executed"}
        /\ ~attempts[k].preserved
  BY DEF Rejected
<1>2. /\ k \in 1..Len(attempts')
      /\ attempts'[k] = attempts[k]
  BY HistoryGrows
<1>3. QED
  BY <1>1, <1>2 DEF Rejected

\* The selector the scan passes over is rejected by the attempt it leaves.
LEMMA PassOverRejects ==
  ASSUME History(attempts), NEW s, NEW status \in {"invalid", "executed"}, NEW runIndex,
         PassOver(s, status, runIndex)
  PROVE  Rejected(current, s)'
<1>1. /\ attempts' = Append(attempts, Attempt(s, status, runIndex, FALSE))
      /\ current' = current
  BY DEF PassOver
<1>2. /\ Len(attempts) \in Nat
      /\ Len(attempts') = Len(attempts) + 1
      /\ attempts'[Len(attempts) + 1] = Attempt(s, status, runIndex, FALSE)
  BY <1>1, HistoryGrows
<1>3. Len(attempts) + 1 \in 1..Len(attempts')
  BY <1>2
<1>4. QED
  BY <1>1, <1>2, <1>3 DEF Rejected, Attempt

\* Passing over a selector keeps what the scan knows.
LEMMA PassOverScan ==
  ASSUME ScanState, stage = "scan",
         NEW s, NEW status \in {"invalid", "executed"}, NEW runIndex,
         PassOver(s, status, runIndex)
  PROVE  ScanState'
<1>1. /\ attempts' = Append(attempts, Attempt(s, status, runIndex, FALSE))
      /\ scanned' = scanned \cup {s}
      /\ stage' = stage
      /\ current' = current
  BY DEF PassOver
<1>2. History(attempts')
  BY <1>1, HistoryGrows DEF ScanState
<1>3. \A t \in scanned' : Rejected(current, t)'
  <2>1. Rejected(current, s)'
    BY PassOverRejects DEF ScanState
  <2>2. ASSUME NEW t \in scanned PROVE Rejected(current, t)'
    <3>1. Rejected(current, t)
      BY DEF ScanState, ScanInv
    <3>2. QED
      BY <1>1, <3>1, RejectedIsRemembered DEF ScanState
  <2>3. QED
    BY <1>1, <2>1, <2>2
<1>4. QED
  BY <1>1, <1>2, <1>3 DEF ScanState, ScanInv

\* A step that neither removes nor attempts anything keeps what the scan knows,
\* provided it leaves the scan at its end only.
LEMMA QuietScan ==
  ASSUME ScanState, UNCHANGED <<current, scanned, attempts>>,
         stage' = "initial" => stage = "initial",
         stage' = "scan" => stage \in {"initial", "scan"},
         stage' \in {"replay", "one-minimal"} =>
           \/ stage = "scan" /\ Unscanned = {}
           \/ stage = "replay"
           \/ stage' = stage
  PROVE  ScanState'
<1>1. \A t : Rejected(current, t)' <=> Rejected(current, t)
  BY DEF Rejected
<1>2. /\ \A t : t \in Selectors(current)' <=> t \in Selectors(current)
      /\ Unscanned = {} => \A t \in Selectors(current) : t \in scanned
  BY DEF Unscanned
<1>3. QED
  BY <1>1, <1>2 DEF ScanState, ScanInv

\* Every step keeps what the scan knows.
LEMMA NextScan ==
  ASSUME ScanState, [Next]_vars
  PROVE  ScanState'
<1>1. CASE EvaluationBudgetExhausted
  BY <1>1, QuietScan DEF EvaluationBudgetExhausted, Block
<1>2. CASE InitialRun
  BY <1>2, QuietScan DEF InitialRun, Execute, Block
<1>3. CASE CandidateBudgetExhausted
  BY <1>3, QuietScan DEF CandidateBudgetExhausted, Block
<1>4. CASE RejectInvalid
  BY <1>4, PassOverScan DEF RejectInvalid, Scanning
<1>5. CASE TryCandidate
  <2> DEFINE selector == FirstOf(Unscanned)
             candidate == Remove(current, selector)
  <2>1. stage = "scan"
    BY <1>5 DEF TryCandidate, Scanning
  <2>2. ASSUME NEW reason, NEW runIndex, BlockAttempt(selector, reason, runIndex)
        PROVE  ScanState'
    <3>1. History(attempts')
      BY <2>2, HistoryGrows DEF ScanState, BlockAttempt
    <3>2. QED
      BY <2>2, <3>1 DEF ScanState, ScanInv, BlockAttempt, Block
  <2>3. CASE stage' = "thrown" /\ UNCHANGED <<current, scanned, attempts>>
    BY <2>3, QuietScan
  <2>4. ASSUME NEW runIndex, PassOver(selector, "executed", runIndex)
        PROVE  ScanState'
    BY <2>1, <2>4, PassOverScan
  <2>5. CASE Accept(selector, candidate)
    <3>1. History(attempts')
      BY <2>5, HistoryGrows DEF ScanState, Accept
    <3>2. stage' = "scan" /\ scanned' = {}
      BY <2>1, <2>5 DEF Accept
    <3>3. QED
      BY <3>1, <3>2 DEF ScanState, ScanInv
  <2>6. QED
    BY <1>5, <2>2, <2>3, <2>4, <2>5 DEF TryCandidate
<1>6. CASE CleanCheck
  BY <1>6, QuietScan DEF CleanCheck, Execute, Block
<1>7. CASE Replay
  BY <1>7, QuietScan DEF Replay, Execute, Block
<1>8. CASE UNCHANGED vars
  BY <1>8, QuietScan DEF vars
<1>9. QED
  BY <1>1, <1>2, <1>3, <1>4, <1>5, <1>6, <1>7, <1>8 DEF Next, Ended

\* The scan's knowledge is an invariant of every reduction.
THEOREM ScanIsKnown == Spec => []ScanInv
<1>1. Init => ScanState
  BY HistoryStarts DEF Init, ScanState, ScanInv
<1>2. ScanState => ScanInv
  BY DEF ScanState
<1>3. QED
  BY <1>1, <1>2, NextScan, PTL DEF Spec

\* A one-minimal result is one-minimal: no registered removal from the final input
\* is left untried, and none preserved the violation (lines 149-185 of reduceSpec).
THEOREM ResultIsOneMinimal == Spec => []OneMinimal
<1>1. ScanInv => OneMinimal
  BY DEF ScanInv, OneMinimal
<1>2. QED
  BY <1>1, ScanIsKnown, PTL

-----------------------------------------------------------------------------
(***************************************************************************)
(* Termination: every step spends some of the budgets.                     *)
(***************************************************************************)

\* Both histories of a reduction.
Histories == History(attempts) /\ History(runs)

\* What it takes to advance: the histories do not shrink, and one of them grows or the
\* reduction ends.
LEMMA BudgetIsSpent ==
  ASSUME Histories, stage \notin Final, Histories',
         Len(attempts') >= Len(attempts), Len(runs') >= Len(runs),
         \/ Len(attempts') > Len(attempts)
         \/ Len(runs') > Len(runs)
         \/ stage' \in Final
  PROVE  Spent' > Spent
<1>1. /\ Len(attempts) \in Nat /\ Len(attempts') \in Nat
      /\ Len(runs) \in Nat /\ Len(runs') \in Nat
  BY HistoryGrows DEF Histories
<1>2. Spent = Len(attempts) + Len(runs)
  BY <1>1 DEF Spent
<1>3. CASE stage' \in Final
  <2>1. Spent' = Len(attempts') + Len(runs') + 1
    BY <1>3 DEF Spent
  <2>2. QED
    BY <1>1, <1>2, <2>1
<1>4. CASE stage' \notin Final
  <2>1. Spent' = Len(attempts') + Len(runs')
    BY <1>1, <1>4 DEF Spent
  <2>2. QED
    BY <1>1, <1>2, <1>4, <2>1
<1>5. QED
  BY <1>3, <1>4

\* A history that got one more entry is longer, one that is the same is not shorter.
LEMMA LongerHistory ==
  ASSUME NEW h, NEW e, History(h)
  PROVE  Len(h) >= Len(h) /\ Len(Append(h, e)) > Len(h) /\ Len(Append(h, e)) >= Len(h)
<1>1. Len(h) \in Nat /\ Len(Append(h, e)) = Len(h) + 1
  BY HistoryGrows
<1>2. QED
  BY <1>1

\* An evaluation adds its run to the runs, unless evaluate itself threw.
LEMMA RecordGrows ==
  ASSUME History(runs), NEW outcome, NEW e,
         runs' = IF outcome = "evaluate throws" THEN runs ELSE Append(runs, e)
  PROVE  /\ History(runs')
         /\ Len(runs') >= Len(runs)
         /\ outcome # "evaluate throws" => Len(runs') > Len(runs)
<1>1. CASE outcome = "evaluate throws"
  BY <1>1, LongerHistory
<1>2. CASE outcome # "evaluate throws"
  BY <1>2, HistoryGrows, LongerHistory
<1>3. QED
  BY <1>1, <1>2

\* What an evaluation outside the scan changes: it is recorded, or the reduction ends.
LEMMA ExecuteAdvances ==
  ASSUME Histories, stage \notin Final, NEW ph, NEW art, NEW outcome,
         NEW required \in Verdicts, NEW next, NEW mismatch,
         Execute(ph, art, outcome, required, next, mismatch)
  PROVE  Histories' /\ Spent' > Spent
<1>1. /\ History(runs')
      /\ Len(runs') >= Len(runs)
      /\ outcome # "evaluate throws" => Len(runs') > Len(runs)
  BY RecordGrows DEF Execute, Record, Histories
<1>2. History(attempts') /\ Len(attempts') >= Len(attempts)
  BY LongerHistory DEF Execute, Histories
<1>3. outcome = "evaluate throws" => stage' \in Final
  BY DEF Execute, Throws, Blocks, Verdicts, Final
<1>4. Histories'
  BY <1>1, <1>2 DEF Histories
<1>5. QED
  BY <1>1, <1>2, <1>3, <1>4, BudgetIsSpent

\* An attempt is recorded, and the runs do not shrink.
LEMMA AttemptAdvances ==
  ASSUME Histories, stage \notin Final, NEW e, attempts' = Append(attempts, e),
         History(runs'), Len(runs') >= Len(runs)
  PROVE  Histories' /\ Spent' > Spent
<1>1. History(attempts') /\ Len(attempts') > Len(attempts) /\ Len(attempts') >= Len(attempts)
  BY HistoryGrows, LongerHistory DEF Histories
<1>2. Histories'
  BY <1>1 DEF Histories
<1>3. QED
  BY <1>1, <1>2, BudgetIsSpent

\* A reduction that ends without another attempt advances too.
LEMMA EndingAdvances ==
  ASSUME Histories, stage \notin Final, stage' \in Final, attempts' = attempts,
         History(runs'), Len(runs') >= Len(runs)
  PROVE  Histories' /\ Spent' > Spent
<1>1. Histories'
  BY DEF Histories
<1>2. Len(attempts') >= Len(attempts)
  BY LongerHistory DEF Histories
<1>3. QED
  BY <1>1, <1>2, BudgetIsSpent

\* Every step but a stutter of an ended reduction spends something.
LEMMA NextAdvances ==
  ASSUME Histories, Next
  PROVE  UNCHANGED vars \/ (Histories' /\ Spent' > Spent)
<1> USE DEF Histories
<1>1. ASSUME stage \notin Final, stage' \in Final, attempts' = attempts, runs' = runs
      PROVE  Histories' /\ Spent' > Spent
  BY <1>1, EndingAdvances, LongerHistory
<1>2. ASSUME stage \notin Final, runs' = runs, NEW e, attempts' = Append(attempts, e)
      PROVE  Histories' /\ Spent' > Spent
  BY <1>2, AttemptAdvances, LongerHistory
<1>3. CASE EvaluationBudgetExhausted
  BY <1>1, <1>3 DEF EvaluationBudgetExhausted, Block, Final
<1>4. CASE InitialRun
  BY <1>4, ExecuteAdvances DEF InitialRun, Final, Verdicts
<1>5. CASE CandidateBudgetExhausted
  BY <1>1, <1>5 DEF CandidateBudgetExhausted, Scanning, Block, Final
<1>6. CASE RejectInvalid
  BY <1>2, <1>6 DEF RejectInvalid, PassOver, Scanning, Final
<1>7. CASE TryCandidate
  <2> DEFINE selector == FirstOf(Unscanned)
             candidate == Remove(current, selector)
  <2>1. stage \notin Final
    BY <1>7 DEF TryCandidate, Scanning, Final
  <2>2. ASSUME NEW outcome \in Outcomes, Record("candidate", "defect", candidate, outcome)
        PROVE  History(runs') /\ Len(runs') >= Len(runs)
    BY <2>2, RecordGrows DEF Record
  <2>3. ASSUME NEW outcome \in Outcomes, Record("candidate", "defect", candidate, outcome),
               stage' = "thrown", attempts' = attempts
        PROVE  Histories' /\ Spent' > Spent
    BY <2>1, <2>2, <2>3, EndingAdvances DEF Final
  <2>4. ASSUME NEW outcome \in Outcomes, Record("candidate", "defect", candidate, outcome),
               NEW e, attempts' = Append(attempts, e)
        PROVE  Histories' /\ Spent' > Spent
    BY <2>1, <2>2, <2>4, AttemptAdvances
  <2>5. QED
    BY <1>2, <1>7, <2>1, <2>3, <2>4 DEF TryCandidate, BlockAttempt, PassOver, Accept
<1>8. CASE CleanCheck
  BY <1>8, ExecuteAdvances DEF CleanCheck, Final, Verdicts
<1>9. CASE Replay
  BY <1>9, ExecuteAdvances DEF Replay, Final, Verdicts
<1>10. QED
  BY <1>3, <1>4, <1>5, <1>6, <1>7, <1>8, <1>9 DEF Next, Ended

\* The histories stay histories.
LEMMA HistoriesKept == Spec => []Histories
<1>1. Init => Histories
  BY HistoryStarts DEF Init, Histories
<1>2. Histories /\ [Next]_vars => Histories'
  <2>1. CASE Next
    BY <2>1, NextAdvances DEF vars, Histories
  <2>2. CASE UNCHANGED vars
    BY <2>2 DEF vars, Histories
  <2>3. QED
    BY <2>1, <2>2
<1>3. QED
  BY <1>1, <1>2, PTL DEF Spec

\* A reduction advances with every step it takes, so it ends: attempts and runs are
\* bounded by the registration, whatever the evaluations answer.
THEOREM ReductionAdvances == Spec => EveryStepAdvances
<1>1. Histories /\ [Next]_vars => [Spent' > Spent]_vars
  BY NextAdvances
<1>2. QED
  BY <1>1, HistoriesKept, PTL DEF Spec, EveryStepAdvances

-----------------------------------------------------------------------------
(***************************************************************************)
(* The audit trail: the attempts lead from the given input to the current  *)
(* one.                                                                    *)
(***************************************************************************)

\* What an attempt leaves as the current input.
Left(attempt) ==
  IF attempt.preserved THEN Remove(attempt.before, attempt.selector) ELSE attempt.before

\* An attempt at the current input that leaves the next one extends the chain.
LEMMA ChainGrows ==
  ASSUME History(attempts), AttemptsChain, input' = input,
         NEW e, attempts' = Append(attempts, e), e.before = current, current' = Left(e)
  PROVE  AttemptsChain'
<1> DEFINE n == Len(attempts)
<1>1. /\ n \in Nat
      /\ Len(attempts') = n + 1
      /\ \A k \in 1..n : attempts'[k] = attempts[k]
      /\ attempts'[n + 1] = e
      /\ attempts \in Seq({attempts[k] : k \in 1..n})
  BY HistoryGrows DEF History
<1>2. attempts' # <<>>
  BY <1>1, HistoryStarts
<1>3. current' = Left(attempts'[Len(attempts')])
  BY <1>1
<1>4. CASE attempts = <<>>
  <2>1. n = 0 /\ current = input
    BY <1>4, HistoryStarts DEF AttemptsChain
  <2>2. attempts'[1].before = input'
    BY <1>1, <2>1
  <2>3. \A k \in 2..Len(attempts') : FALSE
    BY <1>1, <2>1
  <2>4. QED
    BY <1>2, <1>3, <2>2, <2>3 DEF AttemptsChain, Left
<1>5. CASE attempts # <<>>
  <2>1. n >= 1
    BY <1>1, <1>5, EmptySeq
  <2>2. /\ attempts[1].before = input
        /\ \A k \in 2..n : attempts[k].before = Left(attempts[k - 1])
        /\ current = Left(attempts[n])
    BY <1>5 DEF AttemptsChain, Left
  <2>3. attempts'[1].before = input'
    BY <1>1, <2>1, <2>2
  <2>4. ASSUME NEW k \in 2..Len(attempts')
        PROVE  attempts'[k].before = Left(attempts'[k - 1])
    <3>1. CASE k <= n
      <4>1. k \in 2..n /\ k \in 1..n /\ k - 1 \in 1..n
        BY <1>1, <3>1
      <4>2. attempts'[k] = attempts[k] /\ attempts'[k - 1] = attempts[k - 1]
        BY <1>1, <4>1
      <4>3. QED
        BY <2>2, <4>1, <4>2
    <3>2. CASE ~(k <= n)
      <4>1. k = n + 1 /\ k - 1 = n /\ n \in 1..n
        BY <1>1, <2>1, <3>2
      <4>2. attempts'[k] = e /\ attempts'[k - 1] = attempts[n]
        BY <1>1, <4>1
      <4>3. QED
        BY <2>2, <4>2
    <3>3. QED
      BY <3>1, <3>2
  <2>5. QED
    BY <1>2, <1>3, <2>3, <2>4 DEF AttemptsChain, Left
<1>6. QED
  BY <1>4, <1>5

\* Every step keeps the chain.
LEMMA NextChain ==
  ASSUME Histories, AttemptsChain, [Next]_vars
  PROVE  AttemptsChain'
<1> USE DEF Histories
<1>1. CASE UNCHANGED <<input, current, attempts>>
  BY <1>1 DEF AttemptsChain
<1>2. ASSUME input' = input, NEW selector, NEW status, NEW runIndex,
             attempts' = Append(attempts, Attempt(selector, status, runIndex, FALSE)),
             current' = current
      PROVE  AttemptsChain'
  <2>1. /\ Attempt(selector, status, runIndex, FALSE).before = current
        /\ current' = Left(Attempt(selector, status, runIndex, FALSE))
    BY <1>2 DEF Attempt, Left
  <2>2. QED
    BY <1>2, <2>1, ChainGrows
<1>3. CASE EvaluationBudgetExhausted \/ CandidateBudgetExhausted
  BY <1>1, <1>3 DEF EvaluationBudgetExhausted, CandidateBudgetExhausted
<1>4. CASE InitialRun \/ CleanCheck \/ Replay
  BY <1>1, <1>4 DEF InitialRun, CleanCheck, Replay, Execute
<1>5. CASE RejectInvalid
  BY <1>2, <1>5 DEF RejectInvalid, PassOver
<1>6. CASE TryCandidate
  <2> DEFINE selector == FirstOf(Unscanned)
             candidate == Remove(current, selector)
  <2>1. input' = input
    BY <1>6 DEF TryCandidate
  <2>2. CASE stage' = "thrown" /\ UNCHANGED <<current, attempts>>
    BY <1>1, <2>1, <2>2
  <2>3. ASSUME NEW reason, NEW runIndex, BlockAttempt(selector, reason, runIndex)
        PROVE  AttemptsChain'
    BY <1>2, <2>1, <2>3 DEF BlockAttempt
  <2>4. ASSUME NEW runIndex, PassOver(selector, "executed", runIndex)
        PROVE  AttemptsChain'
    BY <1>2, <2>1, <2>4 DEF PassOver
  <2>5. CASE Accept(selector, candidate)
    <3> DEFINE e == Attempt(selector, "executed", Len(runs) + 1, TRUE)
    <3>1. attempts' = Append(attempts, e) /\ current' = candidate
      BY <2>5 DEF Accept
    <3>2. e.before = current /\ candidate = Left(e)
      BY DEF Attempt, Left
    <3>3. QED
      BY <2>1, <3>1, <3>2, ChainGrows
  <2>6. QED
    BY <1>6, <2>2, <2>3, <2>4, <2>5 DEF TryCandidate
<1>7. CASE UNCHANGED vars
  BY <1>1, <1>7 DEF vars
<1>8. QED
  BY <1>3, <1>4, <1>5, <1>6, <1>7 DEF Next, Ended

\* The recorded attempts account for the reduced input: each starts where the one
\* before it left, the first from the given input (lines 154-182 of reduceSpec).
THEOREM AttemptsLeadToTheResult == Spec => []AttemptsChain
<1>1. Init => AttemptsChain
  BY DEF Init, AttemptsChain
<1>2. QED
  BY <1>1, NextChain, HistoriesKept, PTL DEF Spec

-----------------------------------------------------------------------------
(***************************************************************************)
(* The evidence: what the runs of a reduction are, stage by stage.         *)
(***************************************************************************)

\* The runs end with a passing clean check of the current input and n replays that
\* violate, and before it there is the initial run and one per valid attempt.
Replayed(n) ==
  /\ Len(runs) = validAttempts + 2 + n
  /\ Replays = (Len(runs) - n + 1)..Len(runs)
  /\ runs[Len(runs) - n].phase = "clean-check"
  /\ runs[Len(runs) - n].candidate = current
  /\ runs[Len(runs) - n].outcome = "pass"
  /\ \A r \in (Len(runs) - n + 1)..Len(runs) :
       runs[r].artifact = "defect" /\ runs[r].candidate = current /\ Violates(runs[r].outcome)

\* The given input was run first, and violates.
StartsWithViolation ==
  Len(runs) >= 1 /\ runs[1].phase = "initial" /\ Violates(runs[1].outcome)

RunsState ==
  /\ History(runs)
  /\ validAttempts \in Nat
  /\ stage = "initial" => runs = <<>> /\ validAttempts = 0
  /\ stage \in {"scan", "replay", "one-minimal"} => StartsWithViolation
  /\ stage = "scan" => Len(runs) = validAttempts + 1 /\ Replays = {}
  /\ stage = "replay" => \E n \in 0..(replayRuns - 1) : Replayed(n)
  /\ stage = "one-minimal" => Replayed(replayRuns)

\* Where the replays end up: l runs so far, v valid attempts, n of m replays done.
LEMMA ReplayPositions ==
  ASSUME NEW l \in Nat, NEW l1, NEW v \in Nat, NEW n \in Nat, NEW m \in Nat,
         l = v + 2 + n, l1 = l + 1, n + 1 <= m
  PROVE  /\ l1 - (n + 1) = l - n
         /\ l - n \in 1..l
         /\ l1 = v + 2 + (n + 1)
         /\ (l1 - (n + 1) + 1)..l1 = ((l - n + 1)..l) \cup {l + 1}
         /\ \A r \in (l - n + 1)..l : r \in 1..l
         /\ l - n + 1 \in Int /\ l \in Int
         /\ (IF l - n + 1 > l THEN 0 ELSE l - (l - n + 1) + 1) = n
         /\ n + 1 # m => n + 1 \in 0..(m - 1)
OBVIOUS

\* What one more run changes, and what it does not.
LEMMA RunAdded ==
  ASSUME History(runs), NEW e, runs' = Append(runs, e)
  PROVE  /\ History(runs') /\ Len(runs) \in Nat /\ Len(runs') = Len(runs) + 1
         /\ \A r \in 1..Len(runs) : runs'[r] = runs[r]
         /\ runs'[Len(runs) + 1] = e
         /\ e.phase = "replay" => Replays' = Replays \cup {Len(runs) + 1}
         /\ e.phase # "replay" => Replays' = Replays
         /\ StartsWithViolation => StartsWithViolation'
<1>1. /\ History(runs') /\ Len(runs) \in Nat /\ Len(runs') = Len(runs) + 1
      /\ \A r \in 1..Len(runs) : runs'[r] = runs[r]
      /\ runs'[Len(runs) + 1] = e
  BY HistoryGrows
<1>2. 1..Len(runs') = 1..Len(runs) \cup {Len(runs) + 1}
  BY <1>1
<1>3. /\ e.phase = "replay" => Replays' = Replays \cup {Len(runs) + 1}
      /\ e.phase # "replay" => Replays' = Replays
  BY <1>1, <1>2 DEF Replays
<1>4. StartsWithViolation => StartsWithViolation'
  BY <1>1 DEF StartsWithViolation
<1>5. QED
  BY <1>1, <1>3, <1>4

\* A reduction that is over for any reason but one-minimality, or that does nothing,
\* needs no more than its history.
LEMMA EndedRuns ==
  ASSUME RunsState, stage' \in {"reduced-not-one-minimal", "thrown"},
         History(runs'), validAttempts' \in Nat
  PROVE  RunsState'
BY DEF RunsState

\* Outside the scan, a run that is not the required one ends the reduction.
LEMMA ExecuteEnds ==
  ASSUME RunsState, NEW ph, NEW art, NEW outcome,
         NEW required \in Verdicts, NEW next, NEW mismatch,
         Execute(ph, art, outcome, required, next, mismatch)
  PROVE  \/ RunsState'
         \/ /\ outcome = required
            /\ stage' = next
            /\ runs' = Append(runs, [phase |-> ph, artifact |-> art,
                                     candidate |-> current, outcome |-> outcome])
            /\ current' = current
            /\ validAttempts' = validAttempts
<1>1. current' = current /\ validAttempts' = validAttempts
  BY DEF Execute, countVars
<1>2. History(runs')
  BY RecordGrows DEF Execute, Record, RunsState
<1>3. CASE stage' \in {"reduced-not-one-minimal", "thrown"}
  BY <1>1, <1>2, <1>3, EndedRuns DEF RunsState
<1>4. CASE stage' \notin {"reduced-not-one-minimal", "thrown"}
  <2>1. outcome = required /\ stage' = next
    BY <1>4 DEF Execute, Block
  <2>2. outcome # "evaluate throws"
    BY <2>1 DEF Verdicts
  <2>3. QED
    BY <1>1, <2>1, <2>2 DEF Execute, Record
<1>5. QED
  BY <1>3, <1>4

\* Every step keeps the evidence in order.
LEMMA NextRuns ==
  ASSUME RunsState, [Next]_vars
  PROVE  RunsState'
<1>1. CASE EvaluationBudgetExhausted \/ CandidateBudgetExhausted
  BY <1>1, EndedRuns
  DEF RunsState, EvaluationBudgetExhausted, CandidateBudgetExhausted, Block, countVars
<1>2. CASE InitialRun
  <2> DEFINE e == [phase |-> "initial", artifact |-> "defect",
                   candidate |-> current, outcome |-> "same violation"]
  <2>1. \/ RunsState'
        \/ stage' = "scan" /\ runs' = Append(runs, e) /\ validAttempts' = validAttempts
    BY <1>2, ExecuteEnds DEF InitialRun, Verdicts
  <2>2. ASSUME stage' = "scan", runs' = Append(runs, e), validAttempts' = validAttempts
        PROVE  RunsState'
    <3>1. runs = <<>> /\ Len(runs) = 0 /\ validAttempts = 0
      BY <1>2, HistoryStarts DEF InitialRun, RunsState
    <3>2. Replays = {}
      BY <3>1 DEF Replays
    <3>3. /\ History(runs') /\ Len(runs') = Len(runs) + 1
          /\ runs'[Len(runs) + 1] = e
          /\ e.phase # "replay" => Replays' = Replays
      BY <2>2, RunAdded DEF RunsState
    <3>4. Len(runs) + 1 = 1 /\ validAttempts' + 1 = 1
      <4>1. Len(runs) = 0 /\ validAttempts' = 0
        BY <2>2, <3>1
      <4>2. QED
        BY ONLY <4>1
    <3>5. /\ Len(runs') = 1 /\ Len(runs') = validAttempts' + 1
          /\ runs'[1] = e
          /\ Replays' = {}
      BY <3>2, <3>3, <3>4
    <3>6. e.phase = "initial" /\ e.outcome = "same violation"
      OBVIOUS
    <3>7. StartsWithViolation'
      <4>1. Len(runs') >= 1
        <5>1. Len(runs') = 1
          BY <3>5
        <5>2. QED
          BY ONLY <5>1
      <4>2. runs'[1].phase = "initial" /\ Violates(runs'[1].outcome)
        BY <3>5, <3>6 DEF Violates
      <4>3. QED
        BY <4>1, <4>2 DEF StartsWithViolation, Violates
    <3>8. QED
      BY <2>2, <3>1, <3>3, <3>5, <3>7 DEF RunsState
  <2>3. QED
    BY <2>1, <2>2
<1>3. CASE RejectInvalid
  BY <1>3 DEF RejectInvalid, Scanning, PassOver, RunsState, StartsWithViolation, Replays
<1>4. CASE TryCandidate
  <2> DEFINE selector == FirstOf(Unscanned)
             candidate == Remove(current, selector)
             e(outcome) == [phase |-> "candidate", artifact |-> "defect",
                            candidate |-> candidate, outcome |-> outcome]
  <2>1. stage = "scan" /\ validAttempts' = validAttempts + 1 /\ validAttempts \in Nat
    BY <1>4 DEF TryCandidate, Scanning, RunsState
  <2>2. CASE runs' = runs /\ stage' = "reduced-not-one-minimal"
    BY <2>1, <2>2, EndedRuns DEF RunsState
  <2>3. ASSUME NEW outcome \in Outcomes, Record("candidate", "defect", candidate, outcome),
               stage' \in {"reduced-not-one-minimal", "thrown"}
        PROVE  RunsState'
    <3>1. History(runs')
      BY <2>3, RecordGrows DEF Record, RunsState
    <3>2. QED
      BY <2>1, <2>3, <3>1, EndedRuns
  <2>4. ASSUME NEW outcome \in Verdicts, Record("candidate", "defect", candidate, outcome),
               stage' = stage
        PROVE  RunsState'
    <3>1. runs' = Append(runs, e(outcome))
      BY <2>4 DEF Record, Verdicts
    <3>2. /\ History(runs') /\ Len(runs) \in Nat /\ Len(runs') = Len(runs) + 1
          /\ Replays' = Replays
          /\ StartsWithViolation'
      BY <2>1, <3>1, RunAdded DEF RunsState
    <3>3. Len(runs) = validAttempts + 1 /\ Replays = {}
      BY <2>1 DEF RunsState
    <3>4. QED
      BY <2>1, <2>4, <3>2, <3>3 DEF RunsState
  <2>5. \A outcome : Preserves(outcome) => outcome \in Verdicts
    BY DEF Preserves, Verdicts
  <2>6. QED
    BY <1>4, <2>2, <2>3, <2>4, <2>5 DEF TryCandidate, BlockAttempt, Block, PassOver, Accept
<1>5. CASE CleanCheck
  <2> DEFINE e == [phase |-> "clean-check", artifact |-> "clean",
                   candidate |-> current, outcome |-> "pass"]
  <2>1. \/ RunsState'
        \/ /\ stage' = "replay"
           /\ runs' = Append(runs, e)
           /\ current' = current
           /\ validAttempts' = validAttempts
    BY <1>5, ExecuteEnds DEF CleanCheck, Verdicts
  <2>2. ASSUME stage' = "replay", runs' = Append(runs, e), current' = current,
               validAttempts' = validAttempts
        PROVE  RunsState'
    <3>1. /\ History(runs') /\ Len(runs) \in Nat /\ Len(runs') = Len(runs) + 1
          /\ runs'[Len(runs) + 1] = e
          /\ Replays' = {} /\ StartsWithViolation'
          /\ Len(runs) = validAttempts + 1 /\ validAttempts \in Nat
      BY <1>5, <2>2, RunAdded DEF CleanCheck, RunsState
    <3>2. /\ Len(runs') - 0 = Len(runs) + 1
          /\ Len(runs') = validAttempts + 2 + 0
          /\ (Len(runs') - 0 + 1)..Len(runs') = {}
      BY <3>1
    <3>3. Replayed(0)'
      BY <2>2, <3>1, <3>2 DEF Replayed
    <3>4. 0 \in 0..(replayRuns - 1)
      BY RegistrationAssumption
    <3>5. QED
      BY <2>2, <3>1, <3>3, <3>4 DEF RunsState
  <2>3. QED
    BY <2>1, <2>2
<1>6. CASE Replay
  <2> DEFINE e == [phase |-> "replay", artifact |-> "defect",
                   candidate |-> current, outcome |-> "same violation"]
             next == IF Cardinality(Replays) + 1 = replayRuns THEN "one-minimal" ELSE "replay"
  <2>1. \/ RunsState'
        \/ /\ stage' = next
           /\ runs' = Append(runs, e)
           /\ current' = current
           /\ validAttempts' = validAttempts
    BY <1>6, ExecuteEnds DEF Replay, Verdicts
  <2>2. ASSUME stage' = next, runs' = Append(runs, e), current' = current,
               validAttempts' = validAttempts
        PROVE  RunsState'
    <3>1. PICK n \in 0..(replayRuns - 1) : Replayed(n)
      BY <1>6 DEF Replay, RunsState
    <3>2. /\ History(runs') /\ Len(runs) \in Nat /\ Len(runs') = Len(runs) + 1
          /\ \A r \in 1..Len(runs) : runs'[r] = runs[r]
          /\ runs'[Len(runs) + 1] = e
          /\ Replays' = Replays \cup {Len(runs) + 1}
          /\ StartsWithViolation'
          /\ validAttempts \in Nat
      BY <1>6, <2>2, RunAdded DEF Replay, RunsState
    <3>3. replayRuns \in Nat /\ n \in Nat /\ n + 1 <= replayRuns
      BY RegistrationAssumption
    <3>4. /\ Len(runs) = validAttempts + 2 + n
          /\ Replays = (Len(runs) - n + 1)..Len(runs)
      BY <3>1 DEF Replayed
    <3>5. /\ Len(runs') - (n + 1) = Len(runs) - n
          /\ Len(runs) - n \in 1..Len(runs)
          /\ Len(runs') = validAttempts + 2 + (n + 1)
          /\ (Len(runs') - (n + 1) + 1)..Len(runs')
               = ((Len(runs) - n + 1)..Len(runs)) \cup {Len(runs) + 1}
          /\ \A r \in (Len(runs) - n + 1)..Len(runs) : r \in 1..Len(runs)
          /\ Len(runs) - n + 1 \in Int /\ Len(runs) \in Int
          /\ (IF Len(runs) - n + 1 > Len(runs)
              THEN 0 ELSE Len(runs) - (Len(runs) - n + 1) + 1) = n
          /\ n + 1 # replayRuns => n + 1 \in 0..(replayRuns - 1)
      <4>1. /\ Len(runs) \in Nat /\ validAttempts \in Nat
            /\ n \in Nat /\ replayRuns \in Nat
            /\ Len(runs) = validAttempts + 2 + n
            /\ Len(runs') = Len(runs) + 1
            /\ n + 1 <= replayRuns
        BY <3>2, <3>3, <3>4
      <4>2. QED
        BY ONLY <4>1, ReplayPositions
    <3>6. Cardinality(Replays) = n
      BY <3>4, <3>5, FS_Interval
    <3>7. Replayed(n + 1)'
      <4>1. runs'[Len(runs) - n] = runs[Len(runs) - n]
        BY <3>2, <3>5
      <4>2. \A r \in (Len(runs) - n + 1)..Len(runs) : runs'[r] = runs[r]
        BY <3>2, <3>5
      <4>3. \A r \in (Len(runs) - n + 1)..Len(runs) :
              /\ runs'[r].artifact = "defect"
              /\ runs'[r].candidate = current
              /\ Violates(runs'[r].outcome)
        BY <3>1, <4>2 DEF Replayed
      <4>4. \A r \in (Len(runs') - (n + 1) + 1)..Len(runs') :
              /\ runs'[r].artifact = "defect"
              /\ runs'[r].candidate = current
              /\ Violates(runs'[r].outcome)
        <5>1. e.artifact = "defect" /\ e.candidate = current /\ Violates(e.outcome)
          BY DEF Violates
        <5>2. QED
          BY <3>2, <3>5, <4>3, <5>1
      <4>5. /\ runs'[Len(runs) - n].phase = "clean-check"
            /\ runs'[Len(runs) - n].candidate = current
            /\ runs'[Len(runs) - n].outcome = "pass"
        BY <3>1, <4>1 DEF Replayed
      <4>6. Replays' = (Len(runs') - (n + 1) + 1)..Len(runs')
        BY <3>2, <3>4, <3>5
      <4>7. QED
        BY <2>2, <3>5, <4>4, <4>5, <4>6 DEF Replayed, Violates
    <3>8. CASE n + 1 = replayRuns
      <4>1. stage' = "one-minimal"
        BY <2>2, <3>6, <3>8
      <4>2. QED
        BY <2>2, <3>2, <3>7, <3>8, <4>1 DEF RunsState
    <3>9. CASE n + 1 # replayRuns
      <4>1. stage' = "replay" /\ n + 1 \in 0..(replayRuns - 1)
        BY <2>2, <3>5, <3>6, <3>9
      <4>2. QED
        BY <2>2, <3>2, <3>7, <4>1 DEF RunsState
    <3>10. QED
      BY <3>8, <3>9
  <2>3. QED
    BY <2>1, <2>2
<1>7. CASE UNCHANGED vars
  BY <1>7 DEF vars, countVars, RunsState, StartsWithViolation, Replays, Replayed
<1>8. QED
  BY <1>1, <1>2, <1>3, <1>4, <1>5, <1>6, <1>7 DEF Next, Ended

\* A one-minimal result rests on fresh executions: the initial violation, a passing
\* clean check of the final input, and every replay (lines 147-191 of reduceSpec).
THEOREM ResultIsReplayed == Spec => []OneMinimalIsReplayed
<1>1. Init => RunsState
  BY HistoryStarts DEF Init, RunsState
<1>2. RunsState => OneMinimalIsReplayed
  <2> SUFFICES ASSUME RunsState, stage = "one-minimal"
               PROVE  OneMinimalIsReplayed
    BY DEF OneMinimalIsReplayed
  <2>1. StartsWithViolation /\ Replayed(replayRuns) /\ validAttempts \in Nat
    BY DEF RunsState
  <2>2. Len(runs) = validAttempts + replayRuns + 2
    BY <2>1, RegistrationAssumption DEF Replayed
  <2>3. QED
    BY <2>1, <2>2 DEF OneMinimalIsReplayed, StartsWithViolation, Replayed
<1>3. QED
  BY <1>1, <1>2, NextRuns, PTL DEF Spec


-----------------------------------------------------------------------------
(***************************************************************************)
(* What a removal takes with it.                                           *)
(***************************************************************************)

\* The rounds of the do-while loop, as the recursive function is defined.
IsRounds(f, given, selector, last) ==
  f = [round \in 0..last |->
         IF round = 0 THEN Targets(given, selector)
         ELSE UNION {{i} \cup Consumers(given, i) : i \in f[round - 1]}]

\* The recursive function exists, and it is what it computes.
LEMMA RoundsAreDefined ==
  ASSUME NEW given, NEW selector, Len(given.actions) \in Nat
  PROVE  \E f : /\ IsRounds(f, given, selector, Len(given.actions))
                /\ RemovedActions(given, selector) = f[Len(given.actions)]
<1> DEFINE N == Len(given.actions)
           T == {m \in Nat : \E f : IsRounds(f, given, selector, m)}
<1>1. 0 \in T
  <2> DEFINE f == [round \in 0..0 |-> Targets(given, selector)]
  <2>1. IsRounds(f, given, selector, 0)
    BY DEF IsRounds
  <2>2. QED
    BY <2>1
<1>2. ASSUME NEW m \in Nat, m \in T
      PROVE  m + 1 \in T
  <2>1. PICK f : IsRounds(f, given, selector, m)
    BY <1>2
  <2> DEFINE step(n) == UNION {{i} \cup Consumers(given, i) : i \in f[n]}
             g == [round \in 0..(m + 1) |->
                     IF round <= m THEN f[round] ELSE step(m)]
  <2>2. \A n \in 0..m : g[n] = f[n]
    OBVIOUS
  <2>3. g[m + 1] = step(m)
    OBVIOUS
  <2>4. ASSUME NEW n \in 0..(m + 1)
        PROVE  g[n] = IF n = 0 THEN Targets(given, selector)
                      ELSE UNION {{i} \cup Consumers(given, i) : i \in g[n - 1]}
    <3>1. CASE n = 0
      BY <2>1, <2>2, <3>1 DEF IsRounds
    <3>2. CASE n # 0 /\ n <= m
      <4>1. n - 1 \in 0..m /\ n \in 0..m
        BY <3>2
      <4>2. g[n] = f[n] /\ g[n - 1] = f[n - 1]
        BY <2>2, <4>1
      <4>3. f[n] = step(n - 1)
        BY <2>1, <3>2, <4>1 DEF IsRounds
      <4>4. QED
        BY <3>2, <4>2, <4>3
    <3>3. CASE n = m + 1
      <4>1. n - 1 = m /\ n # 0
        BY <3>3
      <4>2. g[n - 1] = f[m]
        BY <2>2, <4>1
      <4>3. QED
        BY <2>3, <3>3, <4>1, <4>2
    <3>4. QED
      BY <3>1, <3>2, <3>3
  <2>5. IsRounds(g, given, selector, m + 1)
    <3> HIDE DEF step
    <3> DEFINE h == [round \in 0..(m + 1) |->
                       IF round = 0 THEN Targets(given, selector)
                       ELSE UNION {{i} \cup Consumers(given, i) : i \in g[round - 1]}]
    <3>1. \A n \in 0..(m + 1) : g[n] = h[n]
      BY <2>4
    <3>2. g = h
      BY <3>1
    <3>3. QED
      BY <3>2 DEF IsRounds
  <2>6. QED
    BY <2>5
<1>3. N \in T
  <2>1. \A n \in Nat : n \in T /\ n < N => n + 1 \in T
    BY <1>2
  <2>2. 0..N \subseteq T
    <3> HIDE DEF T
    <3>1. QED
      BY <1>1, <2>1, Induction
  <2>3. QED
    BY <2>2
<1>4. \E f : IsRounds(f, given, selector, N)
  BY <1>3
<1> DEFINE rounds == CHOOSE f : IsRounds(f, given, selector, N)
<1>5. IsRounds(rounds, given, selector, N)
  BY <1>4
<1>6. RemovedActions(given, selector) = rounds[N]
  BY DEF RemovedActions, IsRounds
<1>7. QED
  BY <1>5, <1>6

\* A consumer of a handle is an action; a removal has the targets, no consumer of a
\* removed handle is left out, and every other such set has it.
LEMMA RemovalIsLeast ==
  ASSUME NEW given, NEW selector, Len(given.actions) \in Nat
  PROVE  LET removed == RemovedActions(given, selector)
             closed(set) == \A i \in set : Consumers(given, i) \subseteq set
         IN /\ removed \subseteq Positions(given.actions)
            /\ Targets(given, selector) \subseteq removed
            /\ closed(removed)
            /\ \A set : Targets(given, selector) \subseteq set /\ closed(set) => removed \subseteq set
<1> DEFINE N == Len(given.actions)
           closed(set) == \A i \in set : Consumers(given, i) \subseteq set
           target == Targets(given, selector)
<1>1. PICK f : /\ IsRounds(f, given, selector, N)
               /\ RemovedActions(given, selector) = f[N]
  BY RoundsAreDefined
<1>2. N \in Nat
  OBVIOUS
<1>3. f[0] = target
  BY <1>1 DEF IsRounds
<1>4. ASSUME NEW n \in Nat, n < N
      PROVE  f[n + 1] = UNION {{i} \cup Consumers(given, i) : i \in f[n]}
  <2>1. n + 1 \in 0..N /\ n + 1 # 0 /\ (n + 1) - 1 = n
    BY <1>4
  <2>2. QED
    BY <1>1, <2>1 DEF IsRounds
<1>5. target \subseteq 1..N /\ \A i : Consumers(given, i) \subseteq 1..N
  BY DEF Targets, Consumers, Positions
<1>6. ASSUME NEW n \in Nat, n < N
      PROVE  /\ f[n] \subseteq f[n + 1]
             /\ \A i \in f[n] : Consumers(given, i) \subseteq f[n + 1]
             /\ \A set : f[n] \subseteq set /\ closed(set) => f[n + 1] \subseteq set
             /\ f[n] \subseteq 1..N => f[n + 1] \subseteq 1..N
  BY <1>4, <1>5, <1>6
<1>7. \A n \in 0..N : f[n] \subseteq 1..N /\ target \subseteq f[n]
  <2> DEFINE T == {n \in Nat : f[n] \subseteq 1..N /\ target \subseteq f[n]}
  <2>1. 0 \in T
    BY <1>3, <1>5
  <2>2. \A n \in Nat : n \in T /\ n < N => n + 1 \in T
    BY <1>6
  <2>3. 0..N \subseteq T
    <3> HIDE DEF T
    <3>1. QED
      BY <1>2, <2>1, <2>2, Induction
  <2>4. QED
    BY <2>3
<1>8. ASSUME NEW set, target \subseteq set, closed(set)
      PROVE  f[N] \subseteq set
  <2> DEFINE T == {n \in Nat : f[n] \subseteq set}
  <2>1. 0 \in T
    BY <1>3, <1>8
  <2>2. \A n \in Nat : n \in T /\ n < N => n + 1 \in T
    BY <1>6, <1>8
  <2>3. 0..N \subseteq T
    <3> HIDE DEF T
    <3>1. QED
      BY <1>2, <2>1, <2>2, Induction
  <2>4. QED
    BY <1>2, <2>3
<1>9. closed(f[N])
  <2> DEFINE T == {n \in Nat : closed(f[n]) \/ Cardinality(f[n]) > n}
  <2>1. \A n \in 0..N : /\ IsFiniteSet(f[n])
                        /\ Cardinality(f[n]) \in Nat
                        /\ Cardinality(f[n]) <= N
    <3>1. IsFiniteSet(1..N) /\ Cardinality(1..N) = N
      BY <1>2, FS_Interval
    <3>2. QED
      BY <1>7, <3>1, FS_Subset, FS_CardinalityType
  <2>2. 0 \in T
    <3>1. CASE f[0] = {}
      BY <3>1
    <3>2. CASE f[0] # {}
      BY <1>2, <2>1, <3>2, FS_EmptySet
    <3>3. QED
      BY <3>1, <3>2
  <2>3. ASSUME NEW n \in Nat, n \in T, n < N
        PROVE  n + 1 \in T
    <3>1. n \in 0..N /\ n + 1 \in 0..N
      BY <2>3
    <3>2. CASE closed(f[n])
      <4>1. f[n + 1] = f[n]
        BY <1>6, <2>3, <3>2
      <4>2. closed(f[n + 1])
        BY <3>2, <4>1
      <4>3. QED
        BY <4>2
    <3>3. CASE ~closed(f[n])
      <4>1. Cardinality(f[n]) > n
        BY <2>3, <3>3
      <4>2. f[n] # f[n + 1] /\ f[n] \in SUBSET f[n + 1]
        BY <1>6, <2>3, <3>3
      <4>3. /\ Cardinality(f[n]) <= Cardinality(f[n + 1])
            /\ Cardinality(f[n]) # Cardinality(f[n + 1])
        BY <2>1, <3>1, <4>2, FS_Subset
      <4>4. Cardinality(f[n + 1]) > n + 1
        BY <2>1, <3>1, <4>1, <4>3
      <4>5. QED
        BY <4>4
    <3>4. QED
      BY <3>2, <3>3
  <2>4. 0..N \subseteq T
    <3> HIDE DEF T
    <3>1. QED
      BY <1>2, <2>2, <2>3, Induction
  <2>5. QED
    BY <1>2, <2>1, <2>4
<1>10. f[N] \subseteq 1..N /\ target \subseteq f[N]
  BY <1>2, <1>7
<1>11. QED
  BY <1>1, <1>8, <1>9, <1>10 DEF Positions

-----------------------------------------------------------------------------
(***************************************************************************)
(* New numbers.                                                            *)
(***************************************************************************)

\* The new numbers of kept positions are 1, 2, ... in their order.
LEMMA NewNumbers ==
  ASSUME NEW last \in Nat, NEW kept \in SUBSET (1..last)
  PROVE  /\ Cardinality(kept) \in Nat
         /\ \A i \in kept : Renumbered(kept, i) \in 1..Cardinality(kept)
         /\ \A i, j \in kept : i < j => Renumbered(kept, i) < Renumbered(kept, j)
         /\ \A i, j \in kept : Renumbered(kept, i) = Renumbered(kept, j) => i = j
         /\ \A n \in 1..Cardinality(kept) : \E i \in kept : Renumbered(kept, i) = n
<1> DEFINE upTo(i) == {j \in kept : j <= i}
           count == Cardinality(kept)
<1>1. IsFiniteSet(kept) /\ count \in Nat
  <2>1. IsFiniteSet(1..last)
    BY FS_Interval
  <2>2. IsFiniteSet(kept)
    BY <2>1, FS_Subset
  <2>3. QED
    BY <2>2, FS_CardinalityType
<1>2. \A i \in kept : /\ upTo(i) \in SUBSET kept
                      /\ i \in upTo(i)
                      /\ IsFiniteSet(upTo(i))
                      /\ Cardinality(upTo(i)) \in Nat
                      /\ Cardinality(upTo(i)) <= count
                      /\ Cardinality(upTo(i)) # 0
                      /\ Renumbered(kept, i) = Cardinality(upTo(i))
  <2> SUFFICES ASSUME NEW i \in kept
               PROVE  /\ upTo(i) \in SUBSET kept
                      /\ i \in upTo(i)
                      /\ IsFiniteSet(upTo(i))
                      /\ Cardinality(upTo(i)) \in Nat
                      /\ Cardinality(upTo(i)) <= count
                      /\ Cardinality(upTo(i)) # 0
                      /\ Renumbered(kept, i) = Cardinality(upTo(i))
    OBVIOUS
  <2>1. upTo(i) \in SUBSET kept /\ i \in upTo(i)
    OBVIOUS
  <2>2. IsFiniteSet(upTo(i)) /\ Cardinality(upTo(i)) <= count
    BY <1>1, <2>1, FS_Subset
  <2>3. Cardinality(upTo(i)) \in Nat /\ Cardinality(upTo(i)) # 0
    BY <2>1, <2>2, FS_CardinalityType, FS_EmptySet
  <2>4. Renumbered(kept, i) = Cardinality(upTo(i))
    BY DEF Renumbered
  <2>5. QED
    BY <2>1, <2>2, <2>3, <2>4
<1>3. \A i \in kept : Renumbered(kept, i) \in 1..count
  <2> SUFFICES ASSUME NEW i \in kept PROVE Renumbered(kept, i) \in 1..count
    OBVIOUS
  <2> HIDE DEF upTo
  <2>1. QED
    BY <1>1, <1>2
<1>4. ASSUME NEW i \in kept, NEW j \in kept, i < j
      PROVE  Renumbered(kept, i) < Renumbered(kept, j)
  <2>1. \A k \in kept : k \in Nat
    OBVIOUS
  <2>2. i \in Nat /\ j \in Nat
    BY <2>1
  <2>3. \A k \in kept : k <= i => k <= j
    BY <1>4, <2>1, <2>2
  <2>4. ~(j <= i)
    BY <1>4, <2>2
  <2>5. upTo(i) \in SUBSET upTo(j) /\ j \notin upTo(i)
    BY <2>3, <2>4
  <2>6. Cardinality(upTo(i)) <= Cardinality(upTo(j)) /\ Cardinality(upTo(i)) # Cardinality(upTo(j))
    <3>1. IsFiniteSet(upTo(j)) /\ j \in upTo(j)
      BY <1>2
    <3>2. QED
      BY <2>5, <3>1, FS_Subset
  <2>7. QED
    <3> HIDE DEF upTo
    <3>1. QED
      BY <1>2, <2>6
<1>5. \A i, j \in kept : Renumbered(kept, i) = Renumbered(kept, j) => i = j
  BY <1>3, <1>4
<1> DEFINE f == [i \in kept |-> Renumbered(kept, i)]
<1>6. \A n \in 1..count : \E i \in kept : Renumbered(kept, i) = n
  <2>1. IsFiniteSet(1..count) /\ Cardinality(1..count) = count
    BY <1>1, FS_Interval
  <2>2. f \in Injection(kept, 1..count)
    BY <1>3, <1>5 DEF Injection, IsInjective
  <2>3. f \in Surjection(kept, 1..count)
    BY <2>1, <2>2, FS_Injection
  <2>4. QED
    BY <2>3 DEF Surjection
<1>7. QED
  BY <1>1, <1>3, <1>4, <1>5, <1>6

\* What is kept of a sequence is in the place of its new number.
IsKept(left, seq, kept) ==
  /\ Len(left) = Cardinality(kept)
  /\ Positions(left) = 1..Cardinality(kept)
  /\ \A i \in kept : left[Renumbered(kept, i)] = seq[i]
  /\ \A n \in 1..Cardinality(kept) : \E i \in kept : n = Renumbered(kept, i) /\ left[n] = seq[i]

LEMMA KeptInPlace ==
  ASSUME NEW last \in Nat, NEW kept \in SUBSET (1..last), NEW seq
  PROVE  IsKept(Keep(seq, kept), seq, kept)
<1> DEFINE count == Cardinality(kept)
           nth(n) == CHOOSE i \in kept : Renumbered(kept, i) = n
           k == Keep(seq, kept)
<1>1. \A n \in 1..count : nth(n) \in kept /\ Renumbered(kept, nth(n)) = n
  BY NewNumbers
<1>2. k = [n \in 1..count |-> seq[nth(n)]]
  BY DEF Keep
<1>3. count \in Nat
  BY NewNumbers
<1>4. k \in [1..count -> {seq[i] : i \in kept}]
  BY <1>1, <1>2
<1>5. Len(k) = count
  BY <1>3, <1>4, SeqDef, LenProperties
<1>6. \A i \in kept : k[Renumbered(kept, i)] = seq[i]
  <2> SUFFICES ASSUME NEW i \in kept PROVE k[Renumbered(kept, i)] = seq[i]
    OBVIOUS
  <2>1. Renumbered(kept, i) \in 1..count
    BY NewNumbers
  <2>2. nth(Renumbered(kept, i)) = i
    BY <1>1, <2>1, NewNumbers
  <2>3. QED
    BY <1>2, <2>1, <2>2
<1>7. \A n \in 1..count : \E i \in kept : n = Renumbered(kept, i) /\ k[n] = seq[i]
  BY <1>1, <1>2
<1>8. QED
  BY <1>4, <1>5, <1>6, <1>7 DEF Positions, IsKept
-----------------------------------------------------------------------------
(***************************************************************************)
(* What is left after a removal.                                           *)
(***************************************************************************)

\* A reduction input has its fields, sequences where a rule counts them.
IsInput(given) ==
  /\ {"actors", "actions", "transformations"} \subseteq DOMAIN given
  /\ Len(given.actors) \in Nat
  /\ Len(given.actions) \in Nat
  /\ Len(given.transformations) \in Nat
  /\ \A t \in Positions(given.transformations) :
       /\ {"operatorId", "ids"} \subseteq DOMAIN given.transformations[t]
       /\ Len(given.transformations[t].ids) \in Nat

\* The kept positions are positions.
LEMMA KeptArePositions ==
  ASSUME NEW given, NEW selector
  PROVE  /\ KeptActors(given, selector) \in SUBSET (1..Len(given.actors))
         /\ KeptActions(given, selector) \in SUBSET (1..Len(given.actions))
         /\ KeptRequests(given, selector) \in SUBSET (1..Len(given.transformations))
BY DEF KeptActors, KeptActions, KeptRequests, Positions

\* A request that refers to new numbers.
LEMMA RemappedRequest ==
  ASSUME NEW asked, NEW kept, {"operatorId", "ids"} \subseteq DOMAIN asked,
         Len(asked.ids) \in Nat
  PROVE  LET after == Remapped(asked, kept)
         IN /\ DOMAIN after = DOMAIN asked
            /\ after.operatorId = asked.operatorId
            /\ Len(after.ids) = Len(asked.ids)
            /\ \A k \in Positions(asked.ids) : after.ids[k] = Renumbered(kept, asked.ids[k])
<1> DEFINE after == Remapped(asked, kept)
           ids == [k \in Positions(asked.ids) |-> Renumbered(kept, asked.ids[k])]
<1>1. after = [asked EXCEPT !.ids = ids]
  BY DEF Remapped
<1>2. after.ids = ids /\ after.operatorId = asked.operatorId /\ DOMAIN after = DOMAIN asked
  <2> HIDE DEF ids
  <2>1. QED
    BY <1>1
<1>3. Len(ids) = Len(asked.ids)
  <2>1. ids \in [1..Len(asked.ids) -> {ids[k] : k \in 1..Len(asked.ids)}]
    BY DEF Positions
  <2>2. QED
    BY <2>1, SeqDef, LenProperties
<1>4. QED
  BY <1>2, <1>3

\* The fields of what is left.
LEMMA WhatIsLeft ==
  ASSUME NEW given, NEW selector, IsInput(given)
  PROVE  LET left == Remove(given, selector)
             requests == KeptRequests(given, selector)
         IN /\ left.actors = Keep(given.actors, KeptActors(given, selector))
            /\ left.actions = Keep(given.actions, KeptActions(given, selector))
            /\ left.invariant = given.invariant
            /\ Positions(left.transformations) = 1..Cardinality(requests)
            /\ \A t \in requests :
                 left.transformations[Renumbered(requests, t)] =
                   Remapped(given.transformations[t], KeptActions(given, selector))
            /\ \A n \in Positions(left.transformations) :
                 \E t \in requests :
                   /\ n = Renumbered(requests, t)
                   /\ left.transformations[n] =
                        Remapped(given.transformations[t], KeptActions(given, selector))
            /\ IsInput(left)
<1> DEFINE left == Remove(given, selector)
           requests == KeptRequests(given, selector)
           kept == KeptActions(given, selector)
           old == Keep(given.transformations, requests)
           new == [t \in Positions(old) |-> Remapped(old[t], kept)]
<1>1. left = [given EXCEPT !.actors = Keep(given.actors, KeptActors(given, selector)),
                           !.actions = Keep(given.actions, kept),
                           !.transformations = new]
  BY DEF Remove
<1>2. /\ left.actors = Keep(given.actors, KeptActors(given, selector))
      /\ left.actions = Keep(given.actions, kept)
      /\ left.transformations = new
      /\ left.invariant = given.invariant
      /\ DOMAIN left = DOMAIN given
  <2> HIDE DEF new
  <2>1. {"actors", "actions", "transformations"} \subseteq DOMAIN given
    BY DEF IsInput
  <2>2. QED
    BY <1>1, <2>1
<1>3. /\ Len(given.actors) \in Nat
      /\ Len(given.actions) \in Nat
      /\ Len(given.transformations) \in Nat
  BY DEF IsInput
<1>4. /\ Positions(old) = 1..Cardinality(requests)
      /\ Cardinality(requests) \in Nat
      /\ \A t \in requests : Renumbered(requests, t) \in 1..Cardinality(requests)
      /\ \A t \in requests : old[Renumbered(requests, t)] = given.transformations[t]
      /\ \A n \in 1..Cardinality(requests) :
           \E t \in requests : n = Renumbered(requests, t) /\ old[n] = given.transformations[t]
  <2>1. requests \in SUBSET (1..Len(given.transformations))
    BY KeptArePositions
  <2> HIDE DEF requests
  <2>2. /\ Cardinality(requests) \in Nat
        /\ \A t \in requests : Renumbered(requests, t) \in 1..Cardinality(requests)
    BY <1>3, <2>1, NewNumbers
  <2>3. /\ Positions(old) = 1..Cardinality(requests)
        /\ \A t \in requests : old[Renumbered(requests, t)] = given.transformations[t]
        /\ \A n \in 1..Cardinality(requests) :
             \E t \in requests : n = Renumbered(requests, t) /\ old[n] = given.transformations[t]
    <3>1. IsKept(old, given.transformations, requests)
      BY <1>3, <2>1, KeptInPlace
    <3>2. QED
      BY <3>1 DEF IsKept
  <2>4. QED
    BY <2>2, <2>3
<1>5. Len(new) = Cardinality(requests) /\ Positions(new) = 1..Cardinality(requests)
  <2>1. new \in [1..Cardinality(requests) -> {new[n] : n \in 1..Cardinality(requests)}]
    BY <1>4
  <2> HIDE DEF new, requests
  <2>2. QED
    BY <1>4, <2>1, SeqDef, LenProperties DEF Positions
<1>6. /\ \A t \in requests : new[Renumbered(requests, t)] = Remapped(given.transformations[t], kept)
      /\ \A n \in 1..Cardinality(requests) :
           \E t \in requests : n = Renumbered(requests, t)
                               /\ new[n] = Remapped(given.transformations[t], kept)
  <2> HIDE DEF requests, kept, old
  <2>1. QED
    BY <1>4
<1>7. IsInput(left)
  <2>1. Len(left.actors) \in Nat /\ Len(left.actions) \in Nat /\ Len(left.transformations) \in Nat
    <3>1. /\ KeptActors(given, selector) \in SUBSET (1..Len(given.actors))
          /\ kept \in SUBSET (1..Len(given.actions))
      BY KeptArePositions
    <3>2. /\ Len(left.actors) = Cardinality(KeptActors(given, selector))
          /\ Cardinality(KeptActors(given, selector)) \in Nat
      BY <1>2, <1>3, <3>1, KeptInPlace, NewNumbers DEF IsKept
    <3>3. Len(left.actions) = Cardinality(kept) /\ Cardinality(kept) \in Nat
      BY <1>2, <1>3, <3>1, KeptInPlace, NewNumbers DEF IsKept
    <3>4. QED
      BY <1>2, <1>4, <1>5, <3>2, <3>3
  <2>2. ASSUME NEW n \in Positions(left.transformations)
        PROVE  /\ {"operatorId", "ids"} \subseteq DOMAIN left.transformations[n]
               /\ Len(left.transformations[n].ids) \in Nat
    <3>1. PICK t \in requests : new[n] = Remapped(given.transformations[t], kept)
      BY <1>2, <1>5, <1>6
    <3>2. t \in Positions(given.transformations)
      BY DEF KeptRequests
    <3>3. /\ {"operatorId", "ids"} \subseteq DOMAIN given.transformations[t]
          /\ Len(given.transformations[t].ids) \in Nat
      BY <3>2 DEF IsInput
    <3> DEFINE after == Remapped(given.transformations[t], kept)
    <3>4. /\ DOMAIN after = DOMAIN given.transformations[t]
          /\ Len(after.ids) = Len(given.transformations[t].ids)
      BY <3>3, RemappedRequest
    <3>5. left.transformations[n] = after
      BY <1>2, <3>1
    <3> HIDE DEF after, left
    <3>6. QED
      BY <3>3, <3>4, <3>5
  <2>3. {"actors", "actions", "transformations"} \subseteq DOMAIN left
    BY <1>2 DEF IsInput
  <2>4. QED
    BY <2>1, <2>2, <2>3 DEF IsInput
<1>8. QED
  BY <1>2, <1>5, <1>6, <1>7

\* What is left names the same actions as before it.
LEMMA RequestsFollow ==
  ASSUME NEW given, NEW selector, IsInput(given), RequestsApply(given)
  PROVE  LET requests == KeptRequests(given, selector)
             left == Remove(given, selector)
         IN \A t \in requests :
              LET before == given.transformations[t]
                  after == left.transformations[Renumbered(requests, t)]
              IN /\ after.operatorId = before.operatorId
                 /\ Len(after.ids) = Len(before.ids)
                 /\ \A k \in 1..Len(before.ids) :
                      /\ before.ids[k] \in KeptActions(given, selector)
                      /\ after.ids[k] = Renumbered(KeptActions(given, selector), before.ids[k])
                      /\ after.ids[k] \in Positions(left.actions)
                      /\ left.actions[after.ids[k]] = given.actions[before.ids[k]]
<1> DEFINE kept == KeptActions(given, selector)
           requests == KeptRequests(given, selector)
           left == Remove(given, selector)
<1> SUFFICES ASSUME NEW t \in requests
             PROVE  LET before == given.transformations[t]
                        after == left.transformations[Renumbered(requests, t)]
                    IN /\ after.operatorId = before.operatorId
                       /\ Len(after.ids) = Len(before.ids)
                       /\ \A k \in 1..Len(before.ids) :
                            /\ before.ids[k] \in kept
                            /\ after.ids[k] = Renumbered(kept, before.ids[k])
                            /\ after.ids[k] \in Positions(left.actions)
                            /\ left.actions[after.ids[k]] = given.actions[before.ids[k]]
  OBVIOUS
<1> DEFINE before == given.transformations[t]
           after == left.transformations[Renumbered(requests, t)]
<1>1. t \in Positions(given.transformations) /\ t \notin RemovedRequests(given, selector)
  BY DEF KeptRequests
<1>2. after = Remapped(before, kept)
  BY WhatIsLeft
<1>3. {"operatorId", "ids"} \subseteq DOMAIN before /\ Len(before.ids) \in Nat
  BY <1>1 DEF IsInput
<1>4. /\ after.operatorId = before.operatorId
      /\ Len(after.ids) = Len(before.ids)
      /\ \A k \in Positions(before.ids) : after.ids[k] = Renumbered(kept, before.ids[k])
  <2> HIDE DEF before, after, kept
  <2>1. QED
    BY <1>2, <1>3, RemappedRequest
<1>5. ASSUME NEW k \in 1..Len(before.ids)
      PROVE  /\ before.ids[k] \in kept
             /\ after.ids[k] = Renumbered(kept, before.ids[k])
             /\ after.ids[k] \in Positions(left.actions)
             /\ left.actions[after.ids[k]] = given.actions[before.ids[k]]
  <2>1. k \in Positions(before.ids)
    BY DEF Positions
  <2>2. before.ids[k] \in Positions(given.actions)
    BY <1>1, <2>1 DEF RequestsApply
  <2>3. before.ids[k] \notin RemovedActions(given, selector)
    BY <1>1, <2>1 DEF RemovedRequests
  <2>4. before.ids[k] \in kept
    BY <2>2, <2>3 DEF KeptActions
  <2>5. left.actions = Keep(given.actions, kept)
    BY WhatIsLeft
  <2>6. Len(given.actions) \in Nat /\ kept \in SUBSET (1..Len(given.actions))
    BY KeptArePositions DEF IsInput
  <2> HIDE DEF kept, left, before, after
  <2>7. /\ Positions(Keep(given.actions, kept)) = 1..Cardinality(kept)
        /\ Keep(given.actions, kept)[Renumbered(kept, before.ids[k])] = given.actions[before.ids[k]]
    <3>1. IsKept(Keep(given.actions, kept), given.actions, kept)
      BY <2>6, KeptInPlace
    <3>2. QED
      BY <2>4, <3>1 DEF IsKept
  <2>8. Renumbered(kept, before.ids[k]) \in 1..Cardinality(kept)
    BY <2>4, <2>6, NewNumbers
  <2>9. QED
    BY <1>4, <2>1, <2>4, <2>5, <2>7, <2>8
<1>6. QED
  BY <1>4, <1>5

\* Handles stay bound: a run or commit whose producer is removed is removed with it.
LEMMA HandlesStayBound ==
  ASSUME NEW given, NEW selector, IsInput(given), HandlesAreBound(given)
  PROVE  HandlesAreBound(Remove(given, selector))
<1> DEFINE kept == KeptActions(given, selector)
           left == Remove(given, selector)
<1>1. left.actions = Keep(given.actions, kept)
  BY WhatIsLeft
<1>2. Len(given.actions) \in Nat /\ kept \in SUBSET (1..Len(given.actions))
  BY KeptArePositions DEF IsInput
<1> HIDE DEF left
<1>3. /\ Positions(left.actions) = 1..Cardinality(kept)
      /\ \A i \in kept : left.actions[Renumbered(kept, i)] = given.actions[i]
      /\ \A n \in 1..Cardinality(kept) :
           \E i \in kept : n = Renumbered(kept, i) /\ left.actions[n] = given.actions[i]
  <2>1. IsKept(left.actions, given.actions, kept)
    BY <1>1, <1>2, KeptInPlace
  <2>2. QED
    BY <2>1 DEF IsKept
<1> SUFFICES ASSUME NEW n \in Positions(left.actions),
                    left.actions[n].actionId \in {"tx.run", "tx.commit"}
             PROVE  \E m \in 1..(n - 1) :
                      left.actions[m].bind # "null" /\ left.actions[m].bind = left.actions[n].tx
  BY DEF HandlesAreBound, left
<1>4. PICK i \in kept : n = Renumbered(kept, i) /\ left.actions[n] = given.actions[i]
  BY <1>3
<1>5. i \in Positions(given.actions)
  BY DEF KeptActions
<1>6. PICK j \in 1..(i - 1) :
        given.actions[j].bind # "null" /\ given.actions[j].bind = given.actions[i].tx
  BY <1>4, <1>5 DEF HandlesAreBound
<1>7. j \in Positions(given.actions) /\ j < i
  BY <1>2, <1>5, <1>6 DEF Positions
<1>8. i \in Consumers(given, j)
  BY <1>4, <1>5, <1>6 DEF Consumers
<1>9. j \in kept
  <2>1. SUFFICES ASSUME j \in RemovedActions(given, selector) PROVE FALSE
    BY <1>7 DEF KeptActions
  <2>2. i \in RemovedActions(given, selector)
    BY <1>2, <1>8, <2>1, RemovalIsLeast
  <2>3. QED
    BY <2>2 DEF KeptActions
<1>10. Renumbered(kept, j) \in 1..(n - 1)
  <2> HIDE DEF kept
  <2>1. Renumbered(kept, j) < Renumbered(kept, i) /\ Renumbered(kept, j) \in 1..Cardinality(kept)
        /\ Cardinality(kept) \in Nat /\ Renumbered(kept, i) \in 1..Cardinality(kept)
    BY <1>2, <1>7, <1>9, NewNumbers
  <2>2. QED
    BY <1>4, <2>1
<1>11. left.actions[Renumbered(kept, j)] = given.actions[j]
  BY <1>3, <1>9
<1>12. QED
  BY <1>4, <1>6, <1>10, <1>11

\* No two producers get the same name.
LEMMA BindingsStayUnique ==
  ASSUME NEW given, NEW selector, IsInput(given), BindingsAreUnique(given)
  PROVE  BindingsAreUnique(Remove(given, selector))
<1> DEFINE kept == KeptActions(given, selector)
           left == Remove(given, selector)
<1>1. left.actions = Keep(given.actions, kept)
  BY WhatIsLeft
<1>2. Len(given.actions) \in Nat /\ kept \in SUBSET (1..Len(given.actions))
  BY KeptArePositions DEF IsInput
<1> HIDE DEF left
<1>3. /\ Positions(left.actions) = 1..Cardinality(kept)
      /\ \A n \in 1..Cardinality(kept) :
           \E i \in kept : n = Renumbered(kept, i) /\ left.actions[n] = given.actions[i]
  <2>1. IsKept(left.actions, given.actions, kept)
    BY <1>1, <1>2, KeptInPlace
  <2>2. QED
    BY <2>1 DEF IsKept
<1> SUFFICES ASSUME NEW n \in Producers(left), NEW m \in Producers(left),
                    left.actions[n].bind = left.actions[m].bind
             PROVE  n = m
  BY DEF BindingsAreUnique, left
<1>4. PICK i \in kept : n = Renumbered(kept, i) /\ left.actions[n] = given.actions[i]
  BY <1>3 DEF Producers
<1>5. PICK j \in kept : m = Renumbered(kept, j) /\ left.actions[m] = given.actions[j]
  BY <1>3 DEF Producers
<1>6. i \in Producers(given) /\ j \in Producers(given)
  BY <1>4, <1>5 DEF Producers, KeptActions
<1>7. i = j
  BY <1>4, <1>5, <1>6 DEF BindingsAreUnique
<1>8. QED
  BY <1>4, <1>5, <1>7

\* Every actor of a kept action is kept, once.
LEMMA ActorsStayDeclared ==
  ASSUME NEW given, NEW selector, IsInput(given), ActorsAreDeclared(given)
  PROVE  ActorsAreDeclared(Remove(given, selector))
<1> DEFINE kept == KeptActions(given, selector)
           actors == KeptActors(given, selector)
           left == Remove(given, selector)
<1>1. left.actions = Keep(given.actions, kept) /\ left.actors = Keep(given.actors, actors)
  BY WhatIsLeft
<1>2. /\ Len(given.actions) \in Nat /\ kept \in SUBSET (1..Len(given.actions))
      /\ Len(given.actors) \in Nat /\ actors \in SUBSET (1..Len(given.actors))
  BY KeptArePositions DEF IsInput
<1> HIDE DEF left
<1>3. /\ Positions(left.actions) = 1..Cardinality(kept)
      /\ \A n \in 1..Cardinality(kept) :
           \E i \in kept : n = Renumbered(kept, i) /\ left.actions[n] = given.actions[i]
  <2>1. IsKept(left.actions, given.actions, kept)
    BY <1>1, <1>2, KeptInPlace
  <2>2. QED
    BY <2>1 DEF IsKept
<1>4. /\ Positions(left.actors) = 1..Cardinality(actors)
      /\ \A a \in actors : left.actors[Renumbered(actors, a)] = given.actors[a]
      /\ \A n \in 1..Cardinality(actors) :
           \E a \in actors : n = Renumbered(actors, a) /\ left.actors[n] = given.actors[a]
  <2>1. IsKept(left.actors, given.actors, actors)
    BY <1>1, <1>2, KeptInPlace
  <2>2. QED
    BY <2>1 DEF IsKept
<1>5. \A a \in actors : Renumbered(actors, a) \in 1..Cardinality(actors)
  <2> HIDE DEF actors
  <2>1. QED
    BY <1>2, NewNumbers
<1>6. ASSUME NEW n \in Positions(left.actors), NEW m \in Positions(left.actors),
             left.actors[n] = left.actors[m]
      PROVE  n = m
  <2>1. PICK a \in actors : n = Renumbered(actors, a) /\ left.actors[n] = given.actors[a]
    BY <1>4
  <2>2. PICK b \in actors : m = Renumbered(actors, b) /\ left.actors[m] = given.actors[b]
    BY <1>4
  <2>3. a \in Positions(given.actors) /\ b \in Positions(given.actors)
    BY DEF KeptActors
  <2>4. a = b
    BY <1>6, <2>1, <2>2, <2>3 DEF ActorsAreDeclared
  <2>5. QED
    BY <2>1, <2>2, <2>4
<1>7. ASSUME NEW n \in Positions(left.actions)
      PROVE  \E a \in Positions(left.actors) : left.actors[a] = left.actions[n].actor
  <2>1. PICK i \in kept : left.actions[n] = given.actions[i]
    BY <1>3
  <2>2. i \in Positions(given.actions) /\ i \notin RemovedActions(given, selector)
    BY DEF KeptActions
  <2>3. PICK a \in Positions(given.actors) : given.actors[a] = given.actions[i].actor
    BY <2>2 DEF ActorsAreDeclared
  <2>4. ~(selector.kind = "actor" /\ selector.index = a)
    <3>1. SUFFICES ASSUME selector.kind = "actor", selector.index = a PROVE FALSE
      OBVIOUS
    <3>2. i \in Targets(given, selector)
      BY <2>2, <2>3, <3>1 DEF Targets
    <3>3. Targets(given, selector) \subseteq RemovedActions(given, selector)
      BY <1>2, RemovalIsLeast
    <3>4. QED
      BY <2>2, <3>2, <3>3
  <2>5. a \in actors
    BY <2>3, <2>4 DEF KeptActors
  <2>6. QED
    BY <1>4, <1>5, <2>1, <2>3, <2>5
<1>8. QED
  BY <1>6, <1>7 DEF ActorsAreDeclared, left

\* Every request that is kept still applies.
LEMMA RequestsStillApply ==
  ASSUME NEW given, NEW selector, IsInput(given), RequestsApply(given)
  PROVE  RequestsApply(Remove(given, selector))
<1> DEFINE kept == KeptActions(given, selector)
           requests == KeptRequests(given, selector)
           left == Remove(given, selector)
<1> SUFFICES ASSUME NEW n \in Positions(left.transformations)
             PROVE  LET ids == left.transformations[n].ids
                    IN /\ \A k \in Positions(ids) : ids[k] \in Positions(left.actions)
                       /\ n \in Faults(left) \cup ReleaseOrders(left) =>
                            \A k \in Positions(ids) : ids[k] \in Runs(left)
                       /\ n \in ReleaseOrders(left) =>
                            /\ Len(ids) >= 2
                            /\ \A k, l \in Positions(ids) : ids[k] = ids[l] => k = l
  BY DEF RequestsApply
<1> DEFINE ids == left.transformations[n].ids
<1>1. PICK t \in requests : n = Renumbered(requests, t)
  BY WhatIsLeft
<1> DEFINE before == given.transformations[t]
<1>2. t \in Positions(given.transformations)
  BY DEF KeptRequests
<1>3. /\ left.transformations[n].operatorId = before.operatorId
      /\ Len(ids) = Len(before.ids)
      /\ \A k \in 1..Len(before.ids) :
           /\ before.ids[k] \in kept
           /\ ids[k] = Renumbered(kept, before.ids[k])
           /\ ids[k] \in Positions(left.actions)
           /\ left.actions[ids[k]] = given.actions[before.ids[k]]
  BY <1>1, RequestsFollow
<1>4. Positions(ids) = 1..Len(before.ids) /\ Positions(before.ids) = 1..Len(before.ids)
  BY <1>3 DEF Positions
<1>5. /\ n \in Faults(left) => t \in Faults(given)
      /\ n \in ReleaseOrders(left) => t \in ReleaseOrders(given)
  BY <1>2, <1>3 DEF Faults, ReleaseOrders
<1>6. /\ t \in Faults(given) \cup ReleaseOrders(given) =>
           \A k \in Positions(before.ids) : before.ids[k] \in Runs(given)
      /\ t \in ReleaseOrders(given) =>
           Len(before.ids) >= 2
           /\ \A k, l \in Positions(before.ids) : before.ids[k] = before.ids[l] => k = l
  BY <1>2 DEF RequestsApply
<1>7. Len(given.actions) \in Nat /\ kept \in SUBSET (1..Len(given.actions))
  BY KeptArePositions DEF IsInput
<1>8. \A i, j \in kept : Renumbered(kept, i) = Renumbered(kept, j) => i = j
  <2> HIDE DEF kept
  <2>1. QED
    BY <1>7, NewNumbers
<1> HIDE DEF kept, requests, left, before
<1>9. \A k \in Positions(ids) : ids[k] \in Positions(left.actions)
  BY <1>3, <1>4
<1>10. ASSUME n \in Faults(left) \cup ReleaseOrders(left), NEW k \in Positions(ids)
       PROVE  ids[k] \in Runs(left)
  <2>1. k \in 1..Len(before.ids) /\ before.ids[k] \in Runs(given)
    BY <1>4, <1>5, <1>6, <1>10
  <2>2. left.actions[ids[k]].actionId = "tx.run"
    BY <1>3, <2>1 DEF Runs
  <2>3. QED
    BY <1>9, <2>2 DEF Runs
<1>11. ASSUME n \in ReleaseOrders(left)
       PROVE  Len(ids) >= 2 /\ \A k, l \in Positions(ids) : ids[k] = ids[l] => k = l
  <2>1. /\ Len(before.ids) >= 2
        /\ \A k, l \in Positions(before.ids) : before.ids[k] = before.ids[l] => k = l
    BY <1>5, <1>6, <1>11
  <2>2. Len(ids) >= 2
    BY <1>3, <2>1
  <2>3. ASSUME NEW k \in Positions(ids), NEW l \in Positions(ids), ids[k] = ids[l]
        PROVE  k = l
    <3>1. k \in 1..Len(before.ids) /\ l \in 1..Len(before.ids)
      BY <1>4
    <3>2. before.ids[k] = before.ids[l]
      BY <1>3, <1>8, <2>3, <3>1
    <3>3. QED
      BY <1>4, <2>1, <3>1, <3>2
  <2>4. QED
    BY <2>2, <2>3
<1>12. QED
  BY <1>9, <1>10, <1>11

\* The structure of a spec is what a removal leaves alone.
StructureInv == IsInput(current) /\ Structure(current)

\* An input of the schema has the fields a removal looks at.
LEMMA InputsAreInputs ==
  ASSUME NEW given \in Inputs
  PROVE  IsInput(given)
<1> DEFINE Action == [actionId : STRING, actor : STRING, bind : STRING, tx : STRING,
                      outcome : STRING, timeoutMs : Nat]
           Request == [operatorId : STRING, ids : Seq(Nat), advanceMs : Nat, outcome : STRING]
<1>1. given \in [actors : Seq(STRING), actions : Seq(Action), transformations : Seq(Request),
                 invariant : STRING]
  BY InputsAssumption
<1>2. /\ {"actors", "actions", "transformations"} \subseteq DOMAIN given
      /\ given.actors \in Seq(STRING)
      /\ given.actions \in Seq(Action)
      /\ given.transformations \in Seq(Request)
  <2> HIDE DEF Action, Request
  <2>1. QED
    BY <1>1
<1>3. Len(given.actors) \in Nat /\ Len(given.actions) \in Nat /\ Len(given.transformations) \in Nat
  <2> HIDE DEF Action, Request
  <2>1. QED
    BY <1>2, LenProperties
<1>4. ASSUME NEW t \in Positions(given.transformations)
      PROVE  /\ {"operatorId", "ids"} \subseteq DOMAIN given.transformations[t]
             /\ Len(given.transformations[t].ids) \in Nat
  <2>1. given.transformations[t] \in Request
    <3> HIDE DEF Request
    <3>1. QED
      BY <1>2, ElementOfSeq DEF Positions
  <2>2. /\ {"operatorId", "ids"} \subseteq DOMAIN given.transformations[t]
        /\ given.transformations[t].ids \in Seq(Nat)
    BY <2>1
  <2>3. QED
    BY <2>2, LenProperties
<1>5. QED
  BY <1>2, <1>3, <1>4 DEF IsInput

\* The scan only keeps candidates that are specs.
LEMMA NextStructure == StructureInv /\ [Next]_vars => StructureInv'
<1> SUFFICES ASSUME StructureInv, [Next]_vars PROVE StructureInv'
  OBVIOUS
<1>1. \/ current' = current
      \/ \E selector : current' = Remove(current, selector) /\ Valid(Remove(current, selector))
  <2>1. CASE EvaluationBudgetExhausted
    BY <2>1 DEF EvaluationBudgetExhausted
  <2>2. CASE InitialRun
    BY <2>2 DEF InitialRun, Execute
  <2>3. CASE CandidateBudgetExhausted
    BY <2>3 DEF CandidateBudgetExhausted
  <2>4. CASE RejectInvalid
    BY <2>4 DEF RejectInvalid, PassOver
  <2>5. CASE TryCandidate
    BY <2>5 DEF TryCandidate, BlockAttempt, PassOver, Accept
  <2>6. CASE CleanCheck
    BY <2>6 DEF CleanCheck, Execute
  <2>7. CASE Replay
    BY <2>7 DEF Replay, Execute
  <2>8. CASE UNCHANGED vars
    BY <2>8 DEF vars
  <2>9. QED
    BY <2>1, <2>2, <2>3, <2>4, <2>5, <2>6, <2>7, <2>8 DEF Next, Ended
<1>2. CASE current' = current
  BY <1>2 DEF StructureInv
<1>3. ASSUME NEW selector, current' = Remove(current, selector), Valid(Remove(current, selector))
      PROVE  StructureInv'
  <2>1. IsInput(Remove(current, selector))
    BY WhatIsLeft DEF StructureInv
  <2>2. Structure(Remove(current, selector))
    BY <1>3 DEF Valid
  <2>3. QED
    BY <1>3, <2>1, <2>2 DEF StructureInv
<1>4. QED
  BY <1>1, <1>2, <1>3

\* Whatever the reduction has come to, a removal from the input it has takes the targets
\* and what depends on them and nothing else, leaves the structure of a spec, and renumbers
\* its requests to the same actions (removeDependencyClosure and remapTransformations).
THEOREM RemovalsAreConsistent == Spec => []RemovalIsConsistent
<1>1. Init => StructureInv
  <2> SUFFICES ASSUME Init PROVE StructureInv
    OBVIOUS
  <2>1. current \in Inputs /\ Valid(current)
    BY DEF Init
  <2>2. QED
    BY <2>1, InputsAreInputs DEF StructureInv, Valid
<1>2. StructureInv => RemovalIsConsistent
  <2> SUFFICES ASSUME StructureInv PROVE RemovalIsConsistent
    OBVIOUS
  <2>1. IsInput(current) /\ Len(current.actions) \in Nat
    BY DEF StructureInv, IsInput
  <2>2. ClosureIsLeast
    <3> SUFFICES ASSUME NEW selector
                 PROVE  LET removed == RemovedActions(current, selector)
                            closed(set) == \A i \in set : Consumers(current, i) \subseteq set
                        IN /\ closed(removed)
                           /\ \A set : Targets(current, selector) \subseteq set /\ closed(set)
                                       => removed \subseteq set
      BY DEF ClosureIsLeast
    <3>1. QED
      BY <2>1, RemovalIsLeast
  <2>3. RemovalKeepsStructure
    <3>1. /\ HandlesAreBound(current)
          /\ BindingsAreUnique(current)
          /\ ActorsAreDeclared(current)
          /\ RequestsApply(current)
      BY DEF StructureInv, Structure
    <3>2. QED
      BY <2>1, <3>1, HandlesStayBound, BindingsStayUnique, ActorsStayDeclared, RequestsStillApply
         DEF RemovalKeepsStructure, Structure
  <2>4. RequestsFollowTheirActions
    <3>1. RequestsApply(current)
      BY DEF StructureInv, Structure
    <3>2. QED
      BY <2>1, <3>1, RequestsFollow DEF RequestsFollowTheirActions
  <2>5. QED
    BY <2>2, <2>3, <2>4 DEF RemovalIsConsistent
<1>3. QED
  BY <1>1, <1>2, NextStructure, PTL DEF Spec

-----------------------------------------------------------------------------
(***************************************************************************)
(* States.                                                                 *)
(***************************************************************************)

\* A function on 1..n has n entries.
LEMMA FunctionLength ==
  ASSUME NEW n \in Nat, NEW f, f = [k \in 1..n |-> f[k]]
  PROVE  Len(f) = n /\ Positions(f) = 1..n /\ History(f)
<1>1. f \in [1..n -> {f[k] : k \in 1..n}]
  OBVIOUS
<1>2. f \in Seq({f[k] : k \in 1..n})
  BY <1>1, SeqDef
<1>3. Len(f) = n
  BY <1>1, <1>2, LenProperties
<1> QED BY <1>2, <1>3 DEF Positions, History

\* The base actions of a seed, and an action that at most a fault has changed.
Made(action, original) ==
  action = [id |-> original.id, actionId |-> original.actionId, actor |-> original.actor,
            bind |-> original.bind, tx |-> original.tx, outcomes |-> action.outcomes,
            retry |-> action.retry, gate |-> original.gate, timeoutMs |-> original.timeoutMs]

IsState(st, base) ==
  /\ st = [actions |-> st.actions, controls |-> st.controls]
  /\ st.actions = [i \in Positions(base) |-> st.actions[i]]
  /\ \A i \in Positions(base) : Made(st.actions[i], base[i])
  /\ History(st.controls)

\* An action after a fault.
Faulted(v, entry, action) ==
  IF v = "phase3" THEN [action EXCEPT !.outcomes = <<entry.outcome>>]
  ELSE [action EXCEPT !.outcomes = <<entry.outcome>>, !.retry = 0]

\* What an operator that does not throw does.
IsApplied(v, entry, st, after) ==
  IF entry.operatorId = StepOutcome
  THEN /\ entry.ids[1] \in Runs([actions |-> st.actions])
       /\ after = [actions |-> [st.actions EXCEPT ![entry.ids[1]] = Faulted(v, entry, @)],
                   controls |-> st.controls]
  ELSE /\ entry.operatorId \in {TimeAdvance, ReleaseOrder}
       /\ after = [actions |-> st.actions, controls |-> Append(st.controls, Control(entry))]

\* What the schemas say of a seed, field by field.
LEMMA SeedFacts ==
  ASSUME NEW v \in Variants, NEW s \in Seeds[v]
  PROVE  /\ Len(s.actions) \in Nat
         /\ s.actions = [i \in Positions(s.actions) |-> s.actions[i]]
         /\ \A i \in Positions(s.actions) :
              /\ s.actions[i].timeoutMs \in 0..(AdvanceMax - 1)
              /\ s.actions[i].gate \in BOOLEAN
              /\ s.actions[i].retry \in Nat
              /\ s.actions[i].outcomes \in Seq(STRING)
         /\ s = [actors |-> s.actors, actions |-> s.actions, invariant |-> s.invariant]
<1> DEFINE A == [actionId : STRING, actor : STRING, bind : STRING, tx : STRING,
                    outcomes : Seq(STRING), retry : Nat, gate : BOOLEAN,
                    timeoutMs : 0..(AdvanceMax - 1)]
           SA == Seq(A)
           SS == Seq(STRING)
<1>1. s \in [actors : SS, actions : SA, invariant : STRING]
  BY SeedsAssumption
<1>2. s.actions \in SA /\ s = [actors |-> s.actors, actions |-> s.actions, invariant |-> s.invariant]
  <2> HIDE DEF SA, SS
  <2> QED BY <1>1
<1>3. /\ Len(s.actions) \in Nat
      /\ s.actions \in [1..Len(s.actions) -> A]
  <2> HIDE DEF A
  <2> QED BY <1>2, LenProperties
<1>4. \A i \in Positions(s.actions) : s.actions[i] \in A
  <2> HIDE DEF A
  <2> QED BY <1>3 DEF Positions
<1>5. s.actions = [i \in Positions(s.actions) |-> s.actions[i]]
  <2> HIDE DEF A
  <2> QED BY <1>3 DEF Positions
<1>6. \A i \in Positions(s.actions) :
              /\ s.actions[i].timeoutMs \in 0..(AdvanceMax - 1)
              /\ s.actions[i].gate \in BOOLEAN
              /\ s.actions[i].retry \in Nat
              /\ s.actions[i].outcomes \in Seq(STRING)
  <2> SUFFICES ASSUME NEW i \in Positions(s.actions)
               PROVE /\ s.actions[i].timeoutMs \in 0..(AdvanceMax - 1)
                     /\ s.actions[i].gate \in BOOLEAN
                     /\ s.actions[i].retry \in Nat
                     /\ s.actions[i].outcomes \in Seq(STRING)
    OBVIOUS
  <2> DEFINE a == s.actions[i]
  <2>1. a \in A
    BY <1>4
  <2> HIDE DEF a
  <2>2. /\ a.timeoutMs \in 0..(AdvanceMax - 1)
        /\ a.gate \in BOOLEAN
        /\ a.retry \in Nat
        /\ a.outcomes \in Seq(STRING)
    BY <2>1
  <2> QED BY <2>2 DEF a
<1>7. QED
  BY <1>2, <1>3, <1>5, <1>6

\* The base actions are a state that nothing has changed.
LEMMA BaseIsAState ==
  ASSUME NEW v \in Variants, NEW s \in Seeds[v]
  PROVE  /\ Len(BaseActions(s)) = Len(s.actions)
         /\ Positions(BaseActions(s)) = Positions(s.actions)
         /\ Len(BaseActions(s)) \in Nat
         /\ BaseActions(s) = [i \in Positions(s.actions) |-> BaseActions(s)[i]]
         /\ \A i \in Positions(s.actions) :
              /\ BaseActions(s)[i] =
                   [id |-> i, actionId |-> s.actions[i].actionId, actor |-> s.actions[i].actor,
                    bind |-> s.actions[i].bind, tx |-> s.actions[i].tx,
                    outcomes |-> s.actions[i].outcomes, retry |-> s.actions[i].retry,
                    gate |-> s.actions[i].gate, timeoutMs |-> s.actions[i].timeoutMs]
         /\ IsState(InitialState(BaseActions(s)), BaseActions(s))
<1> DEFINE B == BaseActions(s)
           n == Len(s.actions)
<1>1. n \in Nat
  BY SeedFacts
<1>2. /\ B = [i \in Positions(s.actions) |-> B[i]]
      /\ \A i \in Positions(s.actions) :
           B[i] = [id |-> i, actionId |-> s.actions[i].actionId, actor |-> s.actions[i].actor,
                    bind |-> s.actions[i].bind, tx |-> s.actions[i].tx,
                    outcomes |-> s.actions[i].outcomes, retry |-> s.actions[i].retry,
                    gate |-> s.actions[i].gate, timeoutMs |-> s.actions[i].timeoutMs]
  BY DEF BaseActions
<1>3. B \in [1..n -> {B[i] : i \in 1..n}]
  <2> HIDE DEF B
  <2> QED BY <1>2 DEF Positions
<1>4. Len(B) = n
  <2> HIDE DEF B, n
  <2> QED BY <1>1, <1>3, SeqDef, LenProperties
<1>5. Positions(B) = Positions(s.actions)
  BY <1>4 DEF Positions
<1>6. \A i \in Positions(B) : Made(B[i], B[i])
  <2> HIDE DEF B
  <2> QED BY <1>2, <1>5 DEF Made
<1>7. History(<<>>)
  BY SeqDef DEF History
<1>8. IsState(InitialState(B), B)
  <2> HIDE DEF B
  <2> QED BY <1>2, <1>5, <1>6, <1>7 DEF IsState, InitialState
<1>9. QED
  BY <1>1, <1>2, <1>4, <1>5, <1>8

\* A state has as many actions as the base, and the same runs.
LEMMA StateFacts ==
  ASSUME NEW base, Len(base) \in Nat, NEW st, IsState(st, base)
  PROVE  /\ Len(st.actions) = Len(base)
         /\ Positions(st.actions) = Positions(base)
         /\ DOMAIN st.actions = Positions(base)
         /\ Runs([actions |-> st.actions]) = Runs([actions |-> base])
         /\ Producers([actions |-> st.actions]) = Producers([actions |-> base])
         /\ st # Refused \/ Len(base) = 0
<1> DEFINE a == st.actions
           n == Len(base)
<1>1. a = [i \in 1..n |-> a[i]]
  BY DEF IsState, Positions
<1>2. Len(a) = n
  <2>1. a \in [1..n -> {a[i] : i \in 1..n}]
    <3> HIDE DEF a, n
    <3> QED BY <1>1
  <2> HIDE DEF a, n
  <2> QED BY <2>1, SeqDef, LenProperties DEF n
<1>3. Positions(a) = Positions(base) /\ DOMAIN a = Positions(base)
  BY <1>1, <1>2 DEF Positions
<1>4. \A i \in Positions(base) : a[i].actionId = base[i].actionId /\ a[i].bind = base[i].bind
  <2> SUFFICES ASSUME NEW i \in Positions(base)
               PROVE a[i].actionId = base[i].actionId /\ a[i].bind = base[i].bind
    OBVIOUS
  <2>1. Made(a[i], base[i])
    BY DEF IsState
  <2> QED BY <2>1 DEF Made
<1>5. Runs([actions |-> a]) = Runs([actions |-> base])
  <2> HIDE DEF a
  <2> QED BY <1>3, <1>4 DEF Runs
<1>6. Producers([actions |-> a]) = Producers([actions |-> base])
  <2> HIDE DEF a
  <2> QED BY <1>3, <1>4 DEF Producers
<1>7. st # Refused \/ Len(base) = 0
  BY <1>2 DEF Refused
<1>8. QED
  BY <1>2, <1>3, <1>5, <1>6, <1>7

\* An operator that does not throw is applied.
LEMMA Applied ==
  ASSUME NEW v \in Variants, NEW entry, NEW st, st = [actions |-> st.actions, controls |-> st.controls],
         Apply(v, entry, st) # Refused
  PROVE  IsApplied(v, entry, st, Apply(v, entry, st))
<1> DEFINE runIds == Runs([actions |-> st.actions])
           after == Apply(v, entry, st)
           scheduled == [actions |-> st.actions, controls |-> Append(st.controls, Control(entry))]
           faulted == [actions |-> [st.actions EXCEPT ![entry.ids[1]] = Faulted(v, entry, @)],
                       controls |-> st.controls]
<1>1. WithControl(entry, st) = scheduled
  BY DEF WithControl
<1>2. CASE v = "phase3"
  <2>1. after = ApplyOperatorRecord(entry, st)
    BY <1>2 DEF Apply
  <2>2. [st EXCEPT !.actions[entry.ids[1]].outcomes = <<entry.outcome>>] = faulted
    BY <1>2 DEF Faulted
  <2>3. CASE entry.operatorId = StepOutcome
    <3>1. after = IF entry.ids[1] \in runIds THEN faulted ELSE Refused
      BY <2>1, <2>2, <2>3 DEF ApplyOperatorRecord, StepOutcome, TimeAdvance, ReleaseOrder
    <3>2. QED
      BY <2>3, <3>1 DEF IsApplied
  <2>4. CASE entry.operatorId \in {TimeAdvance, ReleaseOrder}
    <3>1. after = scheduled
      BY <1>1, <2>1, <2>4 DEF ApplyOperatorRecord, StepOutcome, TimeAdvance, ReleaseOrder
    <3>2. QED
      BY <2>4, <3>1 DEF IsApplied, StepOutcome, TimeAdvance, ReleaseOrder
  <2>5. CASE entry.operatorId \notin {TimeAdvance, ReleaseOrder, StepOutcome}
    BY <2>1, <2>5 DEF ApplyOperatorRecord
  <2>6. QED
    BY <2>3, <2>4, <2>5
<1>3. CASE v = "benchmark"
  <2>1. after = ApplyBenchmarkOperator(entry, st)
    BY <1>3 DEF Apply
  <2>2. [st EXCEPT !.actions[entry.ids[1]] = [@ EXCEPT !.outcomes = <<entry.outcome>>, !.retry = 0]] = faulted
    BY <1>3 DEF Faulted
  <2>3. CASE entry.operatorId = StepOutcome
    <3>1. after = IF entry.ids[1] \in runIds /\ entry.outcome # "return-with-error" THEN faulted ELSE Refused
      BY <2>1, <2>2, <2>3 DEF ApplyBenchmarkOperator, StepOutcome, TimeAdvance, ReleaseOrder
    <3>2. QED
      BY <2>3, <3>1 DEF IsApplied
  <2>4. CASE entry.operatorId \in {TimeAdvance, ReleaseOrder}
    <3>1. after = scheduled
      BY <1>1, <2>1, <2>4 DEF ApplyBenchmarkOperator, StepOutcome, TimeAdvance, ReleaseOrder
    <3>2. QED
      BY <2>4, <3>1 DEF IsApplied, StepOutcome, TimeAdvance, ReleaseOrder
  <2>5. CASE entry.operatorId \notin {TimeAdvance, ReleaseOrder, StepOutcome}
    BY <2>1, <2>5 DEF ApplyBenchmarkOperator
  <2>6. QED
    BY <2>3, <2>4, <2>5
<1>4. QED
  BY <1>2, <1>3 DEF Variants

\* A fault changes the outcomes and, in the benchmark, ends the retries; nothing else.
LEMMA FaultedIsMade ==
  ASSUME NEW action, NEW original, Made(action, original), NEW v, NEW entry
  PROVE  /\ Made(Faulted(v, entry, action), original)
         /\ Faulted(v, entry, action).outcomes = <<entry.outcome>>
         /\ Faulted(v, entry, action).retry = IF v = "phase3" THEN action.retry ELSE 0
<1> DEFINE o == <<entry.outcome>>
           r == action.retry
           p == action.outcomes
           kept(outcomes, retry) ==
             [id |-> original.id, actionId |-> original.actionId, actor |-> original.actor,
              bind |-> original.bind, tx |-> original.tx, outcomes |-> outcomes,
              retry |-> retry, gate |-> original.gate, timeoutMs |-> original.timeoutMs]
<1>1. action = kept(p, r)
  BY DEF Made
<1>2. [action EXCEPT !.outcomes = o] = kept(o, r)
  <2> HIDE DEF o, r, p
  <2> QED BY <1>1
<1>3. [action EXCEPT !.outcomes = o, !.retry = 0] = kept(o, 0)
  <2> HIDE DEF o, r, p
  <2>1. [kept(o, r) EXCEPT !.retry = 0] = kept(o, 0)
    OBVIOUS
  <2> HIDE DEF kept
  <2>2. [action EXCEPT !.outcomes = o, !.retry = 0] = [kept(o, r) EXCEPT !.retry = 0]
    BY <1>2
  <2> QED BY <2>1, <2>2
<1>4. Faulted(v, entry, action) = IF v = "phase3" THEN kept(o, r) ELSE kept(o, 0)
  <2> HIDE DEF kept
  <2> QED BY <1>2, <1>3 DEF Faulted
<1>5. /\ Made(kept(o, r), original) /\ kept(o, r).outcomes = o /\ kept(o, r).retry = r
      /\ Made(kept(o, 0), original) /\ kept(o, 0).outcomes = o /\ kept(o, 0).retry = 0
  <2> HIDE DEF o, r, p
  <2> QED BY DEF Made
<1>6. QED
  <2> HIDE DEF kept
  <2> QED BY <1>4, <1>5

\* What an operator leaves is a state again.
LEMMA AppliedIsAState ==
  ASSUME NEW base, Len(base) \in Nat, NEW st, IsState(st, base),
         NEW v, NEW entry, NEW after, IsApplied(v, entry, st, after)
  PROVE  IsState(after, base)
<1> DEFINE a == st.actions
<1>1. /\ a = [i \in Positions(base) |-> a[i]]
      /\ \A i \in Positions(base) : Made(a[i], base[i])
      /\ History(st.controls)
      /\ DOMAIN a = Positions(base)
      /\ Runs([actions |-> a]) \subseteq Positions(base)
  BY StateFacts DEF IsState, Runs
<1>2. CASE entry.operatorId = StepOutcome
  <2> DEFINE j == entry.ids[1]
             b == [a EXCEPT ![j] = Faulted(v, entry, a[j])]
  <2>1. j \in Positions(base) /\ after = [actions |-> b, controls |-> st.controls]
    BY <1>1, <1>2 DEF IsApplied
  <2>2. Made(Faulted(v, entry, a[j]), base[j])
    <3>1. Made(a[j], base[j])
      BY <1>1, <2>1
    <3> HIDE DEF j, a
    <3> QED BY <3>1, FaultedIsMade
  <2>3. \A i \in Positions(base) : b[i] = IF i = j THEN Faulted(v, entry, a[j]) ELSE a[i]
    <3> HIDE DEF j, a
    <3> QED BY <1>1
  <2>4. b = [i \in Positions(base) |-> b[i]]
    <3> HIDE DEF j, a
    <3> QED BY <1>1
  <2>5. \A i \in Positions(base) : Made(b[i], base[i])
    <3> HIDE DEF j, a, b
    <3> QED BY <1>1, <2>2, <2>3
  <2>6. QED
    <3> HIDE DEF j, a, b
    <3> QED BY <1>1, <2>1, <2>4, <2>5 DEF IsState
<1>3. CASE entry.operatorId # StepOutcome
  <2>1. after = [actions |-> a, controls |-> Append(st.controls, Control(entry))]
    BY <1>3 DEF IsApplied
  <2>2. History(Append(st.controls, Control(entry)))
    BY <1>1, HistoryGrows
  <2>3. QED
    <3> HIDE DEF a
    <3> QED BY <1>1, <2>1, <2>2 DEF IsState
<1>4. QED
  BY <1>2, <1>3

-----------------------------------------------------------------------------
(***************************************************************************)
(* How a spec is built.                                                    *)
(***************************************************************************)

\* A request is a sequence of entries, whose advances and faults name one action.
IsRequest(r) ==
  /\ Len(r) \in Nat
  /\ \A k \in Positions(r) :
       /\ Len(r[k].ids) \in Nat
       /\ r[k].ids = [n \in Positions(r[k].ids) |-> r[k].ids[n]]
       /\ r[k].operatorId \in {TimeAdvance, StepOutcome} => Len(r[k].ids) = 1

\* What the schemas say of a request.
LEMMA RequestsAreRequests ==
  ASSUME NEW v \in Variants, NEW r \in Requests[v]
  PROVE  IsRequest(r)
<1> DEFINE S == Seq(Nat)
           R == [operatorId : STRING, ids : S, advanceMs : Nat, outcome : STRING]
           E == {entry \in R : entry.operatorId \in {TimeAdvance, StepOutcome} => Len(entry.ids) = 1}
<1>1. r \in Seq(E)
  BY RequestsAssumption
<1>2. Len(r) \in Nat /\ r \in [1..Len(r) -> E]
  <2> HIDE DEF E
  <2> QED BY <1>1, LenProperties
<1>3. ASSUME NEW k \in Positions(r)
      PROVE  /\ Len(r[k].ids) \in Nat
             /\ r[k].ids = [n \in Positions(r[k].ids) |-> r[k].ids[n]]
             /\ r[k].operatorId \in {TimeAdvance, StepOutcome} => Len(r[k].ids) = 1
  <2> DEFINE e == r[k]
  <2>1. e \in E
    <3> HIDE DEF E
    <3> QED BY <1>2 DEF Positions
  <2>2. e \in R /\ (e.operatorId \in {TimeAdvance, StepOutcome} => Len(e.ids) = 1)
    <3> HIDE DEF e, R
    <3> QED BY <2>1
  <2>3. e.ids \in S
    <3> HIDE DEF e, S
    <3> QED BY <2>2
  <2>4. Len(e.ids) \in Nat /\ e.ids = [n \in Positions(e.ids) |-> e.ids[n]]
    <3> HIDE DEF e
    <3>1. Len(e.ids) \in Nat /\ e.ids \in [1..Len(e.ids) -> Nat]
      BY <2>3, LenProperties
    <3>2. QED
      BY <3>1 DEF Positions
  <2>5. QED
    BY <2>2, <2>4
<1>4. QED
  BY <1>2, <1>3 DEF IsRequest

\* The requests that are selected are requests as well, of one entry.
LEMMA SelectedAreRequests ==
  ASSUME NEW s, NEW entry \in SelectedRequests(s)
  PROVE  IsRequest(<<entry>>) /\ Len(<<entry>>) = 1 /\ <<entry>>[1] = entry
<1>1. \/ \E x : entry.ids = <<x>>
      \/ entry.operatorId = ReleaseOrder /\ \E x, y : entry.ids = <<x, y>>
  <2>1. CASE entry \in TimeoutRequests(s)
    <3>1. \E x, ms : entry = [operatorId |-> TimeAdvance, ids |-> <<x>>,
                              advanceMs |-> ms, outcome |-> "none"]
      BY <2>1 DEF TimeoutRequests
    <3>2. QED
      BY <3>1
  <2>2. CASE entry \in OrderRequests(s)
    <3>1. \E x, y : entry = [operatorId |-> ReleaseOrder, ids |-> <<x, y>>,
                             advanceMs |-> 0, outcome |-> "none"]
      BY <2>2 DEF OrderRequests
    <3>2. QED
      BY <3>1
  <2>3. CASE entry \in FaultRequests(s)
    <3>1. \E x, o : entry = [operatorId |-> StepOutcome, ids |-> <<x>>,
                             advanceMs |-> 0, outcome |-> o]
      BY <2>3 DEF FaultRequests
    <3>2. QED
      BY <3>1
  <2>4. QED
    BY <2>1, <2>2, <2>3 DEF SelectedRequests
<1>2. /\ Len(entry.ids) \in Nat
      /\ entry.ids = [n \in Positions(entry.ids) |-> entry.ids[n]]
      /\ entry.operatorId \in {TimeAdvance, StepOutcome} => Len(entry.ids) = 1
  <2>1. CASE \E x : entry.ids = <<x>>
    BY <2>1 DEF Positions
  <2>2. CASE entry.operatorId = ReleaseOrder /\ \E x, y : entry.ids = <<x, y>>
    BY <2>2 DEF Positions, TimeAdvance, StepOutcome, ReleaseOrder
  <2>3. QED
    BY <1>1, <2>1, <2>2
<1>3. QED
  BY <1>2 DEF IsRequest, Positions

\* The state after the first entries of the request.
StateAfter(k) == IF k = 0 THEN InitialState(Base) ELSE records[k].after

\* What is known of the inputs, and of the records while they are made.
InputsInv ==
  /\ variant \in Variants
  /\ seed \in Seeds[variant]
  /\ artifact \in Artifacts
  /\ IsRequest(request)
  /\ selected \in BOOLEAN
  /\ selected => /\ variant = "benchmark"
                 /\ SeedValid(variant, seed)
                 /\ \E entry \in SelectedRequests(seed) : request = <<entry>>

\* One record, and the states it links.
IsRecorded(k) ==
  /\ records[k] = RecordOf(request[k], StateAfter(k - 1), StateAfter(k))
  /\ StateAfter(k) = Apply(variant, request[k], StateAfter(k - 1))
  /\ StateAfter(k) # Refused

RecordsInv ==
  /\ History(records)
  /\ Len(records) <= Len(request)
  /\ records # <<>> => SeedValid(variant, seed) /\ Len(request) <= TransformationLimit
  /\ \A k \in 1..Len(records) : IsRecorded(k)
  /\ \A k \in 0..Len(records) : IsState(StateAfter(k), Base)
  /\ state = StateAfter(Len(records))

BuildInv == InputsInv /\ RecordsInv

\* Nothing is recorded at first, and the state is that of the base actions.
LEMMA InitBuild == TransformationInit => BuildInv
<1> SUFFICES ASSUME TransformationInit PROVE BuildInv
  OBVIOUS
<1> USE DEF TransformationInit
<1>1. IsRequest(request)
  BY RequestsAreRequests, SelectedAreRequests
<1>2. InputsInv
  BY <1>1 DEF InputsInv
<1>3. Len(request) \in Nat /\ Len(records) = 0 /\ History(records)
  BY <1>1, SeqDef DEF IsRequest, History
<1>4. IsState(InitialState(Base), Base)
  BY BaseIsAState DEF Base
<1>5. RecordsInv
  BY <1>3, <1>4 DEF RecordsInv, StateAfter, Base
<1>6. QED
  BY <1>2, <1>5 DEF BuildInv

\* One more entry is applied and recorded.
LEMMA OneMoreRecord ==
  ASSUME BuildInv, NEW entry, NEW after, Len(records) < Len(request),
         entry = request[Len(records) + 1], after = Apply(variant, entry, state),
         SeedValid(variant, seed), Len(request) <= TransformationLimit, after # Refused,
         records' = Append(records, RecordOf(entry, state, after)), state' = after,
         UNCHANGED <<variant, seed, request, artifact, selected>>
  PROVE  BuildInv'
<1> SUFFICES ASSUME NEW n, n = Len(records) PROVE BuildInv'
  OBVIOUS
<1>1. InputsInv'
  BY DEF BuildInv, InputsInv
<1>2. /\ History(records')
      /\ n \in Nat
      /\ Len(records') = n + 1
      /\ \A k \in 1..n : records'[k] = records[k]
      /\ records'[n + 1] = RecordOf(entry, state, after)
  BY HistoryGrows DEF BuildInv, RecordsInv
<1>3. /\ \A k \in 0..n : StateAfter(k)' = StateAfter(k)
      /\ StateAfter(n + 1)' = after
      /\ StateAfter(n)' = state
      /\ StateAfter((n + 1) - 1)' = state
  <2>1. Base' = Base
    BY DEF Base
  <2>2. \A k \in 0..n : StateAfter(k)' = StateAfter(k)
    BY <1>2, <2>1 DEF StateAfter
  <2>3. StateAfter(n + 1)' = after
    BY <1>2 DEF StateAfter, RecordOf
  <2>4. StateAfter(n)' = state
    BY <1>2, <2>2 DEF BuildInv, RecordsInv
  <2>5. QED
    BY <1>2, <2>2, <2>3, <2>4
<1>4. \A k \in 1..n : IsRecorded(k)'
  <2> SUFFICES ASSUME NEW k \in 1..n PROVE IsRecorded(k)'
    OBVIOUS
  <2>1. k \in 0..n /\ k - 1 \in 0..n
    BY <1>2
  <2>2. IsRecorded(k)
    BY DEF BuildInv, RecordsInv
  <2>3. QED
    BY <1>2, <1>3, <2>1, <2>2 DEF IsRecorded
<1>5. IsRecorded(n + 1)'
  BY <1>2, <1>3 DEF IsRecorded
<1>6. \A k \in 0..(n + 1) : IsState(StateAfter(k), Base)'
  <2>1. IsState(after, Base)
    <3>1. IsState(state, Base)
      BY <1>2 DEF BuildInv, RecordsInv
    <3>2. variant \in Variants /\ Len(Base) \in Nat
      BY BaseIsAState DEF BuildInv, InputsInv, Base
    <3>3. IsApplied(variant, entry, state, after)
      BY <3>1, <3>2, Applied DEF IsState
    <3>4. QED
      BY <3>1, <3>2, <3>3, AppliedIsAState
  <2>2. Base' = Base
    BY DEF Base
  <2>3. \A k \in 0..n : IsState(StateAfter(k), Base)
    BY DEF BuildInv, RecordsInv
  <2> SUFFICES ASSUME NEW k \in 0..(n + 1) PROVE IsState(StateAfter(k)', Base')
    OBVIOUS
  <2>4. CASE k \in 0..n
    BY <1>3, <2>2, <2>3, <2>4
  <2>5. CASE k = n + 1
    BY <1>3, <2>1, <2>2, <2>5
  <2>6. QED
    BY <1>2, <2>4, <2>5
<1>7. RecordsInv'
  <2>1. \A k \in 1..Len(records') : IsRecorded(k)'
    <3> SUFFICES ASSUME NEW k \in 1..Len(records') PROVE IsRecorded(k)'
      OBVIOUS
    <3>1. CASE k \in 1..n
      BY <1>4, <3>1
    <3>2. CASE k = n + 1
      BY <1>5, <3>2
    <3>3. QED
      BY <1>2, <3>1, <3>2
  <2>2. Len(records') <= Len(request')
    BY <1>2 DEF BuildInv, InputsInv, IsRequest
  <2>3. state' = StateAfter(Len(records))'
    BY <1>2, <1>3 DEF StateAfter
  <2>4. QED
    BY <1>2, <1>6, <2>1, <2>2, <2>3 DEF RecordsInv
<1>8. QED
  BY <1>1, <1>7 DEF BuildInv

\* Only ApplyEntry adds to the records, and it adds the link its operator makes.
LEMMA NextBuild == BuildInv /\ [TransformationNext]_transformationVars => BuildInv'
<1> SUFFICES ASSUME BuildInv, [TransformationNext]_transformationVars PROVE BuildInv'
  OBVIOUS
<1>1. ASSUME UNCHANGED <<variant, seed, request, artifact, selected, state, records>>
      PROVE  BuildInv'
  <2>1. Base' = Base
    BY <1>1 DEF Base
  <2>2. \A k : StateAfter(k)' = StateAfter(k)
    BY <1>1, <2>1 DEF StateAfter
  <2>3. \A k : IsRecorded(k)' <=> IsRecorded(k)
    BY <1>1, <2>2 DEF IsRecorded
  <2>4. QED
    BY <1>1, <2>1, <2>2, <2>3 DEF BuildInv, InputsInv, RecordsInv
<1>2. CASE ApplyEntry
  <2> DEFINE entry == request[Len(records) + 1]
             after == Apply(variant, entry, state)
  <2>1. CASE ~SeedValid(variant, seed) \/ Len(request) > TransformationLimit \/ after = Refused
    BY <1>1, <1>2, <2>1 DEF ApplyEntry, Refuse
  <2>2. CASE ~(~SeedValid(variant, seed) \/ Len(request) > TransformationLimit \/ after = Refused)
    <3>1. Len(request) <= TransformationLimit
      BY <2>2, LimitsAssumption DEF BuildInv, InputsInv, IsRequest
    <3>2. QED
      BY <1>2, <2>2, <3>1, OneMoreRecord DEF ApplyEntry
  <2>3. QED
    BY <2>1, <2>2
<1>3. CASE Finish
  BY <1>1, <1>3 DEF Finish, Refuse
<1>4. CASE Store
  BY <1>1, <1>4 DEF Store
<1>5. CASE Judge
  BY <1>1, <1>5 DEF Judge
<1>6. CASE UNCHANGED transformationVars
  BY <1>1, <1>6 DEF transformationVars
<1>7. QED
  BY <1>2, <1>3, <1>4, <1>5, <1>6 DEF TransformationNext

-----------------------------------------------------------------------------
(***************************************************************************)
(* What a plan executes.                                                   *)
(***************************************************************************)

\* A position more at the end gets the next number, and leaves the others theirs.
LEMMA OneMoreKept ==
  ASSUME NEW n \in Nat, NEW kept \in SUBSET (1..n)
  PROVE  /\ Cardinality(kept) \in Nat
         /\ Cardinality(kept \cup {n + 1}) = Cardinality(kept) + 1
         /\ \A i \in kept : /\ Renumbered(kept \cup {n + 1}, i) = Renumbered(kept, i)
                            /\ Renumbered(kept, i) \in 1..Cardinality(kept)
         /\ Renumbered(kept \cup {n + 1}, n + 1) = Cardinality(kept) + 1
<1> DEFINE more == kept \cup {n + 1}
<1>1. /\ IsFiniteSet(kept) /\ n + 1 \notin kept
      /\ Cardinality(kept) \in Nat
      /\ \A i \in kept : Renumbered(kept, i) \in 1..Cardinality(kept)
  <2>1. IsFiniteSet(1..n)
    BY FS_Interval
  <2>2. IsFiniteSet(kept)
    BY <2>1, FS_Subset
  <2>3. /\ Cardinality(kept) \in Nat
        /\ \A i \in kept : Renumbered(kept, i) \in 1..Cardinality(kept)
    BY NewNumbers
  <2>4. n + 1 \notin kept
    OBVIOUS
  <2>5. QED
    BY <2>2, <2>3, <2>4
<1>2. Cardinality(more) = Cardinality(kept) + 1
  BY <1>1, FS_AddElement
<1>3. ASSUME NEW i \in kept PROVE Renumbered(more, i) = Renumbered(kept, i)
  <2>1. i \in Nat /\ i <= n
    BY <1>3
  <2>2. {j \in more : j <= i} = {j \in kept : j <= i}
    BY <2>1
  <2>3. QED
    BY <2>2 DEF Renumbered
<1>4. Renumbered(more, n + 1) = Cardinality(kept) + 1
  <2>1. {j \in more : j <= n + 1} = more
    <3>1. \A j \in more : j \in Nat /\ j <= n + 1
      OBVIOUS
    <3>2. QED
      BY <3>1
  <2>2. QED
    BY <1>2, <2>1 DEF Renumbered
<1>5. QED
  BY <1>1, <1>2, <1>3, <1>4

\* The property, up to an entry of the request.
LastFaultUpTo(i, n) ==
  {k \in 1..n :
     /\ request[k].operatorId = StepOutcome /\ request[k].ids[1] = i
     /\ \A l \in (k + 1)..n : request[l].operatorId = StepOutcome => request[l].ids[1] # i}
ScheduledUpTo(n) == {k \in 1..n : request[k].operatorId # StepOutcome}

OutcomesAsked(st, n) ==
  \A i \in Positions(Base) :
    st.actions[i].outcomes = IF LastFaultUpTo(i, n) = {} THEN Base[i].outcomes
                             ELSE <<request[Max(LastFaultUpTo(i, n))].outcome>>

ControlsAsked(st, n) ==
  /\ Len(st.controls) = Cardinality(ScheduledUpTo(n))
  /\ \A k \in ScheduledUpTo(n) :
       st.controls[Renumbered(ScheduledUpTo(n), k)] = Control(request[k])

\* The next entry leaves to every action the outcome of the last fault that names it, ...
LEMMA OutcomesGoOn ==
  ASSUME NEW n \in Nat, NEW st, IsState(st, Base), OutcomesAsked(st, n), Len(Base) \in Nat,
         NEW v, NEW after, IsApplied(v, request[n + 1], st, after)
  PROVE  OutcomesAsked(after, n + 1)
<1> DEFINE e == request[n + 1]
<1>1. SUFFICES ASSUME NEW i \in Positions(Base)
      PROVE after.actions[i].outcomes =
              IF LastFaultUpTo(i, n + 1) = {} THEN Base[i].outcomes
              ELSE <<request[Max(LastFaultUpTo(i, n + 1))].outcome>>
  BY DEF OutcomesAsked
<1>2. st.actions[i].outcomes = IF LastFaultUpTo(i, n) = {} THEN Base[i].outcomes
                               ELSE <<request[Max(LastFaultUpTo(i, n))].outcome>>
  BY DEF OutcomesAsked
<1>3. CASE e.operatorId = StepOutcome /\ e.ids[1] = i
  <2>1. LastFaultUpTo(i, n + 1) = {n + 1}
    BY <1>3 DEF LastFaultUpTo
  <2>2. Max({n + 1}) = n + 1
    BY DEF Max
  <2>3. after.actions = [st.actions EXCEPT ![i] = Faulted(v, e, st.actions[i])]
    BY <1>3 DEF IsApplied
  <2>4. after.actions[i] = Faulted(v, e, st.actions[i])
    BY <2>3, StateFacts
  <2>5. Made(st.actions[i], Base[i])
    BY DEF IsState
  <2>6. after.actions[i].outcomes = <<e.outcome>>
    <3> HIDE DEF e
    <3> QED BY <2>4, <2>5, FaultedIsMade
  <2>7. QED
    BY <2>1, <2>2, <2>6
<1>4. CASE ~(e.operatorId = StepOutcome /\ e.ids[1] = i)
  <2>1. LastFaultUpTo(i, n + 1) = LastFaultUpTo(i, n)
    BY <1>4 DEF LastFaultUpTo
  <2>2. after.actions[i] = st.actions[i]
    <3>1. CASE e.operatorId = StepOutcome
      <4>1. after.actions = [st.actions EXCEPT ![e.ids[1]] = Faulted(v, e, st.actions[e.ids[1]])]
        BY <3>1 DEF IsApplied
      <4>2. i \in DOMAIN st.actions /\ i # e.ids[1]
        BY <1>4, <3>1, StateFacts
      <4>3. QED
        BY <4>1, <4>2
    <3>2. CASE e.operatorId # StepOutcome
      BY <3>2 DEF IsApplied
    <3>3. QED
      BY <3>1, <3>2
  <2>3. QED
    BY <1>2, <2>1, <2>2
<1>5. QED
  BY <1>3, <1>4

\* and puts its control, if it is no fault, after those of the entries before it.
LEMMA ControlsGoOn ==
  ASSUME NEW n \in Nat, NEW st, History(st.controls), ControlsAsked(st, n),
         NEW v, NEW after, IsApplied(v, request[n + 1], st, after)
  PROVE  ControlsAsked(after, n + 1)
<1> DEFINE e == request[n + 1]
           kept == ScheduledUpTo(n)
           more == ScheduledUpTo(n + 1)
<1>1. CASE e.operatorId = StepOutcome
  <2>1. more = kept
    BY <1>1 DEF ScheduledUpTo
  <2>2. after.controls = st.controls
    BY <1>1 DEF IsApplied
  <2>3. QED
    BY <2>1, <2>2 DEF ControlsAsked
<1>2. CASE e.operatorId # StepOutcome
  <2>1. more = kept \cup {n + 1} /\ kept \in SUBSET (1..n)
    BY <1>2 DEF ScheduledUpTo
  <2>2. /\ Cardinality(kept) \in Nat
        /\ Cardinality(more) = Cardinality(kept) + 1
        /\ \A i \in kept : /\ Renumbered(more, i) = Renumbered(kept, i)
                           /\ Renumbered(kept, i) \in 1..Cardinality(kept)
        /\ Renumbered(more, n + 1) = Cardinality(kept) + 1
    <3> HIDE DEF kept, more
    <3> QED BY <2>1, OneMoreKept
  <2>3. after.controls = Append(st.controls, Control(e))
    BY <1>2 DEF IsApplied
  <2>4. /\ Len(after.controls) = Len(st.controls) + 1
        /\ \A k \in 1..Len(st.controls) : after.controls[k] = st.controls[k]
        /\ after.controls[Len(st.controls) + 1] = Control(e)
    BY <2>3, HistoryGrows
  <2>5. /\ Len(st.controls) = Cardinality(kept)
        /\ \A k \in kept : st.controls[Renumbered(kept, k)] = Control(request[k])
    BY DEF ControlsAsked
  <2>6. \A k \in more : after.controls[Renumbered(more, k)] = Control(request[k])
    <3> SUFFICES ASSUME NEW k \in more PROVE after.controls[Renumbered(more, k)] = Control(request[k])
      OBVIOUS
    <3> HIDE DEF kept, more
    <3>1. CASE k \in kept
      BY <2>2, <2>4, <2>5, <3>1
    <3>2. CASE k = n + 1
      BY <2>2, <2>4, <2>5, <3>2
    <3>3. QED
      BY <2>1, <3>1, <3>2
  <2>7. QED
    BY <2>2, <2>4, <2>5, <2>6 DEF ControlsAsked
<1>3. QED
  BY <1>1, <1>2

\* The states between the operators, one after the other.
LEMMA StatesAsked ==
  ASSUME BuildInv
  PROVE  OutcomesAsked(state, Len(records)) /\ ControlsAsked(state, Len(records))
<1>1. Len(Base) \in Nat /\ Len(records) \in Nat /\ variant \in Variants
  BY BaseIsAState, HistoryGrows DEF BuildInv, InputsInv, RecordsInv, Base
<1> DEFINE T == {n \in Nat : /\ OutcomesAsked(StateAfter(n), n)
                             /\ ControlsAsked(StateAfter(n), n)}
<1>2. 0 \in T
  <2>1. \A i : LastFaultUpTo(i, 0) = {}
    BY DEF LastFaultUpTo
  <2>2. ScheduledUpTo(0) = {}
    BY DEF ScheduledUpTo
  <2>3. Cardinality({}) = 0
    BY FS_EmptySet
  <2>4. StateAfter(0) = [actions |-> Base, controls |-> <<>>]
    BY DEF StateAfter, InitialState
  <2>5. OutcomesAsked(StateAfter(0), 0)
    BY <2>1, <2>4 DEF OutcomesAsked
  <2>6. ControlsAsked(StateAfter(0), 0)
    <3>1. Len(StateAfter(0).controls) = 0
      BY <2>4
    <3>2. QED
      BY <2>2, <2>3, <3>1 DEF ControlsAsked
  <2>7. QED
    BY <2>5, <2>6
<1>3. ASSUME NEW n \in Nat, n \in T, n < Len(records)
      PROVE  n + 1 \in T
  <2>1. n + 1 \in 1..Len(records) /\ n \in 0..Len(records) /\ (n + 1) - 1 = n
    BY <1>1, <1>3
  <2>2. IsRecorded(n + 1) /\ IsState(StateAfter(n), Base)
    BY <2>1 DEF BuildInv, RecordsInv
  <2>3. IsApplied(variant, request[n + 1], StateAfter(n), StateAfter(n + 1))
    <3>1. /\ StateAfter(n + 1) = Apply(variant, request[n + 1], StateAfter(n))
          /\ StateAfter(n + 1) # Refused
      BY <2>1, <2>2 DEF IsRecorded
    <3>2. StateAfter(n) = [actions |-> StateAfter(n).actions, controls |-> StateAfter(n).controls]
      BY <2>2 DEF IsState
    <3>3. QED
      BY <1>1, <3>1, <3>2, Applied
  <2>4. OutcomesAsked(StateAfter(n), n) /\ ControlsAsked(StateAfter(n), n)
    BY <1>3
  <2>5. History(StateAfter(n).controls)
    BY <2>2 DEF IsState
  <2>6. OutcomesAsked(StateAfter(n + 1), n + 1)
    BY <1>1, <2>2, <2>3, <2>4, OutcomesGoOn
  <2>7. ControlsAsked(StateAfter(n + 1), n + 1)
    BY <2>3, <2>4, <2>5, ControlsGoOn
  <2>8. QED
    BY <2>6, <2>7
<1>4. Len(records) \in T
  <2> HIDE DEF T
  <2>1. 0..Len(records) \subseteq T
    BY <1>1, <1>2, <1>3, Induction
  <2>2. QED
    BY <1>1, <2>1
<1>5. state = StateAfter(Len(records))
  BY DEF BuildInv, RecordsInv
<1>6. QED
  BY <1>4, <1>5

\* What is built is what the records and the state say, and has been validated.
BuiltInv ==
  phase = "built" =>
    /\ Len(records) = Len(request)
    /\ spec = BuiltSpec
    /\ plan = PlanOf(spec, artifact)
    /\ ValidateSpec(variant, spec, artifact)

\* Finish validates the spec and the plan it stores.
LEMMA NextBuilt == BuiltInv /\ [TransformationNext]_transformationVars => BuiltInv'
<1> SUFFICES ASSUME BuiltInv, [TransformationNext]_transformationVars, phase' = "built"
             PROVE  /\ Len(records') = Len(request')
                    /\ spec' = BuiltSpec'
                    /\ plan' = PlanOf(spec, artifact)'
                    /\ ValidateSpec(variant, spec, artifact)'
  BY DEF BuiltInv
<1>1. CASE ApplyEntry
  BY <1>1 DEF ApplyEntry, Refuse
<1>2. CASE Finish
  <2> DEFINE sp == Spec0(seed, state.actions, records, state.controls, artifact)
  <2>1. /\ Len(records) = Len(request)
        /\ ValidateSpec(variant, sp, artifact)
        /\ spec' = sp
        /\ plan' = PlanOf(sp, artifact)
        /\ UNCHANGED <<variant, seed, request, artifact, state, records>>
    <3> HIDE DEF sp
    <3> QED BY <1>2 DEF Finish, Refuse, sp
  <2>2. BuiltSpec' = sp
    BY <2>1 DEF BuiltSpec
  <2>3. QED
    <3> HIDE DEF sp
    <3> QED BY <2>1, <2>2
<1>3. CASE Store
  BY <1>3 DEF Store
<1>4. CASE Judge
  BY <1>4 DEF Judge
<1>5. CASE UNCHANGED transformationVars
  BY <1>5 DEF transformationVars, BuiltInv, BuiltSpec
<1>6. QED
  BY <1>1, <1>2, <1>3, <1>4, <1>5 DEF TransformationNext

\* The fixture of a run carries what the run executes.
LEMMA RunsHaveTheirFixtures ==
  ASSUME NEW actions, Len(actions) \in Nat, NEW a, NEW i \in Runs([actions |-> actions])
  PROVE  \E f \in Positions(Fixtures(actions, a)) :
           Fixtures(actions, a)[f] = Fixture(actions[i], a)
<1> DEFINE runIds == Runs([actions |-> actions])
           kept == Keep(actions, runIds)
           count == Cardinality(runIds)
           f == Renumbered(runIds, i)
           fixtures == Fixtures(actions, a)
<1>1. runIds \in SUBSET (1..Len(actions))
  BY DEF Runs, Positions
<1>2. IsKept(kept, actions, runIds) /\ f \in 1..count /\ count \in Nat
  <2> HIDE DEF runIds
  <2>1. IsKept(kept, actions, runIds)
    BY <1>1, KeptInPlace
  <2>2. i \in runIds
    BY DEF runIds
  <2>3. f \in 1..count /\ count \in Nat
    BY <1>1, <2>2, NewNumbers
  <2> QED BY <2>1, <2>3
<1>3. kept[f] = actions[i]
  <2> HIDE DEF runIds, kept
  <2> QED BY <1>2 DEF IsKept, runIds
<1>4. fixtures = [n \in 1..count |-> Fixture(kept[n], a)]
  BY DEF Fixtures
<1>5. Positions(fixtures) = 1..count
  <2> HIDE DEF count, kept
  <2>1. fixtures \in [1..count -> {Fixture(kept[n], a) : n \in 1..count}]
    BY <1>4
  <2>2. Len(fixtures) = count
    <3> HIDE DEF fixtures
    <3> QED BY <1>2, <2>1, SeqDef, LenProperties
  <2>3. QED
    BY <2>2 DEF Positions
<1>6. fixtures[f] = Fixture(actions[i], a)
  <2> HIDE DEF kept, count, f
  <2> QED BY <1>2, <1>3, <1>4
<1>7. QED
  <2> HIDE DEF kept, count, f, fixtures
  <2> QED BY <1>2, <1>5, <1>6 DEF fixtures

\* The spec that was built holds the state after the last entry, and so does its plan.
LEMMA BuiltIsAsked == BuildInv /\ BuiltInv => PlanIsTheRequestedOne
<1> SUFFICES ASSUME BuildInv, BuiltInv, phase = "built" PROVE PlanIsTheRequestedOne
  BY DEF PlanIsTheRequestedOne
<1> DEFINE last == Len(request)
           transformed == state.actions
<1>1. /\ Len(records) = last
      /\ last \in Nat
      /\ spec = BuiltSpec
      /\ plan = PlanOf(spec, artifact)
      /\ variant \in Variants
      /\ seed \in Seeds[variant]
  BY DEF BuiltInv, BuildInv, InputsInv, IsRequest
<1>2. /\ IsState(state, Base)
      /\ Len(Base) \in Nat
      /\ Positions(Base) = Positions(seed.actions)
  <2>1. Len(records) \in 0..Len(records)
    BY <1>1
  <2>2. IsState(state, Base)
    BY <2>1 DEF BuildInv, RecordsInv
  <2>3. QED
    BY <1>1, <2>2, BaseIsAState DEF Base
<1>3. /\ Positions(transformed) = Positions(Base)
      /\ Len(transformed) = Len(Base)
      /\ Runs([actions |-> transformed]) = Runs([actions |-> Base])
  BY <1>2, StateFacts
<1>4. /\ plan.actions = [i \in Positions(transformed) |-> PlanAction(transformed[i])]
      /\ plan.controls = state.controls
      /\ plan.fixtures = Fixtures(transformed, artifact)
  BY <1>1 DEF BuiltSpec, Spec0, PlanOf
<1>5. \A i \in Positions(Base) : /\ plan.actions[i].arguments[2] = transformed[i].outcomes
                                 /\ plan.actions[i].arguments[3] = transformed[i].retry
  <2> HIDE DEF transformed
  <2> QED BY <1>3, <1>4 DEF PlanAction
<1>6. OutcomesAsked(state, last) /\ ControlsAsked(state, last)
  BY <1>1, StatesAsked
<1>7. /\ \A i : LastFaultUpTo(i, last) = LastFault(i)
      /\ ScheduledUpTo(last) = Scheduled
  BY DEF LastFaultUpTo, LastFault, ScheduledUpTo, Scheduled, Positions
<1>8. \A i \in Positions(Base) :
         plan.actions[i].arguments[2] =
           IF LastFault(i) = {} THEN Base[i].outcomes
           ELSE <<request[Max(LastFault(i))].outcome>>
  BY <1>5, <1>6, <1>7 DEF OutcomesAsked
<1>9. plan.controls = [n \in 1..Cardinality(Scheduled) |-> Control(Keep(request, Scheduled)[n])]
  <2> DEFINE c == state.controls
             count == Cardinality(Scheduled)
             kept == Keep(request, Scheduled)
  <2>1. /\ Len(c) = count
        /\ \A k \in Scheduled : c[Renumbered(Scheduled, k)] = Control(request[k])
    BY <1>6, <1>7 DEF ControlsAsked
  <2>2. c = [n \in 1..count |-> c[n]]
    <3>1. History(c)
      BY <1>2 DEF IsState
    <3>2. c \in [1..Len(c) -> {c[k] : k \in 1..Len(c)}]
      BY <3>1, LenProperties DEF History
    <3>3. QED
      BY <2>1, <3>2
  <2>3. IsKept(kept, request, Scheduled)
    <3>1. Scheduled \in SUBSET (1..last)
      BY DEF Scheduled, Positions
    <3>2. QED
      BY <1>1, <3>1, KeptInPlace
  <2>4. \A n \in 1..count : c[n] = Control(kept[n])
    <3> SUFFICES ASSUME NEW n \in 1..count PROVE c[n] = Control(kept[n])
      OBVIOUS
    <3>1. PICK k \in Scheduled : n = Renumbered(Scheduled, k) /\ kept[n] = request[k]
      <4> HIDE DEF kept
      <4> QED BY <2>3 DEF IsKept
    <3>2. QED
      BY <2>1, <3>1
  <2>5. QED
    <3> HIDE DEF kept, count
    <3> QED BY <1>4, <2>2, <2>4 DEF kept, count
<1>10. \A i \in Runs(seed) : \E f \in Positions(plan.fixtures) :
         /\ plan.fixtures[f].consumer = i
         /\ plan.fixtures[f].outcomes = plan.actions[i].arguments[2]
         /\ plan.fixtures[f].retry = plan.actions[i].arguments[3]
  <2> SUFFICES ASSUME NEW i \in Runs(seed)
               PROVE  \E f \in Positions(plan.fixtures) :
                        /\ plan.fixtures[f].consumer = i
                        /\ plan.fixtures[f].outcomes = plan.actions[i].arguments[2]
                        /\ plan.fixtures[f].retry = plan.actions[i].arguments[3]
    OBVIOUS
  <2>1. i \in Positions(Base) /\ Base[i].id = i /\ Base[i].actionId = seed.actions[i].actionId
    <3>1. i \in Positions(seed.actions)
      BY DEF Runs
    <3>2. Base[i] = [id |-> i, actionId |-> seed.actions[i].actionId,
                     actor |-> seed.actions[i].actor, bind |-> seed.actions[i].bind,
                     tx |-> seed.actions[i].tx, outcomes |-> seed.actions[i].outcomes,
                     retry |-> seed.actions[i].retry, gate |-> seed.actions[i].gate,
                     timeoutMs |-> seed.actions[i].timeoutMs]
      BY <1>1, <3>1, BaseIsAState DEF Base
    <3> QED BY <1>2, <3>1, <3>2
  <2>2. i \in Runs([actions |-> transformed])
    <3>1. seed.actions[i].actionId = "tx.run"
      BY DEF Runs
    <3>2. QED
      BY <1>3, <2>1, <3>1 DEF Runs
  <2>3. PICK f \in Positions(plan.fixtures) : plan.fixtures[f] = Fixture(transformed[i], artifact)
    <3> HIDE DEF transformed
    <3> QED BY <1>2, <1>3, <1>4, <2>2, RunsHaveTheirFixtures
  <2>4. transformed[i].id = i
    <3>1. Made(transformed[i], Base[i])
      BY <1>2, <2>1 DEF IsState
    <3>2. QED
      BY <2>1, <3>1 DEF Made
  <2>5. QED
    <3>1. /\ plan.fixtures[f].consumer = i
          /\ plan.fixtures[f].outcomes = transformed[i].outcomes
          /\ plan.fixtures[f].retry = transformed[i].retry
      BY <2>3, <2>4 DEF Fixture
    <3>2. QED
      BY <1>5, <2>1, <3>1
<1>11. QED
  BY <1>8, <1>9, <1>10 DEF PlanIsTheRequestedOne

\* A plan executes what was asked for: for every run the outcome of the last fault that
\* names it, the controls in the order of the request, and fixtures that carry what the runs
\* execute (applyOperatorRecord and applyBenchmarkOperator, whatever their order).
THEOREM PlansAreAsked == TransformationSpec => []PlanIsTheRequestedOne
<1>1. TransformationInit => BuildInv /\ BuiltInv
  BY InitBuild DEF TransformationInit, BuiltInv
<1>2. (BuildInv /\ BuiltInv) /\ [TransformationNext]_transformationVars => (BuildInv /\ BuiltInv)'
  BY NextBuild, NextBuilt
<1>3. QED
  BY <1>1, <1>2, BuiltIsAsked, PTL DEF TransformationSpec

-----------------------------------------------------------------------------
(***************************************************************************)
(* What the validators accept.                                             *)
(***************************************************************************)

\* The states of a replay, as the recursive function is defined.
IsStates(f, v, base, transformations, last) ==
  f = [k \in 0..last |->
         IF k = 0 THEN InitialState(base) ELSE Apply(v, transformations[k], f[k - 1])]

\* The recursive function exists.
LEMMA StatesAreDefined ==
  ASSUME NEW v, NEW base, NEW transformations, Len(transformations) \in Nat
  PROVE  IsStates(StatesOf(v, base, transformations), v, base, transformations, Len(transformations))
<1> DEFINE N == Len(transformations)
           T == {m \in Nat : \E f : IsStates(f, v, base, transformations, m)}
<1>1. 0 \in T
  <2> DEFINE f == [k \in 0..0 |-> InitialState(base)]
  <2>1. IsStates(f, v, base, transformations, 0)
    BY DEF IsStates
  <2>2. QED
    BY <2>1
<1>2. ASSUME NEW m \in Nat, m \in T
      PROVE  m + 1 \in T
  <2>1. PICK f : IsStates(f, v, base, transformations, m)
    BY <1>2
  <2> DEFINE step == Apply(v, transformations[m + 1], f[m])
             g == [k \in 0..(m + 1) |-> IF k <= m THEN f[k] ELSE step]
  <2>2. \A n \in 0..m : g[n] = f[n]
    OBVIOUS
  <2>3. g[m + 1] = step
    OBVIOUS
  <2>4. ASSUME NEW n \in 0..(m + 1)
        PROVE  g[n] = IF n = 0 THEN InitialState(base) ELSE Apply(v, transformations[n], g[n - 1])
    <3>1. CASE n = 0
      BY <2>1, <2>2, <3>1 DEF IsStates
    <3>2. CASE n # 0 /\ n <= m
      <4>1. n - 1 \in 0..m /\ n \in 0..m
        BY <3>2
      <4>2. g[n] = f[n] /\ g[n - 1] = f[n - 1]
        BY <2>2, <4>1
      <4>3. f[n] = Apply(v, transformations[n], f[n - 1])
        BY <2>1, <3>2, <4>1 DEF IsStates
      <4>4. QED
        BY <3>2, <4>2, <4>3
    <3>3. CASE n = m + 1
      <4>1. n - 1 = m /\ n # 0
        BY <3>3
      <4>2. g[n - 1] = f[m]
        BY <2>2, <4>1
      <4>3. QED
        BY <2>3, <3>3, <4>1, <4>2
    <3>4. QED
      BY <3>1, <3>2, <3>3
  <2>5. IsStates(g, v, base, transformations, m + 1)
    <3> HIDE DEF step
    <3> DEFINE h == [k \in 0..(m + 1) |-> IF k = 0 THEN InitialState(base)
                                         ELSE Apply(v, transformations[k], g[k - 1])]
    <3>1. \A n \in 0..(m + 1) : g[n] = h[n]
      BY <2>4
    <3>2. g = h
      BY <3>1
    <3>3. QED
      BY <3>2 DEF IsStates
  <2>6. QED
    BY <2>5
<1>3. N \in T
  <2>1. \A n \in Nat : n \in T /\ n < N => n + 1 \in T
    BY <1>2
  <2>2. 0..N \subseteq T
    <3> HIDE DEF T
    <3>1. QED
      BY <1>1, <2>1, Induction
  <2>3. QED
    BY <2>2
<1>4. \E f : IsStates(f, v, base, transformations, N)
  BY <1>3
<1> DEFINE states == CHOOSE f : IsStates(f, v, base, transformations, N)
<1>5. IsStates(states, v, base, transformations, N)
  BY <1>4
<1>6. StatesOf(v, base, transformations) = states
  BY DEF StatesOf, IsStates
<1>7. QED
  BY <1>5, <1>6

\* The records of a spec link its base actions to what it executes, each step being the
\* operator it records.
IsLinked(v, base, transformations, final) ==
  /\ Len(transformations) \in Nat
  /\ Len(transformations) = 0 => final = InitialState(base)
  /\ Len(transformations) > 0 =>
       /\ transformations[1].before = InitialState(base)
       /\ transformations[Len(transformations)].after = final
  /\ \A k \in 1..Len(transformations) :
       /\ transformations[k].registration = transformations[k].operatorId
       /\ transformations[k].after = Apply(v, transformations[k], transformations[k].before)
       /\ transformations[k].after # Refused
  /\ \A k \in 2..Len(transformations) : transformations[k].before = transformations[k - 1].after

FinalOf(sp) == [actions |-> sp.transformed, controls |-> sp.controls]

\* The replay of a spec the validator accepts establishes the links.
LEMMA ValidIsLinked ==
  ASSUME NEW v, NEW sp, History(sp.transformations), TransformationsValid(v, sp)
  PROVE  IsLinked(v, sp.base, sp.transformations, FinalOf(sp))
<1> DEFINE ts == sp.transformations
           n == Len(ts)
           after == StatesOf(v, sp.base, ts)
<1>1. n \in Nat /\ (n = 0 <=> ts = <<>>)
  BY LenProperties, EmptySeq DEF History
<1>2. CASE ts = <<>>
  <2>1. sp.transformed = sp.base /\ sp.controls = <<>>
    BY <1>2 DEF TransformationsValid
  <2>2. FinalOf(sp) = InitialState(sp.base) /\ n = 0
    BY <1>1, <1>2, <2>1 DEF FinalOf, InitialState
  <2>3. QED
    <3> HIDE DEF ts, n
    <3>1. IsLinked(v, sp.base, ts, FinalOf(sp))
      BY <2>2 DEF IsLinked, n
    <3> QED BY <3>1 DEF ts
<1>3. CASE ts # <<>>
  <2>1. /\ \A k \in 1..n :
             /\ ts[k].registration = ts[k].operatorId
             /\ ts[k].before = after[k - 1]
             /\ after[k] # Refused
             /\ ts[k].after = after[k]
        /\ after[n] = FinalOf(sp)
    <3>1. ReplaysAsRecorded(v, sp)
      BY <1>3 DEF TransformationsValid
    <3> HIDE DEF after
    <3> QED BY <3>1 DEF ReplaysAsRecorded, Positions, FinalOf, after
  <2>2. IsStates(after, v, sp.base, ts, n)
    BY <1>1, StatesAreDefined
  <2>3. /\ after[0] = InitialState(sp.base)
        /\ \A k \in 1..n : after[k] = Apply(v, ts[k], after[k - 1])
    <3> HIDE DEF after, ts, n
    <3>1. after = [k \in 0..n |-> IF k = 0 THEN InitialState(sp.base) ELSE Apply(v, ts[k], after[k - 1])]
      BY <2>2 DEF IsStates
    <3>2. after[0] = InitialState(sp.base)
      BY <1>1, <3>1
    <3>3. ASSUME NEW k \in 1..n PROVE after[k] = Apply(v, ts[k], after[k - 1])
      <4>1. k \in 0..n /\ k # 0
        BY <1>1
      <4> QED BY <3>1, <4>1
    <3> QED BY <3>2, <3>3
  <2>4. n > 0
    BY <1>1, <1>3
  <2>5. IsLinked(v, sp.base, ts, FinalOf(sp))
    <3> HIDE DEF after, ts, n
    <3>1. /\ ts[1].before = InitialState(sp.base)
          /\ ts[n].after = FinalOf(sp)
      BY <1>1, <2>1, <2>3, <2>4
    <3>2. \A k \in 1..n : /\ ts[k].registration = ts[k].operatorId
                          /\ ts[k].after = Apply(v, ts[k], ts[k].before)
                          /\ ts[k].after # Refused
      BY <2>1, <2>3
    <3>3. ASSUME NEW k \in 2..n PROVE ts[k].before = ts[k - 1].after
      <4>1. k \in 1..n /\ k - 1 \in 1..n
        BY <1>1
      <4> QED BY <2>1, <4>1
    <3> QED BY <1>1, <2>4, <3>1, <3>2, <3>3 DEF IsLinked, n
  <2>6. QED
    BY <2>5
<1>4. QED
  BY <1>2, <1>3


\* The links leave no room for other base actions, or another final state.
LEMMA LinkedEnds ==
  ASSUME NEW v, NEW transformations, NEW base, NEW final, NEW base2, NEW final2,
         IsLinked(v, base, transformations, final), IsLinked(v, base2, transformations, final2)
  PROVE  base = base2 <=> final = final2
<1>1. \A x, y : InitialState(x) = InitialState(y) => x = y
  BY DEF InitialState
<1>2. CASE Len(transformations) = 0
  BY <1>1, <1>2 DEF IsLinked
<1>3. CASE Len(transformations) > 0
  BY <1>1, <1>3 DEF IsLinked
<1>4. QED
  BY <1>2, <1>3 DEF IsLinked

\* Two applications of an operator with the same effect have the same arguments, if they
\* have an effect at all.
LEMMA SameEffect ==
  ASSUME NEW base, Len(base) \in Nat, NEW st, IsState(st, base), NEW v, NEW e, NEW f, NEW after,
         e.operatorId = f.operatorId,
         IsApplied(v, e, st, after), IsApplied(v, f, st, after)
  PROVE  /\ e.operatorId \in {TimeAdvance, ReleaseOrder, StepOutcome}
         /\ e.operatorId # StepOutcome => e.ids = f.ids /\ e.advanceMs = f.advanceMs
         /\ e.operatorId = StepOutcome =>
              \/ st = after
              \/ e.ids[1] = f.ids[1]
         /\ e.operatorId = StepOutcome /\ e.ids[1] = f.ids[1] => e.outcome = f.outcome
<1>1. CASE e.operatorId # StepOutcome
  <2>1. Append(st.controls, Control(e)) = Append(st.controls, Control(f))
    BY <1>1 DEF IsApplied
  <2>2. History(st.controls)
    BY DEF IsState
  <2>3. Control(e) = Control(f)
    BY <2>1, <2>2, HistoryGrows
  <2>4. e.ids = f.ids /\ e.advanceMs = f.advanceMs
    BY <2>3 DEF Control
  <2>5. QED
    BY <1>1, <2>4 DEF IsApplied
<1>2. CASE e.operatorId = StepOutcome
  <2> DEFINE a == st.actions
             i == e.ids[1]
             j == f.ids[1]
  <2>1. /\ i \in DOMAIN a /\ j \in DOMAIN a
        /\ after.actions = [a EXCEPT ![i] = Faulted(v, e, a[i])]
        /\ after.actions = [a EXCEPT ![j] = Faulted(v, f, a[j])]
        /\ after.controls = st.controls
        /\ after = [actions |-> after.actions, controls |-> after.controls]
        /\ st = [actions |-> a, controls |-> st.controls]
        /\ a = [k \in DOMAIN a |-> a[k]]
    <3>1. Runs([actions |-> a]) \subseteq DOMAIN a
      <4>1. Positions(a) = DOMAIN a
        BY StateFacts
      <4> QED BY <4>1 DEF Runs
    <3>2. i \in DOMAIN a /\ j \in DOMAIN a
      BY <1>2, <3>1 DEF IsApplied
    <3>3. /\ after.actions = [a EXCEPT ![i] = Faulted(v, e, a[i])]
          /\ after.actions = [a EXCEPT ![j] = Faulted(v, f, a[j])]
          /\ after.controls = st.controls
          /\ after = [actions |-> after.actions, controls |-> after.controls]
      BY <1>2 DEF IsApplied
    <3>4. st = [actions |-> a, controls |-> st.controls] /\ a = [k \in DOMAIN a |-> a[k]]
      BY StateFacts DEF IsState
    <3> QED BY <3>2, <3>3, <3>4
  <2> HIDE DEF a, i, j
  <2>2. CASE i = j
    <3>1. Faulted(v, e, a[i]) = Faulted(v, f, a[i])
      BY <2>1, <2>2
    <3>2. Made(a[i], base[i])
      <4>1. i \in Positions(base)
        BY <2>1, StateFacts DEF a
      <4> QED BY <4>1 DEF IsState, a
    <3>3. <<e.outcome>> = <<f.outcome>>
      <4> DEFINE x == a[i]
                 y == base[i]
      <4>1. Made(x, y) /\ Faulted(v, e, x) = Faulted(v, f, x)
        BY <3>1, <3>2
      <4> HIDE DEF x, y
      <4>2. Faulted(v, e, x).outcomes = <<e.outcome>>
        BY <4>1, FaultedIsMade
      <4>3. Faulted(v, f, x).outcomes = <<f.outcome>>
        BY <4>1, FaultedIsMade
      <4> QED BY <4>1, <4>2, <4>3
    <3>4. e.outcome = f.outcome
      BY <3>3
    <3> QED BY <1>2, <2>2, <3>4 DEF i, j
  <2>3. CASE i # j
    <3>1. after.actions[i] = a[i] /\ after.actions[j] = a[j]
      BY <2>1, <2>3
    <3>2. after.actions[i] = Faulted(v, e, a[i])
      BY <2>1
    <3>3. after.actions = a
      BY <2>1, <3>1, <3>2
    <3>4. st = after
      BY <2>1, <3>3
    <3> QED BY <1>2, <2>3, <3>4 DEF i, j
  <2>4. QED
    BY <2>2, <2>3
<1>3. QED
  BY <1>1, <1>2

\* A record that was edited and still fits is the one that was recorded, or changes nothing.
LEMMA EditedRecord ==
  ASSUME NEW base, Len(base) \in Nat, NEW before, IsState(before, base), NEW v \in Variants,
         NEW entry, NEW after,
         Len(entry.ids) \in Nat, entry.ids = [n \in Positions(entry.ids) |-> entry.ids[n]],
         entry.operatorId \in {TimeAdvance, StepOutcome} => Len(entry.ids) = 1,
         NEW record, record = RecordOf(entry, before, after),
         after = Apply(v, record, before), after # Refused,
         NEW edited \in RecordEdits(record),
         edited.registration = edited.operatorId, edited.before = before, edited.after = after,
         edited.after = Apply(v, edited, before)
  PROVE  edited = record \/ before = after
<1> DEFINE o == entry.operatorId
           ids == entry.ids
           ms == entry.advanceMs
           oc == entry.outcome
           Rec(operatorId, registration, i, m, c, b, a) ==
             [operatorId |-> operatorId, registration |-> registration, ids |-> i,
              advanceMs |-> m, outcome |-> c, before |-> b, after |-> a]
<1>1. record = Rec(o, o, ids, ms, oc, before, after)
  BY DEF RecordOf
<1>2. IsApplied(v, record, before, after) /\ IsApplied(v, edited, before, after)
  BY Applied DEF IsState
<1>3. edited.operatorId = o =>
        /\ o \in {TimeAdvance, ReleaseOrder, StepOutcome}
        /\ o # StepOutcome => ids = edited.ids /\ ms = edited.advanceMs
        /\ o = StepOutcome => before = after \/ ids[1] = edited.ids[1]
        /\ o = StepOutcome /\ ids[1] = edited.ids[1] => oc = edited.outcome
  <2>1. record.operatorId = o /\ record.ids = ids /\ record.advanceMs = ms /\ record.outcome = oc
    BY <1>1
  <2> HIDE DEF o, ids, ms, oc
  <2> QED BY <1>2, <2>1, SameEffect
<1> DEFINE backwards == [k \in Positions(ids) |-> ids[Len(ids) + 1 - k]]
           first == [ids EXCEPT ![1] = 1]
<1>4. \/ \E x : edited = Rec(x, o, ids, ms, oc, before, after)
      \/ edited = Rec(o, "unregistered", ids, ms, oc, before, after)
      \/ edited = Rec(o, o, backwards, ms, oc, before, after)
      \/ edited = Rec(o, o, first, ms, oc, before, after)
      \/ \E x : edited = Rec(o, o, ids, x, oc, before, after) /\ (o # TimeAdvance => x = ms)
      \/ \E x : edited = Rec(o, o, ids, ms, x, before, after) /\ (o # StepOutcome => x = oc)
      \/ edited = Rec(o, o, ids, ms, oc, after, after)
      \/ edited = Rec(o, o, ids, ms, oc, before, before)
  <2> HIDE DEF o, ids, ms, oc
  <2>1. record.operatorId = o
    BY <1>1
  <2> QED BY <1>1, <2>1 DEF RecordEdits
<1> HIDE DEF o
<1>5. CASE \E x : edited = Rec(x, o, ids, ms, oc, before, after)
  BY <1>1, <1>5
<1>6. CASE edited = Rec(o, "unregistered", ids, ms, oc, before, after)
  BY <1>3, <1>6 DEF TimeAdvance, ReleaseOrder, StepOutcome
<1>7. CASE edited = Rec(o, o, backwards, ms, oc, before, after)
  <2>1. edited.operatorId = o /\ edited.ids = backwards
    BY <1>7
  <2>2. CASE o = ReleaseOrder
    <3>1. ids = backwards
      BY <1>3, <2>1, <2>2 DEF ReleaseOrder, StepOutcome
    <3> QED BY <1>1, <1>7, <3>1
  <2>3. CASE o \in {TimeAdvance, StepOutcome}
    <3>1. Len(ids) = 1
      BY <2>3 DEF o
    <3>2. Positions(ids) = {1} /\ ids = [n \in {1} |-> ids[n]]
      BY <3>1 DEF Positions
    <3>3. backwards = [n \in {1} |-> ids[n]]
      <4> HIDE DEF ids
      <4> QED BY <3>1, <3>2
    <3> QED BY <1>1, <1>7, <3>2, <3>3
  <2>4. QED
    BY <1>3, <2>1, <2>2, <2>3
<1>8. CASE edited = Rec(o, o, first, ms, oc, before, after)
  <2>1. edited.operatorId = o /\ edited.ids = first
    BY <1>8
  <2>2. CASE o # StepOutcome
    <3>1. ids = first
      BY <1>3, <2>1, <2>2
    <3> QED BY <1>1, <1>8, <3>1
  <2>3. CASE o = StepOutcome
    <3>1. Len(ids) = 1
      BY <2>3 DEF o
    <3>2. Positions(ids) = {1} /\ ids = [n \in {1} |-> ids[n]]
      BY <3>1 DEF Positions
    <3>3. first[1] = 1
      BY <3>2
    <3>4. ids[1] = 1 => first = ids
      <4> HIDE DEF ids
      <4> QED BY <3>2
    <3> QED BY <1>1, <1>3, <1>8, <2>1, <2>3, <3>3, <3>4
  <2>4. QED
    BY <2>2, <2>3
<1>9. CASE \E x : edited = Rec(o, o, ids, x, oc, before, after) /\ (o # TimeAdvance => x = ms)
  <2>1. PICK x : edited = Rec(o, o, ids, x, oc, before, after) /\ (o # TimeAdvance => x = ms)
    BY <1>9
  <2>2. edited.operatorId = o /\ edited.advanceMs = x
    BY <2>1
  <2>3. x = ms
    BY <1>3, <2>1, <2>2 DEF TimeAdvance, StepOutcome
  <2> QED BY <1>1, <2>1, <2>3
<1>10. CASE \E x : edited = Rec(o, o, ids, ms, x, before, after) /\ (o # StepOutcome => x = oc)
  <2>1. PICK x : edited = Rec(o, o, ids, ms, x, before, after) /\ (o # StepOutcome => x = oc)
    BY <1>10
  <2>2. edited.operatorId = o /\ edited.ids = ids /\ edited.outcome = x
    BY <2>1
  <2>3. x = oc
    BY <1>3, <2>1, <2>2
  <2> QED BY <1>1, <2>1, <2>3
<1>11. CASE edited = Rec(o, o, ids, ms, oc, after, after)
  BY <1>11
<1>12. CASE edited = Rec(o, o, ids, ms, oc, before, before)
  BY <1>12
<1>13. QED
  <2> HIDE DEF Rec, backwards, first, ids, ms, oc
  <2> QED BY <1>4, <1>5, <1>6, <1>7, <1>8, <1>9, <1>10, <1>11, <1>12

\* Parts of two sequences that go through the same elements in the same order are kept
\* as the same sequence.
IsAligned(f, seq, kept, seq2, kept2) ==
  /\ \A i \in kept2 : f[i] \in kept /\ seq2[i] = seq[f[i]]
  /\ \A i, j \in kept2 : i < j => f[i] < f[j]
  /\ \A k \in kept : \E i \in kept2 : f[i] = k

\* They are equal because an order of finitely many numbers has one numbering.
LEMMA KeptAlike ==
  ASSUME NEW n \in Nat, NEW kept \in SUBSET (1..n), NEW seq,
         NEW n2 \in Nat, NEW kept2 \in SUBSET (1..n2), NEW seq2,
         NEW f, IsAligned(f, seq, kept, seq2, kept2)
  PROVE  Keep(seq2, kept2) = Keep(seq, kept)
<1>0. /\ \A i \in kept2 : f[i] \in kept /\ seq2[i] = seq[f[i]]
      /\ \A i, j \in kept2 : i < j => f[i] < f[j]
      /\ \A k \in kept : \E i \in kept2 : f[i] = k
  BY DEF IsAligned
<1>1. /\ \A i \in kept2 : i \in Nat
      /\ \A i \in kept : i \in Nat
      /\ \A i, j \in kept2 : f[i] = f[j] => i = j
      /\ \A i, j \in kept2 : f[i] <= f[j] <=> i <= j
  <2>1. (\A i \in kept2 : i \in Nat) /\ (\A i \in kept : i \in Nat)
    OBVIOUS
  <2>2. ASSUME NEW i \in kept2, NEW j \in kept2
        PROVE  (f[i] = f[j] => i = j) /\ (f[i] <= f[j] <=> i <= j)
    <3>1. f[i] \in Nat /\ f[j] \in Nat /\ i \in Nat /\ j \in Nat
      BY <1>0, <2>1
    <3>2. (i < j => f[i] < f[j]) /\ (j < i => f[j] < f[i])
      BY <1>0
    <3> QED BY <3>1, <3>2
  <2> QED BY <2>1, <2>2
<1>2. IsFiniteSet(kept2)
  <2>1. IsFiniteSet(1..n2)
    BY FS_Interval
  <2> QED BY <2>1, FS_Subset
<1>3. ASSUME NEW S \in SUBSET kept2, NEW T, T = {f[i] : i \in S}
      PROVE  Cardinality(T) = Cardinality(S)
  <2> DEFINE g == [i \in S |-> f[i]]
  <2>1. g \in Surjection(S, T)
    BY <1>3 DEF Surjection
  <2>2. g \in Injection(S, T)
    BY <1>1, <1>3 DEF Injection, IsInjective
  <2>3. IsFiniteSet(S)
    BY <1>2, FS_Subset
  <2> HIDE DEF g
  <2> QED BY <2>1, <2>2, <2>3, FS_Surjection
<1>4. Cardinality(kept) = Cardinality(kept2)
  <2>1. kept = {f[i] : i \in kept2}
    BY <1>0
  <2>2. kept2 \in SUBSET kept2
    OBVIOUS
  <2> QED BY <1>3, <2>1, <2>2
<1>5. ASSUME NEW i \in kept2 PROVE Renumbered(kept, f[i]) = Renumbered(kept2, i)
  <2> DEFINE S == {j \in kept2 : j <= i}
             T == {k \in kept : k <= f[i]}
  <2>1. T = {f[j] : j \in S}
    <3>1. \A k \in T : \E j \in S : k = f[j]
      BY <1>0, <1>1
    <3>2. \A j \in S : f[j] \in T
      BY <1>0, <1>1
    <3> QED BY <3>1, <3>2
  <2>2. S \in SUBSET kept2
    OBVIOUS
  <2>3. Cardinality(T) = Cardinality(S)
    <3> HIDE DEF S, T
    <3> QED BY <1>3, <2>1, <2>2
  <2> QED BY <2>3 DEF Renumbered
<1> DEFINE count == Cardinality(kept2)
           left2 == Keep(seq2, kept2)
           left == Keep(seq, kept)
<1>6. /\ left2 = [m \in 1..count |-> left2[m]]
      /\ left = [m \in 1..count |-> left[m]]
  BY <1>4 DEF Keep
<1>7. IsKept(left2, seq2, kept2) /\ IsKept(left, seq, kept)
  BY KeptInPlace
<1>8. ASSUME NEW m \in 1..count PROVE left2[m] = left[m]
  <2> HIDE DEF left2, left
  <2>1. PICK i \in kept2 : m = Renumbered(kept2, i) /\ left2[m] = seq2[i]
    BY <1>7 DEF IsKept
  <2>2. f[i] \in kept /\ Renumbered(kept, f[i]) = m /\ seq2[i] = seq[f[i]]
    BY <1>0, <1>5, <2>1
  <2>3. left[m] = seq[f[i]]
    BY <1>7, <2>2 DEF IsKept
  <2> QED BY <2>1, <2>2, <2>3
<1>9. QED
  <2> HIDE DEF left2, left, count
  <2>1. left2 = left
    BY <1>6, <1>8
  <2> QED BY <2>1 DEF left2, left

\* What changes something is the same after an edit of entries that do not.
LEMMA SameKept ==
  ASSUME NEW ts, NEW ts2, Len(ts) \in Nat, Len(ts2) = Len(ts),
         \A k \in 1..Len(ts) : ts2[k] = ts[k] \/ (k \notin Changing(ts) /\ k \notin Changing(ts2))
  PROVE  Keep(ts2, Changing(ts2)) = Keep(ts, Changing(ts))
<1> DEFINE f == [k \in 1..Len(ts) |-> k]
<1>1. Changing(ts) \in SUBSET (1..Len(ts)) /\ Changing(ts2) = Changing(ts)
  BY DEF Changing, Positions
<1>2. \A i \in Changing(ts2) : f[i] \in Changing(ts) /\ ts2[i] = ts[f[i]]
  BY <1>1
<1>3. \A i, j \in Changing(ts2) : i < j => f[i] < f[j]
  BY <1>1
<1>4. \A k \in Changing(ts) : \E i \in Changing(ts2) : f[i] = k
  BY <1>1
<1> HIDE DEF f
<1>5. IsAligned(f, ts, Changing(ts), ts2, Changing(ts2))
  BY <1>2, <1>3, <1>4 DEF IsAligned
<1>6. Changing(ts) \in SUBSET (1..Len(ts)) /\ Changing(ts2) \in SUBSET (1..Len(ts))
  BY <1>1
<1>7. QED
  BY <1>5, <1>6, KeptAlike

\* or when one that does not is left out.
Without(seq, d) == [k \in 1..(Len(seq) - 1) |-> IF k < d THEN seq[k] ELSE seq[k + 1]]

\* The records after the one that is left out move up by one.
LEMMA WithoutKept ==
  ASSUME NEW ts, Len(ts) \in Nat, NEW d \in 1..Len(ts), d \notin Changing(ts)
  PROVE  /\ Len(Without(ts, d)) = Len(ts) - 1
         /\ Keep(Without(ts, d), Changing(Without(ts, d))) = Keep(ts, Changing(ts))
<1> DEFINE n == Len(ts)
           w == Without(ts, d)
           f == [k \in 1..(n - 1) |-> IF k < d THEN k ELSE k + 1]
<1>1. n - 1 \in Nat /\ n \in Nat
  OBVIOUS
<1>2. Len(w) = n - 1
  <2>1. w \in [1..(n - 1) -> {w[k] : k \in 1..(n - 1)}]
    BY DEF Without
  <2> HIDE DEF w, n
  <2> QED BY <1>1, <2>1, SeqDef, LenProperties
<1>3. \A k \in 1..(n - 1) : f[k] \in 1..n /\ f[k] # d /\ w[k] = ts[f[k]]
  BY DEF Without
<1>4. \A k \in 1..n : k # d => \E i \in 1..(n - 1) : f[i] = k
  <2> SUFFICES ASSUME NEW k \in 1..n, k # d PROVE \E i \in 1..(n - 1) : f[i] = k
    OBVIOUS
  <2>1. CASE k < d
    <3>1. k \in 1..(n - 1) /\ f[k] = k
      BY <2>1
    <3> QED BY <3>1
  <2>2. CASE k > d
    <3>1. k - 1 \in 1..(n - 1) /\ f[k - 1] = k
      BY <2>2
    <3> QED BY <3>1
  <2> QED BY <2>1, <2>2
<1>5. \A i, j \in 1..(n - 1) : i < j => f[i] < f[j]
  OBVIOUS
<1> DEFINE kept == Changing(ts)
           kept2 == Changing(w)
<1>6. kept \in SUBSET (1..n) /\ kept2 \in SUBSET (1..(n - 1))
  <2> HIDE DEF w
  <2> QED BY <1>2 DEF Changing, Positions
<1>7. \A i \in 1..(n - 1) : i \in kept2 <=> f[i] \in kept
  <2> HIDE DEF w, f, n
  <2> QED BY <1>2, <1>3 DEF Changing, Positions, n
<1>8. \A i \in kept2 : f[i] \in kept /\ w[i] = ts[f[i]]
  <2> HIDE DEF w, f, n, kept, kept2
  <2> QED BY <1>3, <1>6, <1>7
<1>9. \A k \in kept : \E i \in kept2 : f[i] = k
  <2> HIDE DEF w, f, n, kept2
  <2> QED BY <1>4, <1>6, <1>7
<1>10. \A i, j \in kept2 : i < j => f[i] < f[j]
  <2> HIDE DEF w, f, n, kept, kept2
  <2> QED BY <1>5, <1>6
<1>11. Keep(w, kept2) = Keep(ts, kept)
  <2> HIDE DEF w, f, n, kept, kept2
  <2>1. IsAligned(f, ts, kept, w, kept2)
    BY <1>8, <1>9, <1>10 DEF IsAligned
  <2> QED BY <1>1, <1>6, <2>1, KeptAlike
<1>12. QED
  BY <1>2, <1>11

\* Every record lies between its neighbours.
LEMMA Links ==
  ASSUME NEW v, NEW base, NEW ts, NEW final, IsLinked(v, base, ts, final), NEW k \in 1..Len(ts)
  PROVE  /\ ts[k].before = IF k = 1 THEN InitialState(base) ELSE ts[k - 1].after
         /\ ts[k].after = IF k = Len(ts) THEN final ELSE ts[k + 1].before
<1>1. Len(ts) \in Nat /\ Len(ts) > 0
  BY DEF IsLinked
<1>2. ts[k].before = IF k = 1 THEN InitialState(base) ELSE ts[k - 1].after
  <2>1. k = 1 \/ k \in 2..Len(ts)
    BY <1>1
  <2> QED BY <1>1, <2>1 DEF IsLinked
<1>3. ts[k].after = IF k = Len(ts) THEN final ELSE ts[k + 1].before
  <2>1. CASE k = Len(ts)
    BY <1>1, <2>1 DEF IsLinked
  <2>2. CASE k # Len(ts)
    <3>1. k + 1 \in 2..Len(ts) /\ (k + 1) - 1 = k
      BY <1>1, <2>2
    <3>2. ts[k + 1].before = ts[(k + 1) - 1].after
      BY <3>1 DEF IsLinked
    <3> QED BY <2>2, <3>1, <3>2
  <2> QED BY <2>1, <2>2
<1> QED BY <1>2, <1>3

\* Records that still link after one was left out: that one changed nothing.
LEMMA DroppedStillLinked ==
  ASSUME NEW v, NEW base, NEW ts, NEW final, IsLinked(v, base, ts, final),
         NEW ts2 \in Dropped(ts), IsLinked(v, base, ts2, final)
  PROVE  Keep(ts2, Changing(ts2)) = Keep(ts, Changing(ts))
<1> DEFINE n == Len(ts)
<1>1. n \in Nat
  BY DEF IsLinked
<1>2. PICK d \in 1..n : ts2 = Without(ts, d)
  BY DEF Dropped, Without, Positions
<1>3. Len(ts2) = n - 1 /\ \A k \in 1..(n - 1) : ts2[k] = IF k < d THEN ts[k] ELSE ts[k + 1]
  <2>1. n - 1 \in Nat /\ ts2 = [k \in 1..(n - 1) |-> ts2[k]]
    BY <1>1, <1>2 DEF Without
  <2>2. Len(ts2) = n - 1
    BY <2>1, FunctionLength
  <2> QED BY <1>2, <2>2 DEF Without
<1>4. ts[d].before = ts[d].after
  <2>1. CASE n = 1
    <3>1. Len(ts2) = 0 /\ d = 1
      BY <1>2, <1>3, <2>1
    <3>2. final = InitialState(base)
      BY <3>1 DEF IsLinked
    <3>3. ts[1].before = InitialState(base) /\ ts[1].after = final
      BY <2>1 DEF IsLinked
    <3> QED BY <3>1, <3>2, <3>3
  <2>2. CASE n > 1 /\ d = 1
    <3>1. 1 \in 1..(n - 1) /\ ts2[1] = ts[2] /\ Len(ts2) > 0
      BY <1>1, <1>3, <2>2
    <3>2. ts2[1].before = InitialState(base)
      BY <3>1 DEF IsLinked
    <3>3. ts[1].before = InitialState(base) /\ ts[1].after = ts[2].before
      BY <1>1, <2>2, Links
    <3> QED BY <2>2, <3>1, <3>2, <3>3
  <2>3. CASE n > 1 /\ d = n
    <3>1. n - 1 \in 1..(n - 1) /\ ts2[n - 1] = ts[n - 1] /\ Len(ts2) > 0 /\ n \in 1..n /\ n # 1
      BY <1>1, <1>3, <2>3
    <3>2. ts2[n - 1].after = final
      BY <1>3, <3>1 DEF IsLinked
    <3>3. ts[n].before = ts[n - 1].after /\ ts[n].after = final
      <4> HIDE DEF n
      <4>1. n \in 1..Len(ts) /\ n = Len(ts) /\ n # 1
        BY <3>1 DEF n
      <4> QED BY <4>1, Links
    <3> QED BY <2>3, <3>1, <3>2, <3>3
  <2>4. CASE d # 1 /\ d # n
    <3>1. /\ d \in 1..Len(ts2) /\ d # 1 /\ d \in 1..n /\ d # n
          /\ ts2[d] = ts[d + 1] /\ ts2[d - 1] = ts[d - 1]
      BY <1>1, <1>3, <2>4
    <3>2. ts2[d].before = ts2[d - 1].after
      BY <3>1, Links
    <3>3. ts[d].before = ts[d - 1].after /\ ts[d].after = ts[d + 1].before
      BY <3>1, Links
    <3> QED BY <3>1, <3>2, <3>3
  <2>5. n = 1 \/ (n > 1 /\ d = 1) \/ (n > 1 /\ d = n) \/ (d # 1 /\ d # n)
    <3> HIDE DEF n
    <3> QED BY <1>1, <1>2
  <2> QED BY <2>1, <2>2, <2>3, <2>4, <2>5
<1>5. d \notin Changing(ts)
  BY <1>4 DEF Changing
<1> QED BY <1>1, <1>2, <1>5, WithoutKept

\* Records that still link after two neighbours were exchanged: both changed nothing.
LEMMA SwappedStillLinked ==
  ASSUME NEW v, NEW base, NEW ts, NEW final, History(ts), IsLinked(v, base, ts, final),
         NEW ts2 \in Swapped(ts), IsLinked(v, base, ts2, final)
  PROVE  Keep(ts2, Changing(ts2)) = Keep(ts, Changing(ts))
<1> DEFINE n == Len(ts)
<1>1. n \in Nat /\ DOMAIN ts = 1..n
  BY HistoryIsFunction
<1>2. PICK s \in 1..(n - 1) : ts2 = [ts EXCEPT ![s] = ts[s + 1], ![s + 1] = ts[s]]
  BY DEF Swapped
<1>3. /\ ts2 = [k \in 1..n |-> ts2[k]]
      /\ ts2[s] = ts[s + 1] /\ ts2[s + 1] = ts[s]
      /\ \A k \in 1..n : k # s /\ k # s + 1 => ts2[k] = ts[k]
      /\ s \in 1..n /\ s + 1 \in 1..n /\ (s + 1) - 1 = s /\ s + 1 # 1 /\ s # n
  <2> HIDE DEF n
  <2>1. s \in 1..n /\ s + 1 \in 1..n /\ (s + 1) - 1 = s /\ s + 1 # 1 /\ s # n /\ s # s + 1
    BY <1>1, <1>2
  <2>2. DOMAIN ts2 = 1..n /\ ts2 = [k \in 1..n |-> ts2[k]]
    BY <1>1, <1>2
  <2>3. ts2[s] = ts[s + 1] /\ ts2[s + 1] = ts[s]
    BY <1>1, <1>2, <2>1
  <2>4. \A k \in 1..n : k # s /\ k # s + 1 => ts2[k] = ts[k]
    BY <1>1, <1>2, <2>1
  <2> QED BY <2>1, <2>2, <2>3, <2>4
<1>4. Len(ts2) = n
  <2> HIDE DEF n
  <2> QED BY <1>1, <1>3, FunctionLength
<1>5. ts[s].before = ts2[s].before
  <2>1. CASE s = 1
    <3>1. ts[s].before = InitialState(base)
      BY <1>3, <2>1, Links
    <3>2. ts2[s].before = InitialState(base)
      BY <1>3, <1>4, <2>1, Links
    <3> QED BY <3>1, <3>2
  <2>2. CASE s # 1
    <3>1. ts[s].before = ts[s - 1].after
      BY <1>3, <2>2, Links
    <3>2. ts2[s].before = ts2[s - 1].after
      BY <1>3, <1>4, <2>2, Links
    <3>3. s - 1 \in 1..n /\ s - 1 # s /\ s - 1 # s + 1
      BY <1>1, <2>2
    <3> QED BY <1>3, <3>1, <3>2, <3>3
  <2> QED BY <2>1, <2>2
<1>6. ts[s].after = ts[s + 1].before
  BY <1>3, Links
<1>7. ts2[s].after = ts2[s + 1].before
  BY <1>3, <1>4, Links
<1>8. s \notin Changing(ts) /\ s + 1 \notin Changing(ts) /\ s \notin Changing(ts2) /\ s + 1 \notin Changing(ts2)
  <2>1. ts[s].before = ts[s].after /\ ts[s + 1].before = ts[s + 1].after
    BY <1>3, <1>5, <1>6, <1>7
  <2>2. ts2[s].before = ts2[s].after /\ ts2[s + 1].before = ts2[s + 1].after
    BY <1>3, <2>1
  <2> QED BY <2>1, <2>2 DEF Changing
<1>9. \A k \in 1..n : ts2[k] = ts[k] \/ (k \notin Changing(ts) /\ k \notin Changing(ts2))
  BY <1>3, <1>8
<1> QED BY <1>1, <1>4, <1>9, SameKept

\* An entry of a request, as a record keeps it.
IsEntry(entry) ==
  /\ Len(entry.ids) \in Nat
  /\ entry.ids = [n \in Positions(entry.ids) |-> entry.ids[n]]
  /\ entry.operatorId \in {TimeAdvance, StepOutcome} => Len(entry.ids) = 1

AreRecords(ts, base) ==
  \A k \in 1..Len(ts) : \E entry : /\ IsEntry(entry)
                                   /\ ts[k] = RecordOf(entry, ts[k].before, ts[k].after)
                                   /\ IsState(ts[k].before, base)

\* Records that still link after one was edited.
LEMMA EditedStillLinked ==
  ASSUME NEW v \in Variants, NEW base, Len(base) \in Nat, NEW ts, NEW final, History(ts),
         AreRecords(ts, base), IsLinked(v, base, ts, final), NEW e \in 1..Len(ts),
         NEW edited \in RecordEdits(ts[e]), NEW ts2 \in {[ts EXCEPT ![e] = edited]},
         IsLinked(v, base, ts2, final)
  PROVE  Keep(ts2, Changing(ts2)) = Keep(ts, Changing(ts))
<1> DEFINE n == Len(ts)
<1>1. n \in Nat /\ DOMAIN ts = 1..n
  BY HistoryIsFunction
<1>2. /\ ts2 = [k \in 1..n |-> ts2[k]]
      /\ ts2[e] = edited
      /\ \A k \in 1..n : k # e => ts2[k] = ts[k]
  BY <1>1
<1>3. Len(ts2) = n
  <2> HIDE DEF n
  <2> QED BY <1>1, <1>2, FunctionLength
<1>8. e \in 1..Len(ts2) /\ e \in 1..n
  BY <1>3
<1>4. edited.before = ts[e].before
  <2>1. CASE e = 1
    <3>1. ts[e].before = InitialState(base)
      BY <2>1, Links
    <3>2. ts2[e].before = InitialState(base)
      BY <1>3, <1>8, <2>1, Links
    <3> QED BY <1>2, <3>1, <3>2
  <2>2. CASE e # 1
    <3>1. ts[e].before = ts[e - 1].after
      BY <2>2, Links
    <3>2. ts2[e].before = ts2[e - 1].after
      BY <1>3, <1>8, <2>2, Links
    <3>3. e - 1 \in 1..n /\ e - 1 # e
      BY <1>1, <2>2
    <3> QED BY <1>2, <3>1, <3>2, <3>3
  <2> QED BY <2>1, <2>2
<1>5. edited.after = ts[e].after
  <2>1. CASE e = n
    <3>1. ts[e].after = final
      BY <2>1, Links
    <3>2. ts2[e].after = final
      BY <1>3, <1>8, <2>1, Links
    <3> QED BY <1>2, <3>1, <3>2
  <2>2. CASE e # n
    <3>1. ts[e].after = ts[e + 1].before
      BY <2>2, Links
    <3>2. ts2[e].after = ts2[e + 1].before
      BY <1>3, <1>8, <2>2, Links
    <3>3. e + 1 \in 1..n /\ e + 1 # e
      <4> HIDE DEF n
      <4> QED BY <1>1, <1>8, <2>2
    <3> QED BY <1>2, <3>1, <3>2, <3>3
  <2> QED BY <2>1, <2>2
<1>6. edited = ts[e] \/ ts[e].before = ts[e].after
  <2> DEFINE record == ts[e]
             before == ts[e].before
             after == ts[e].after
  <2>1. PICK entry : IsEntry(entry) /\ record = RecordOf(entry, before, after) /\ IsState(before, base)
    BY DEF AreRecords
  <2>2. after = Apply(v, record, before) /\ after # Refused
    BY DEF IsLinked
  <2>3. /\ edited.registration = edited.operatorId
        /\ edited.after = Apply(v, edited, edited.before)
    <3>1. e \in 1..Len(ts2)
      BY <1>8
    <3> QED BY <1>2, <3>1 DEF IsLinked
  <2>4. edited.before = before /\ edited.after = after
    BY <1>4, <1>5
  <2>5. edited \in RecordEdits(record)
    OBVIOUS
  <2> HIDE DEF record, before, after
  <2>6. edited = record \/ before = after
    BY <2>1, <2>2, <2>3, <2>4, <2>5, EditedRecord DEF IsEntry
  <2> QED BY <2>6 DEF record, before, after
<1>7. \A k \in 1..n : ts2[k] = ts[k] \/ (k \notin Changing(ts) /\ k \notin Changing(ts2))
  <2>1. ts[e].before = ts[e].after => e \notin Changing(ts) /\ e \notin Changing(ts2)
    BY <1>2, <1>4, <1>5 DEF Changing
  <2> QED BY <1>2, <1>6, <2>1
<1> QED BY <1>1, <1>3, <1>7, SameKept

\* An edit of a spec leaves the records, and the base actions or what is executed, as they
\* were, or it is an edit of the records alone.
SpecFields == {"seedDigest", "invariant", "actors", "base", "transformed", "transformations",
               "controls", "fixtures"}

\* One field of a spec is edited at a time.
LEMMA SpecEdited ==
  ASSUME NEW b, DOMAIN b = SpecFields, NEW sp \in SpecEdits(b)
  PROVE  /\ sp.actors = b.actors
         /\ \/ /\ sp.transformations = b.transformations
               /\ sp.base = b.base \/ (sp.transformed = b.transformed /\ sp.controls = b.controls)
            \/ /\ sp.base = b.base /\ sp.transformed = b.transformed /\ sp.controls = b.controls
               /\ sp.fixtures = b.fixtures
               /\ sp.transformations \in RecordsEdits(b.transformations)
<1> DEFINE ts == b.transformations
           SameBut(field) == \A f \in SpecFields \ {field} : sp[f] = b[f]
<1>1. \/ SameBut("seedDigest") \/ SameBut("invariant") \/ SameBut("base")
      \/ SameBut("transformed") \/ SameBut("controls") \/ SameBut("fixtures")
      \/ SameBut("transformations") /\ sp.transformations \in RecordsEdits(ts)
  <2>1. ASSUME NEW field \in SpecFields, NEW x, sp = [b EXCEPT ![field] = x]
        PROVE  SameBut(field) /\ sp[field] = x
    BY <2>1
  <2>2. CASE sp = [b EXCEPT !.seedDigest = {}]
    <3>1. SameBut("seedDigest")
      BY <2>1, <2>2 DEF SpecFields
    <3> QED BY <3>1
  <2>3. CASE sp = [b EXCEPT !.invariant = "tx.successful-step-return"]
    <3>1. SameBut("invariant")
      BY <2>1, <2>3 DEF SpecFields
    <3> QED BY <3>1
  <2>4. CASE \E x : sp = [b EXCEPT !.base = x]
    <3>1. SameBut("base")
      BY <2>1, <2>4 DEF SpecFields
    <3> QED BY <3>1
  <2>5. CASE \E x : sp = [b EXCEPT !.transformed = x]
    <3>1. SameBut("transformed")
      BY <2>1, <2>5 DEF SpecFields
    <3> QED BY <3>1
  <2>6. CASE \E x : sp = [b EXCEPT !.controls = x]
    <3>1. SameBut("controls")
      BY <2>1, <2>6 DEF SpecFields
    <3> QED BY <3>1
  <2>7. CASE \E x : sp = [b EXCEPT !.fixtures = x]
    <3>1. SameBut("fixtures")
      BY <2>1, <2>7 DEF SpecFields
    <3> QED BY <3>1
  <2>8. CASE \E x \in RecordsEdits(ts) : sp = [b EXCEPT !.transformations = x]
    <3>1. PICK x \in RecordsEdits(ts) : sp = [b EXCEPT !.transformations = x]
      BY <2>8
    <3>2. SameBut("transformations") /\ sp.transformations = x
      BY <2>1, <3>1 DEF SpecFields
    <3> QED BY <3>1, <3>2
  <2>9. \/ sp = [b EXCEPT !.seedDigest = {}]
        \/ sp = [b EXCEPT !.invariant = "tx.successful-step-return"]
        \/ \E x : sp = [b EXCEPT !.base = x]
        \/ \E x : sp = [b EXCEPT !.transformed = x]
        \/ \E x : sp = [b EXCEPT !.controls = x]
        \/ \E x : sp = [b EXCEPT !.fixtures = x]
        \/ \E x \in RecordsEdits(ts) : sp = [b EXCEPT !.transformations = x]
    BY DEF SpecEdits
  <2> QED BY <2>2, <2>3, <2>4, <2>5, <2>6, <2>7, <2>8, <2>9
<1> QED BY <1>1 DEF SpecFields

\* Records that still link after any of the edits.
LEMMA RecordsStillLinked ==
  ASSUME NEW v \in Variants, NEW base, Len(base) \in Nat, NEW ts, NEW final, History(ts),
         AreRecords(ts, base), IsLinked(v, base, ts, final),
         NEW ts2 \in RecordsEdits(ts), IsLinked(v, base, ts2, final)
  PROVE  Keep(ts2, Changing(ts2)) = Keep(ts, Changing(ts))
<1>1. CASE ts2 \in Dropped(ts)
  BY <1>1, DroppedStillLinked
<1>2. CASE ts2 \in Swapped(ts)
  BY <1>2, SwappedStillLinked
<1>3. CASE \E k \in Positions(ts) : \E record \in RecordEdits(ts[k]) : ts2 = [ts EXCEPT ![k] = record]
  <2>1. PICK k \in Positions(ts) : \E record \in RecordEdits(ts[k]) : ts2 = [ts EXCEPT ![k] = record]
    BY <1>3
  <2>2. PICK record \in RecordEdits(ts[k]) : ts2 = [ts EXCEPT ![k] = record]
    BY <2>1
  <2>3. k \in 1..Len(ts) /\ ts2 \in {[ts EXCEPT ![k] = record]}
    BY <2>1, <2>2 DEF Positions
  <2> QED BY <2>3, EditedStillLinked
<1> QED BY <1>1, <1>2, <1>3 DEF RecordsEdits

\* Edited records are a sequence still.
LEMMA EditedIsHistory ==
  ASSUME NEW ts, History(ts), NEW ts2 \in RecordsEdits(ts)
  PROVE  History(ts2)
<1> DEFINE n == Len(ts)
<1>1. n \in Nat /\ ts = [k \in 1..n |-> ts[k]] /\ DOMAIN ts = 1..n
  BY HistoryIsFunction
<1> HIDE DEF n
<1>2. CASE ts2 \in Dropped(ts)
  <2>1. PICK d \in 1..n : ts2 = Without(ts, d)
    BY <1>2 DEF Dropped, Without, Positions, n
  <2>2. n - 1 \in Nat /\ ts2 = [k \in 1..(n - 1) |-> ts2[k]]
    BY <1>1, <2>1 DEF Without, n
  <2> QED BY <2>2, FunctionLength
<1>3. CASE \E x, y, k, l : ts2 = [ts EXCEPT ![k] = x, ![l] = y]
  <2>1. ts2 = [k \in 1..n |-> ts2[k]]
    BY <1>1, <1>3
  <2> QED BY <1>1, <2>1, FunctionLength
<1>4. CASE \E x, k : ts2 = [ts EXCEPT ![k] = x]
  <2>1. ts2 = [k \in 1..n |-> ts2[k]]
    BY <1>1, <1>4
  <2> QED BY <1>1, <2>1, FunctionLength
<1>5. ts2 \in Swapped(ts) => \E x, y, k, l : ts2 = [ts EXCEPT ![k] = x, ![l] = y]
  BY DEF Swapped
<1> QED BY <1>2, <1>3, <1>4, <1>5 DEF RecordsEdits

\* The records are such records.
LEMMA RecordsAreRecords ==
  ASSUME BuildInv
  PROVE  AreRecords(records, Base) /\ Len(Base) \in Nat
<1>1. Len(records) \in Nat /\ Len(records) <= Len(request) /\ Len(request) \in Nat
  BY HistoryIsFunction DEF BuildInv, RecordsInv, InputsInv, IsRequest
<1>2. ASSUME NEW k \in 1..Len(records)
      PROVE  /\ IsEntry(request[k])
             /\ records[k] = RecordOf(request[k], records[k].before, records[k].after)
             /\ IsState(records[k].before, Base)
  <2>1. k - 1 \in 0..Len(records) /\ k \in Positions(request)
    BY <1>1 DEF Positions
  <2>2. IsEntry(request[k])
    BY <2>1 DEF BuildInv, InputsInv, IsRequest, IsEntry
  <2>3. IsState(StateAfter(k - 1), Base) /\ IsRecorded(k)
    BY <2>1 DEF BuildInv, RecordsInv
  <2>4. records[k] = RecordOf(request[k], StateAfter(k - 1), StateAfter(k))
    BY <2>3 DEF IsRecorded
  <2>5. records[k].before = StateAfter(k - 1) /\ records[k].after = StateAfter(k)
    BY <2>4 DEF RecordOf
  <2> QED BY <2>2, <2>3, <2>4, <2>5
<1>3. Len(Base) \in Nat
  BY BaseIsAState DEF BuildInv, InputsInv, Base
<1> QED BY <1>2, <1>3 DEF AreRecords

\* A valid spec links, and has the fixtures of what it executes.
LEMMA ValidSpecLinks ==
  ASSUME NEW v \in Variants, NEW sp, NEW a, History(sp.transformations), ValidateSpec(v, sp, a)
  PROVE  /\ IsLinked(v, sp.base, sp.transformations, FinalOf(sp))
         /\ sp.fixtures = Fixtures(sp.transformed, a)
<1>2. TransformationsValid(v, sp) /\ sp.fixtures = Fixtures(sp.transformed, a)
  BY DEF ValidateSpec, ValidateNightmareSpec, ValidateBenchmarkSpec, Variants
<1> QED BY <1>2, ValidIsLinked

\* An edited spec that is accepted is the one that was built: either its records are
\* the same, and determine what is executed from the base actions or the other way round,
\* or they were edited, and still link the same base actions to the same final state.
LEMMA AcceptedSpec ==
  ASSUME BuildInv, ValidateSpec(variant, BuiltSpec, artifact),
         NEW sp \in SpecEdits(BuiltSpec), ValidateSpec(variant, sp, artifact)
  PROVE  Determined(sp) = Determined(BuiltSpec)
<1> DEFINE b == BuiltSpec
           ts == records
<1>1. /\ DOMAIN b = SpecFields
      /\ b.transformations = ts /\ b.base = Base
      /\ History(ts)
      /\ variant \in Variants
  BY DEF BuiltSpec, Spec0, Base, SpecFields, BuildInv, InputsInv, RecordsInv
<1> HIDE DEF b
<1>2. b = BuiltSpec
  BY DEF b
<1>3. /\ IsLinked(variant, b.base, ts, FinalOf(b))
      /\ b.fixtures = Fixtures(b.transformed, artifact)
  BY <1>1, <1>2, ValidSpecLinks
<1>4. sp \in SpecEdits(b)
  BY <1>2
<1>5. /\ sp.actors = b.actors
      /\ \/ /\ sp.transformations = ts
            /\ sp.base = b.base \/ (sp.transformed = b.transformed /\ sp.controls = b.controls)
         \/ /\ sp.base = b.base /\ sp.transformed = b.transformed /\ sp.controls = b.controls
            /\ sp.fixtures = b.fixtures
            /\ sp.transformations \in RecordsEdits(ts)
  BY <1>1, <1>4, SpecEdited
<1>6. CASE /\ sp.transformations = ts
           /\ sp.base = b.base \/ (sp.transformed = b.transformed /\ sp.controls = b.controls)
  <2>1. /\ IsLinked(variant, sp.base, ts, FinalOf(sp))
        /\ sp.fixtures = Fixtures(sp.transformed, artifact)
    BY <1>1, <1>6, ValidSpecLinks
  <2>2. sp.base = b.base <=> FinalOf(sp) = FinalOf(b)
    BY <1>3, <2>1, LinkedEnds
  <2>3. FinalOf(sp) = FinalOf(b) <=> (sp.transformed = b.transformed /\ sp.controls = b.controls)
    BY DEF FinalOf
  <2>4. /\ sp.base = b.base /\ sp.transformed = b.transformed /\ sp.controls = b.controls
        /\ sp.fixtures = b.fixtures
    BY <1>3, <1>6, <2>1, <2>2, <2>3
  <2> QED BY <1>1, <1>2, <1>5, <1>6, <2>4 DEF Determined
<1>7. CASE /\ sp.base = b.base /\ sp.transformed = b.transformed /\ sp.controls = b.controls
           /\ sp.fixtures = b.fixtures
           /\ sp.transformations \in RecordsEdits(ts)
  <2>1. History(sp.transformations)
    BY <1>1, <1>7, EditedIsHistory
  <2>2. IsLinked(variant, sp.base, sp.transformations, FinalOf(sp))
    BY <1>1, <2>1, ValidSpecLinks
  <2>3. FinalOf(sp) = FinalOf(b)
    BY <1>7 DEF FinalOf
  <2>4. AreRecords(ts, b.base) /\ Len(b.base) \in Nat
    BY <1>1, RecordsAreRecords
  <2> DEFINE ts2 == sp.transformations
             final == FinalOf(b)
             base == b.base
  <2>5. IsLinked(variant, base, ts2, final) /\ IsLinked(variant, base, ts, final) /\ ts2 \in RecordsEdits(ts)
    BY <1>3, <1>7, <2>2, <2>3
  <2>6. AreRecords(ts, base) /\ Len(base) \in Nat
    BY <2>4
  <2> HIDE DEF ts2, final, base
  <2>7. Keep(ts2, Changing(ts2)) = Keep(ts, Changing(ts))
    BY <1>1, <2>5, <2>6, RecordsStillLinked
  <2> QED BY <1>1, <1>2, <1>5, <1>7, <2>7 DEF Determined, ts2
<1> QED BY <1>5, <1>6, <1>7

\* What may be stored, and what an accepted pair has passed.
StoredInv ==
  phase \in {"stored", "judged"} =>
    /\ ValidateSpec(variant, BuiltSpec, artifact)
    /\ \/ spec = BuiltSpec /\ plan = PlanOf(BuiltSpec, artifact)
       \/ /\ spec \in SpecEdits(BuiltSpec)
          /\ plan = PlanOf(BuiltSpec, artifact) \/ plan = PlanOf(spec, artifact)
       \/ spec = BuiltSpec /\ plan \in PlanEdits(PlanOf(BuiltSpec, artifact))

VerdictInv ==
  verdict = "accepted" =>
    phase = "judged" /\ ValidatePlan(variant, plan, spec, ArtifactOf(reader, plan))

PairInv == StoredInv /\ VerdictInv

\* Store edits one of the two files, and Judge records what the validator said of both.
LEMMA NextPair == BuiltInv /\ PairInv /\ [TransformationNext]_transformationVars => PairInv'
<1> SUFFICES ASSUME BuiltInv, PairInv, [TransformationNext]_transformationVars PROVE PairInv'
  OBVIOUS
<1>1. ASSUME UNCHANGED <<variant, seed, artifact, state, records>> PROVE BuiltSpec' = BuiltSpec
  BY <1>1 DEF BuiltSpec
<1>2. CASE ApplyEntry
  BY <1>2 DEF ApplyEntry, Refuse, PairInv, StoredInv, VerdictInv
<1>3. CASE Finish
  <2>1. phase' \in {"built", "refused"} /\ verdict' = verdict /\ phase = "building"
    BY <1>3 DEF Finish, Refuse
  <2> QED BY <2>1 DEF PairInv, StoredInv, VerdictInv
<1>4. CASE Store
  <2>1. /\ phase = "built" /\ phase' = "stored" /\ verdict' = verdict
        /\ UNCHANGED <<variant, seed, artifact, state, records>>
        /\ \/ UNCHANGED <<spec, plan>>
           \/ \E sp \in SpecEdits(spec) : spec' = sp /\ (plan' = plan \/ plan' = PlanOf(sp, artifact))
           \/ \E p \in PlanEdits(plan) : plan' = p /\ UNCHANGED spec
    BY <1>4 DEF Store
  <2>2. spec = BuiltSpec /\ plan = PlanOf(BuiltSpec, artifact) /\ ValidateSpec(variant, BuiltSpec, artifact)
    BY <2>1 DEF BuiltInv
  <2>3. BuiltSpec' = BuiltSpec
    BY <1>1, <2>1
  <2>4. \/ spec' = BuiltSpec /\ plan' = PlanOf(BuiltSpec, artifact)
        \/ /\ spec' \in SpecEdits(BuiltSpec)
           /\ plan' = PlanOf(BuiltSpec, artifact) \/ plan' = PlanOf(spec', artifact)
        \/ spec' = BuiltSpec /\ plan' \in PlanEdits(PlanOf(BuiltSpec, artifact))
    BY <2>1, <2>2
  <2>5. StoredInv'
    BY <2>1, <2>2, <2>3, <2>4 DEF StoredInv
  <2>6. VerdictInv'
    BY <2>1 DEF PairInv, VerdictInv
  <2> QED BY <2>5, <2>6 DEF PairInv
<1>5. CASE Judge
  <2>1. /\ phase = "stored" /\ phase' = "judged"
        /\ verdict' = IF ValidatePlan(variant, plan, spec, ArtifactOf(reader', plan))
                      THEN "accepted" ELSE "rejected"
        /\ UNCHANGED <<variant, seed, artifact, state, records, spec, plan>>
    BY <1>5 DEF Judge
  <2>2. BuiltSpec' = BuiltSpec
    BY <1>1, <2>1
  <2>3. StoredInv'
    BY <2>1, <2>2 DEF PairInv, StoredInv
  <2>4. VerdictInv'
    BY <2>1 DEF VerdictInv
  <2> QED BY <2>3, <2>4 DEF PairInv
<1>6. CASE UNCHANGED transformationVars
  <2>1. BuiltSpec' = BuiltSpec
    BY <1>1, <1>6 DEF transformationVars
  <2> QED BY <1>6, <2>1 DEF transformationVars, PairInv, StoredInv, VerdictInv
<1> QED BY <1>2, <1>3, <1>4, <1>5, <1>6 DEF TransformationNext

\* A plan that was edited still has its fields.
PlanFields == {"specDigest", "invariant", "artifact", "actions", "bindings", "fixtures", "controls"}
HasPlanFields(p) == p = [f \in PlanFields |-> p[f]]

\* Both a plan that was built and one that was edited.
LEMMA PlansHaveTheirFields ==
  ASSUME NEW sp, NEW a
  PROVE  /\ HasPlanFields(PlanOf(sp, a)) /\ PlanOf(sp, a).artifact = a
         /\ \A p \in PlanEdits(PlanOf(sp, a)) : HasPlanFields(p)
<1> DEFINE p0 == PlanOf(sp, a)
<1>1. HasPlanFields(p0) /\ p0.artifact = a
  BY DEF PlanOf, HasPlanFields, PlanFields
<1> HIDE DEF p0
<1>2. ASSUME NEW p \in PlanEdits(p0) PROVE HasPlanFields(p)
  <2>1. \E f, x : p = [p0 EXCEPT ![f] = x]
    BY DEF PlanEdits
  <2>2. DOMAIN p0 = PlanFields
    BY <1>1 DEF HasPlanFields
  <2> QED BY <2>1, <2>2 DEF HasPlanFields
<1> QED BY <1>1, <1>2 DEF p0

\* A plan that passes every comparison is the plan of its spec.
LEMMA ValidPlanIsOf ==
  ASSUME NEW v, NEW p, HasPlanFields(p), NEW sp, NEW a, ValidatePlan(v, p, sp, a)
  PROVE  p = PlanOf(sp, p.artifact) /\ p.artifact = a /\ ValidateSpec(v, sp, a)
<1>1. /\ p.specDigest = sp /\ p.artifact = a /\ p.invariant = sp.invariant
      /\ p.actions = [i \in Positions(sp.transformed) |-> PlanAction(sp.transformed[i])]
      /\ p.bindings = Bindings(sp.transformed)
      /\ p.fixtures = sp.fixtures /\ p.controls = sp.controls
      /\ ValidateSpec(v, sp, a)
  BY DEF ValidatePlan
<1>2. p = [specDigest |-> p.specDigest, invariant |-> p.invariant, artifact |-> p.artifact,
           actions |-> p.actions, bindings |-> p.bindings, fixtures |-> p.fixtures,
           controls |-> p.controls]
  BY DEF HasPlanFields, PlanFields
<1> QED BY <1>1, <1>2 DEF PlanOf

\* The fixtures name the artifact they were made for.
LEMMA FixturesNameTheArtifact ==
  ASSUME NEW actions, NEW a, NEW a2, Fixtures(actions, a) = Fixtures(actions, a2),
         Fixtures(actions, a) # <<>>, Len(actions) \in Nat
  PROVE  a = a2
<1> DEFINE runIds == Runs([actions |-> actions])
           kept == Keep(actions, runIds)
           count == Cardinality(runIds)
<1>1. count \in Nat
  <2>1. runIds \in SUBSET (1..Len(actions))
    BY DEF Runs, Positions
  <2> HIDE DEF runIds
  <2> QED BY <2>1, NewNumbers
<1>2. /\ Fixtures(actions, a) = [n \in 1..count |-> Fixture(kept[n], a)]
      /\ Fixtures(actions, a2) = [n \in 1..count |-> Fixture(kept[n], a2)]
  BY DEF Fixtures
<1> HIDE DEF count, kept
<1>3. 1 \in 1..count
  <2>1. count # 0
    <3> SUFFICES ASSUME count = 0 PROVE FALSE
      OBVIOUS
    <3>1. 1..count = {}
      OBVIOUS
    <3>2. Fixtures(actions, a) = <<>>
      BY <1>2, <3>1
    <3> QED BY <3>2
  <2> QED BY <1>1, <2>1
<1>4. Fixture(kept[1], a) = Fixture(kept[1], a2)
  BY <1>2, <1>3
<1> QED BY <1>4 DEF Fixture

\* What the verdict says of the pair, from what the validators establish.
LEMMA AcceptedPair == BuildInv /\ PairInv => AcceptedIsAsBuilt
<1> SUFFICES ASSUME BuildInv, PairInv, verdict = "accepted"
             PROVE  /\ Determined(spec) = Determined(BuiltSpec)
                    /\ plan = PlanOf(spec, plan.artifact)
                    /\ reader \in {plan.artifact, "own"}
                    /\ spec.fixtures # <<>> => plan.artifact = artifact
  BY DEF AcceptedIsAsBuilt
<1>1. /\ ValidatePlan(variant, plan, spec, ArtifactOf(reader, plan))
      /\ ValidateSpec(variant, BuiltSpec, artifact)
      /\ \/ spec = BuiltSpec /\ plan = PlanOf(BuiltSpec, artifact)
         \/ /\ spec \in SpecEdits(BuiltSpec)
            /\ plan = PlanOf(BuiltSpec, artifact) \/ plan = PlanOf(spec, artifact)
         \/ spec = BuiltSpec /\ plan \in PlanEdits(PlanOf(BuiltSpec, artifact))
  BY DEF PairInv, StoredInv, VerdictInv
<1>2. HasPlanFields(plan)
  BY <1>1, PlansHaveTheirFields
<1>3. /\ plan = PlanOf(spec, plan.artifact)
      /\ plan.artifact = ArtifactOf(reader, plan)
      /\ ValidateSpec(variant, spec, plan.artifact)
  BY <1>1, <1>2, ValidPlanIsOf
<1>4. reader \in {plan.artifact, "own"}
  BY <1>3 DEF ArtifactOf
<1>5. CASE spec # BuiltSpec \/ plan \notin PlanEdits(PlanOf(BuiltSpec, artifact))
  <2>1. plan.artifact = artifact
    BY <1>1, <1>5, PlansHaveTheirFields
  <2>2. Determined(spec) = Determined(BuiltSpec)
    BY <1>1, <1>3, <1>5, <2>1, AcceptedSpec
  <2> QED BY <1>3, <1>4, <2>1, <2>2
<1>6. CASE spec = BuiltSpec
  <2>1. spec.fixtures # <<>> => plan.artifact = artifact
    <3> DEFINE b == BuiltSpec
               actions == b.transformed
    <3>1. History(b.transformations) /\ variant \in Variants
      BY DEF BuiltSpec, Spec0, BuildInv, RecordsInv, InputsInv
    <3>2. Len(actions) \in Nat
      <4>1. Len(records) \in 0..Len(records) /\ Len(Base) \in Nat
        BY HistoryIsFunction, BaseIsAState DEF BuildInv, RecordsInv, InputsInv, Base
      <4>2. IsState(state, Base)
        BY <4>1 DEF BuildInv, RecordsInv
      <4>3. Len(state.actions) = Len(Base)
        BY <4>1, <4>2, StateFacts
      <4> QED BY <4>1, <4>3 DEF BuiltSpec, Spec0
    <3> HIDE DEF b
    <3>3. ValidateSpec(variant, b, artifact) /\ ValidateSpec(variant, b, plan.artifact)
      BY <1>1, <1>3, <1>6 DEF b
    <3>4. b.fixtures = Fixtures(actions, artifact) /\ b.fixtures = Fixtures(actions, plan.artifact)
      BY <3>1, <3>3, ValidSpecLinks
    <3>5. b.fixtures # <<>> => plan.artifact = artifact
      <4> HIDE DEF actions
      <4> QED BY <3>2, <3>4, FixturesNameTheArtifact
    <3> QED BY <1>6, <3>5 DEF b
  <2> QED BY <1>3, <1>4, <1>6, <2>1
<1> QED BY <1>5, <1>6

\* A spec and a plan that were stored, edited in one place, and accepted for a reader by
\* validateExecutionPlan or validateBenchmarkPlan are as they were built, up to the records
\* of faults that change nothing, and are of the artifact they were built for.
THEOREM AcceptedPairsAreAsBuilt == TransformationSpec => []AcceptedIsAsBuilt
<1>1. TransformationInit => BuildInv /\ BuiltInv /\ PairInv
  BY InitBuild DEF TransformationInit, BuiltInv, PairInv, StoredInv, VerdictInv
<1>2. /\ BuildInv /\ BuiltInv /\ PairInv
      /\ [TransformationNext]_transformationVars
      => (BuildInv /\ BuiltInv /\ PairInv)'
  BY NextBuild, NextBuilt, NextPair
<1>3. QED
  BY <1>1, <1>2, AcceptedPair, PTL DEF TransformationSpec

-----------------------------------------------------------------------------
(***************************************************************************)
(* The requests that are selected.                                         *)
(***************************************************************************)

\* What validateActionArguments looks at besides the outcomes.
SameShape(actions, others) ==
  /\ Positions(actions) = Positions(others)
  /\ \A i \in Positions(actions) :
       /\ actions[i].actionId = others[i].actionId
       /\ actions[i].actor = others[i].actor
       /\ actions[i].bind = others[i].bind
       /\ actions[i].tx = others[i].tx
       /\ actions[i].timeoutMs = others[i].timeoutMs

\* The runs and producers of actions with the same shape are the same, ...
LEMMA SameRuns ==
  ASSUME NEW actions, NEW others, SameShape(actions, others)
  PROVE  /\ Runs([actions |-> actions]) = Runs([actions |-> others])
         /\ Producers([actions |-> actions]) = Producers([actions |-> others])
         /\ Runs([actions |-> actions]) \subseteq Positions(actions)
         /\ Producers([actions |-> actions]) \subseteq Positions(actions)
BY DEF SameShape, Runs, Producers

\* and they are valid together, if the outcomes are.
LEMMA StillValid ==
  ASSUME NEW v, NEW actions, NEW others, SameShape(actions, others), Len(actions) \in Nat,
         ArgumentsValid(v, actions),
         \A i \in Runs([actions |-> others]) : OutcomesValid(v, others[i])
  PROVE  ArgumentsValid(v, others)
<1> DEFINE a == [actions |-> actions]
           b == [actions |-> others]
<1>1. HandlesAreBound(b)
  <2>1. ASSUME NEW i \in Positions(others), others[i].actionId \in {"tx.run", "tx.commit"}
        PROVE  \E j \in 1..(i - 1) : others[j].bind # "null" /\ others[j].bind = others[i].tx
    <3>1. i \in Positions(actions) /\ actions[i].actionId = others[i].actionId /\ actions[i].tx = others[i].tx
      BY DEF SameShape
    <3>2. PICK j \in 1..(i - 1) : actions[j].bind # "null" /\ actions[j].bind = actions[i].tx
      BY <2>1, <3>1 DEF ArgumentsValid, HandlesAreBound
    <3>3. j \in Positions(actions)
      BY <3>1 DEF Positions
    <3>4. others[j].bind = actions[j].bind
      BY <3>3 DEF SameShape
    <3>5. QED
      BY <3>1, <3>2, <3>4
  <2>2. QED
    BY <2>1 DEF HandlesAreBound
<1>2. Producers(b) = Producers(a) /\ Producers(a) \subseteq Positions(actions)
  BY SameRuns
<1>3. BindingsAreUnique(b)
  <2>1. ASSUME NEW i \in Producers(b), NEW j \in Producers(b), others[i].bind = others[j].bind
        PROVE  i = j
    <3>1. i \in Producers(a) /\ j \in Producers(a) /\ i \in Positions(actions) /\ j \in Positions(actions)
      BY <1>2
    <3>2. actions[i].bind = actions[j].bind
      BY <2>1, <3>1 DEF SameShape
    <3>3. QED
      BY <3>1, <3>2 DEF ArgumentsValid, BindingsAreUnique
  <2>2. QED
    BY <2>1 DEF BindingsAreUnique
<1>4. v = "benchmark" => \A i \in Producers(b) : others[i].timeoutMs >= 1
  <2>1. ASSUME v = "benchmark", NEW i \in Producers(b)
        PROVE  others[i].timeoutMs >= 1
    <3>1. i \in Producers(a) /\ i \in Positions(actions)
      BY <1>2
    <3>2. actions[i].timeoutMs >= 1
      BY <2>1, <3>1 DEF ArgumentsValid
    <3>3. QED
      BY <3>1, <3>2 DEF SameShape
  <2>2. QED
    BY <2>1
<1>5. QED
  BY <1>1, <1>3, <1>4 DEF ArgumentsValid

\* The base actions of a valid seed are valid.
LEMMA BaseIsValid ==
  ASSUME NEW v \in Variants, NEW s \in Seeds[v], SeedValid(v, s)
  PROVE  /\ SameShape(s.actions, BaseActions(s))
         /\ ArgumentsValid(v, BaseActions(s))
         /\ ActorsAreDeclared([actors |-> s.actors, actions |-> BaseActions(s)])
<1> DEFINE B == BaseActions(s)
<1>1. /\ Positions(B) = Positions(s.actions)
      /\ Len(s.actions) \in Nat
      /\ \A i \in Positions(s.actions) :
              B[i] =
                   [id |-> i, actionId |-> s.actions[i].actionId, actor |-> s.actions[i].actor,
                    bind |-> s.actions[i].bind, tx |-> s.actions[i].tx,
                    outcomes |-> s.actions[i].outcomes, retry |-> s.actions[i].retry,
                    gate |-> s.actions[i].gate, timeoutMs |-> s.actions[i].timeoutMs]
  BY BaseIsAState, SeedFacts
<1>2. /\ SameShape(s.actions, B)
      /\ \A i \in Positions(s.actions) :
           B[i].outcomes = s.actions[i].outcomes /\ B[i].retry = s.actions[i].retry
  <2> HIDE DEF B
  <2>1. ASSUME NEW i \in Positions(s.actions)
        PROVE  /\ s.actions[i].actionId = B[i].actionId
               /\ s.actions[i].actor = B[i].actor
               /\ s.actions[i].bind = B[i].bind
               /\ s.actions[i].tx = B[i].tx
               /\ s.actions[i].timeoutMs = B[i].timeoutMs
               /\ B[i].outcomes = s.actions[i].outcomes
               /\ B[i].retry = s.actions[i].retry
    <3> DEFINE a == s.actions[i]
               b == B[i]
    <3>1. b = [id |-> i, actionId |-> a.actionId, actor |-> a.actor, bind |-> a.bind,
               tx |-> a.tx, outcomes |-> a.outcomes, retry |-> a.retry, gate |-> a.gate,
               timeoutMs |-> a.timeoutMs]
      BY <1>1
    <3>2. /\ a.actionId = b.actionId /\ a.actor = b.actor /\ a.bind = b.bind
          /\ a.tx = b.tx /\ a.timeoutMs = b.timeoutMs
          /\ b.outcomes = a.outcomes /\ b.retry = a.retry
      <4> HIDE DEF a, b
      <4> QED BY <3>1
    <3>3. QED
      BY <3>2
  <2> QED BY <1>1, <2>1 DEF SameShape
<1>3. \A i \in Runs([actions |-> B]) : OutcomesValid(v, B[i])
  <2> HIDE DEF B
  <2> SUFFICES ASSUME NEW i \in Runs([actions |-> B]) PROVE OutcomesValid(v, B[i])
    OBVIOUS
  <2>1. i \in Runs([actions |-> s.actions]) /\ i \in Positions(s.actions)
    BY <1>2, SameRuns
  <2>2. OutcomesValid(v, s.actions[i])
    BY <2>1 DEF SeedValid, ArgumentsValid
  <2>3. B[i].outcomes = s.actions[i].outcomes /\ B[i].retry = s.actions[i].retry
    BY <1>2, <2>1
  <2>4. QED
    BY <2>2, <2>3 DEF OutcomesValid
<1>4. ArgumentsValid(v, B)
  <2> HIDE DEF B
  <2>1. ArgumentsValid(v, s.actions)
    BY DEF SeedValid
  <2> QED BY <1>1, <1>2, <1>3, <2>1, StillValid
<1>5. ActorsAreDeclared([actors |-> s.actors, actions |-> B])
  <2> HIDE DEF B
  <2>1. ActorsAreDeclared(s)
    BY DEF SeedValid
  <2>2. ASSUME NEW i \in Positions(B)
        PROVE  \E a \in Positions(s.actors) : s.actors[a] = B[i].actor
    <3>1. i \in Positions(s.actions) /\ B[i].actor = s.actions[i].actor
      BY <1>2 DEF SameShape
    <3>2. QED
      BY <2>1, <3>1 DEF ActorsAreDeclared
  <2>3. QED
    BY <2>1, <2>2 DEF ActorsAreDeclared
<1>6. QED
  BY <1>2, <1>4, <1>5

\* What is selected for a valid seed is applied to it.
LEMMA SelectedApplies ==
  ASSUME NEW s \in Seeds["benchmark"], SeedValid("benchmark", s), NEW entry \in SelectedRequests(s)
  PROVE  /\ IsApplied("benchmark", entry, InitialState(BaseActions(s)),
                      Apply("benchmark", entry, InitialState(BaseActions(s))))
         /\ entry.operatorId = StepOutcome => entry.outcome \in {"return", "throw"}
<1> DEFINE B == BaseActions(s)
           st == InitialState(B)
           after == Apply("benchmark", entry, st)
           runIds == Runs([actions |-> B])
<1>1. /\ Positions(B) = Positions(s.actions)
      /\ Len(s.actions) \in Nat
      /\ SameShape(s.actions, B)
  BY BaseIsAState, SeedFacts, BaseIsValid DEF Variants
<1>2. /\ runIds = Runs(s)
      /\ Runs(s) \subseteq Positions(s.actions)
      /\ Producers(s) \subseteq Positions(s.actions)
  <2> HIDE DEF B
  <2>1. Runs([actions |-> s.actions]) = Runs(s) /\ Producers([actions |-> s.actions]) = Producers(s)
    BY DEF Runs, Producers
  <2>2. QED
    BY <1>1, <2>1, SameRuns
<1>3. st.actions = B /\ st.controls = <<>>
  BY DEF InitialState
<1>4. WithControl(entry, st) = [actions |-> st.actions, controls |-> Append(st.controls, Control(entry))]
  BY DEF WithControl, InitialState
<1>5. after = ApplyBenchmarkOperator(entry, st)
  BY DEF Apply
<1>6. CASE entry \in TimeoutRequests(s)
  <2> DEFINE used == {i \in Producers(s) :
                 \E j \in Runs(s) : j > i /\ s.actions[j].tx = s.actions[i].bind}
             first == CHOOSE i \in used : \A j \in used : i <= j
  <2>1. used # {} /\ entry = [operatorId |-> TimeAdvance, ids |-> <<first>>,
                              advanceMs |-> s.actions[first].timeoutMs + 1, outcome |-> "none"]
    BY <1>6 DEF TimeoutRequests
  <2>2. first \in Positions(s.actions)
    <3>1. used \in SUBSET Nat /\ used \subseteq Positions(s.actions)
      BY <1>2 DEF Positions
    <3> HIDE DEF used
    <3>2. \E i \in used : \A j \in used : i <= j
      BY <2>1, <3>1, SmallestExists
    <3>3. QED
      BY <3>1, <3>2
  <2>3. s.actions[first].timeoutMs \in 0..(AdvanceMax - 1)
    <3> HIDE DEF first
    <3> QED BY <2>2, SeedFacts DEF Variants
  <2>4. TimeAdvanceApplies(entry, st.actions)
    <3> HIDE DEF first
    <3>1. entry.advanceMs \in 1..AdvanceMax
      BY <2>1, <2>3, LimitsAssumption
    <3>2. entry.ids[1] = first
      BY <2>1
    <3>3. QED
      BY <1>1, <1>3, <2>2, <3>1, <3>2 DEF TimeAdvanceApplies
  <2>5. entry.operatorId = TimeAdvance
    BY <2>1
  <2>6. after = WithControl(entry, st)
    <3> HIDE DEF st
    <3> QED BY <1>5, <2>4, <2>5 DEF ApplyBenchmarkOperator, TimeAdvance, ReleaseOrder, StepOutcome
  <2>7. QED
    <3> QED BY <1>4, <2>5, <2>6 DEF IsApplied, TimeAdvance, ReleaseOrder, StepOutcome
<1>7. CASE entry \in OrderRequests(s)
  <2> DEFINE gated == {i \in Runs(s) : s.actions[i].gate}
             nth(n) == CHOOSE i \in gated : Renumbered(gated, i) = n
             x == nth(2)
             y == nth(1)
  <2>1. ~(Cardinality(gated) < 2) /\ entry = [operatorId |-> ReleaseOrder, ids |-> <<x, y>>,
                                           advanceMs |-> 0, outcome |-> "none"]
    BY <1>7 DEF OrderRequests
  <2>2. x \in gated /\ y \in gated /\ x # y
    <3>1. gated \in SUBSET (1..Len(s.actions))
      BY <1>2 DEF Positions
    <3> HIDE DEF gated
    <3>2. /\ Cardinality(gated) \in Nat
          /\ \A n \in 1..Cardinality(gated) : \E i \in gated : Renumbered(gated, i) = n
      BY <1>1, <3>1, NewNumbers
    <3>3. 1 \in 1..Cardinality(gated) /\ 2 \in 1..Cardinality(gated)
      BY <2>1, <3>2
    <3>4. nth(1) \in gated /\ Renumbered(gated, nth(1)) = 1
      BY <3>2, <3>3
    <3>5. nth(2) \in gated /\ Renumbered(gated, nth(2)) = 2
      BY <3>2, <3>3
    <3>6. QED
      BY <3>4, <3>5
  <2>3. \A i \in gated : i \in runIds /\ B[i].gate
    <3> SUFFICES ASSUME NEW i \in gated PROVE i \in runIds /\ B[i].gate
      OBVIOUS
    <3>1. i \in Positions(s.actions) /\ i \in runIds /\ s.actions[i].gate
      BY <1>2
    <3>2. B[i] = [id |-> i, actionId |-> s.actions[i].actionId, actor |-> s.actions[i].actor,
                    bind |-> s.actions[i].bind, tx |-> s.actions[i].tx,
                    outcomes |-> s.actions[i].outcomes, retry |-> s.actions[i].retry,
                    gate |-> s.actions[i].gate, timeoutMs |-> s.actions[i].timeoutMs]
      BY <3>1, BaseIsAState DEF Variants
    <3>3. QED
      BY <3>1, <3>2
  <2> HIDE DEF x, y
  <2>4. entry.ids = <<x, y>> /\ entry.operatorId = ReleaseOrder
    BY <2>1
  <2>5. Len(entry.ids) >= 2 /\ Distinct(entry.ids) /\ Range(entry.ids) = {x, y}
    <3>1. DOMAIN <<x, y>> = 1..2 /\ <<x, y>>[1] = x /\ <<x, y>>[2] = y /\ Len(<<x, y>>) = 2
      OBVIOUS
    <3>2. Distinct(<<x, y>>)
      BY <2>2, <3>1 DEF Distinct, Positions
    <3>3. Range(<<x, y>>) = {x, y}
      BY <3>1 DEF Range
    <3>4. QED
      BY <2>4, <3>1, <3>2, <3>3
  <2>6. \A id \in Range(entry.ids) : id \in Runs([actions |-> st.actions]) /\ st.actions[id].gate
    <3> HIDE DEF B, gated
    <3> QED BY <1>3, <2>2, <2>3, <2>5
  <2>7. after = WithControl(entry, st)
    <3> HIDE DEF st
    <3> QED BY <1>5, <2>4, <2>5, <2>6 DEF ApplyBenchmarkOperator, TimeAdvance, ReleaseOrder, StepOutcome
  <2>8. QED
    <3> QED BY <1>4, <2>4, <2>7 DEF IsApplied, TimeAdvance, ReleaseOrder, StepOutcome
<1>8. CASE entry \in FaultRequests(s)
  <2> DEFINE last == Max(Runs(s))
             o == IF s.actions[last].outcomes[1] = "return" THEN "throw" ELSE "return"
  <2>1. Runs(s) # {} /\ entry = [operatorId |-> StepOutcome, ids |-> <<last>>, advanceMs |-> 0,
                                  outcome |-> o]
    BY <1>8 DEF FaultRequests
  <2>2. last \in Runs(s)
    <3>1. Runs(s) \in SUBSET (1..Len(s.actions))
      BY <1>2 DEF Positions
    <3>2. \E c \in Runs(s) : \A other \in Runs(s) : c >= other
      BY <1>1, <2>1, <3>1, LargestExists
    <3>3. QED
      BY <3>2 DEF Max
  <2>3. o \in {"return", "throw"}
    OBVIOUS
  <2> HIDE DEF o, last
  <2>4. entry.operatorId = StepOutcome /\ entry.ids[1] = last /\ entry.outcome = o
    BY <2>1
  <2>5. entry.ids[1] \in Runs([actions |-> st.actions])
    <3> HIDE DEF B
    <3> QED BY <1>2, <1>3, <2>2, <2>4
  <2>6. after = [st EXCEPT !.actions[entry.ids[1]] =
            [@ EXCEPT !.outcomes = <<entry.outcome>>, !.retry = 0]]
    <3> HIDE DEF st
    <3>1. entry.outcome # "return-with-error"
      BY <2>3, <2>4
    <3> QED BY <1>5, <2>4, <2>5, <3>1 DEF ApplyBenchmarkOperator, TimeAdvance, ReleaseOrder, StepOutcome
  <2>7. after = [actions |-> [st.actions EXCEPT ![entry.ids[1]] = Faulted("benchmark", entry, @)],
                   controls |-> st.controls]
    BY <2>6 DEF Faulted, InitialState
  <2>8. QED
    <3> QED BY <2>3, <2>4, <2>5, <2>7 DEF IsApplied, StepOutcome
<1>9. QED
  BY <1>6, <1>7, <1>8 DEF SelectedRequests

\* An action a fault at most has changed has the shape of the original.
LEMMA StateHasShape ==
  ASSUME NEW base, Len(base) \in Nat, NEW st, IsState(st, base)
  PROVE  /\ SameShape(base, st.actions)
         /\ \A i \in Positions(base) : st.actions[i].id = base[i].id
<1>1. Positions(st.actions) = Positions(base)
  BY StateFacts
<1>2. ASSUME NEW i \in Positions(base)
      PROVE  /\ base[i].actionId = st.actions[i].actionId
             /\ base[i].actor = st.actions[i].actor
             /\ base[i].bind = st.actions[i].bind
             /\ base[i].tx = st.actions[i].tx
             /\ base[i].timeoutMs = st.actions[i].timeoutMs
             /\ st.actions[i].id = base[i].id
  <2> DEFINE a == st.actions[i]
             b == base[i]
  <2>1. Made(a, b)
    BY DEF IsState
  <2>2. /\ b.actionId = a.actionId /\ b.actor = a.actor /\ b.bind = a.bind
        /\ b.tx = a.tx /\ b.timeoutMs = a.timeoutMs /\ a.id = b.id
    <3> HIDE DEF a, b
    <3>1. a = [id |-> b.id, actionId |-> b.actionId, actor |-> b.actor, bind |-> b.bind,
               tx |-> b.tx, outcomes |-> a.outcomes, retry |-> a.retry, gate |-> b.gate,
               timeoutMs |-> b.timeoutMs]
      BY <2>1 DEF Made
    <3>2. QED
      BY <3>1
  <2>3. QED
    BY <2>2
<1>3. QED
  BY <1>1, <1>2 DEF SameShape

\* After a fault of one outcome the actions are valid still: no retries are left that
\* would ask for more outcomes.
LEMMA FaultedIsValid ==
  ASSUME NEW base, Len(base) \in Nat, ArgumentsValid("benchmark", base),
         NEW st, IsState(st, base), st.actions = base, NEW entry, NEW after,
         IsApplied("benchmark", entry, st, after),
         entry.operatorId = StepOutcome => entry.outcome \in {"return", "throw"}
  PROVE  ArgumentsValid("benchmark", after.actions)
<1>1. IsState(after, base)
  BY AppliedIsAState
<1>2. SameShape(base, after.actions) /\ Runs([actions |-> after.actions]) = Runs([actions |-> base])
  BY <1>1, StateHasShape, StateFacts
<1>3. ASSUME NEW i \in Runs([actions |-> base])
      PROVE  OutcomesValid("benchmark", after.actions[i])
  <2>1. i \in Positions(base) /\ OutcomesValid("benchmark", base[i])
    BY DEF Runs, ArgumentsValid
  <2>2. CASE entry.operatorId = StepOutcome
    <3> DEFINE j == entry.ids[1]
               o == entry.outcome
    <3>1. after.actions = [base EXCEPT ![j] = Faulted("benchmark", entry, base[j])]
      BY <2>2 DEF IsApplied
    <3>2. DOMAIN base = Positions(base)
      BY StateFacts
    <3>3. CASE i # j
      <4>1. after.actions[i] = base[i]
        <5> HIDE DEF j
        <5> QED BY <2>1, <3>1, <3>2, <3>3
      <4>2. QED
        BY <2>1, <4>1
    <3>4. CASE i = j
      <4>1. after.actions[i] = Faulted("benchmark", entry, base[i])
        <5> HIDE DEF j
        <5> QED BY <2>1, <3>1, <3>2, <3>4
      <4>2. Made(base[i], base[i])
        BY <2>1 DEF IsState
      <4>3. after.actions[i].outcomes = <<o>> /\ after.actions[i].retry = 0
        BY <4>1, <4>2, FaultedIsMade
      <4>4. Len(<<o>>) = 1 /\ \A n \in Positions(<<o>>) : <<o>>[n] \in {"return", "throw"}
        BY <2>2 DEF Positions
      <4> HIDE DEF o
      <4>5. QED
        BY <4>3, <4>4 DEF OutcomesValid
    <3>5. QED
      BY <3>3, <3>4
  <2>3. CASE entry.operatorId # StepOutcome
    BY <2>1, <2>3 DEF IsApplied
  <2>4. QED
    BY <2>2, <2>3
<1>4. QED
  BY <1>2, <1>3, StillValid

\* The replay of one recorded operator is its application.
LEMMA OneRecordReplays ==
  ASSUME NEW v, NEW base, NEW entry, NEW after, after = Apply(v, entry, InitialState(base)),
         after # Refused, NEW sp, sp.base = base, FinalOf(sp) = after, Len(sp.transformations) = 1,
         sp.transformations[1] = RecordOf(entry, InitialState(base), after)
  PROVE  ReplaysAsRecorded(v, sp)
<1> DEFINE ts == sp.transformations
           r == RecordOf(entry, InitialState(base), after)
           f == StatesOf(v, sp.base, ts)
<1>1. IsStates(f, v, sp.base, ts, 1)
  <2>1. Len(ts) \in Nat
    OBVIOUS
  <2> HIDE DEF ts
  <2>2. IsStates(f, v, sp.base, ts, Len(ts))
    BY <2>1, StatesAreDefined
  <2>3. QED
    BY <2>2 DEF ts
<1>2. f[0] = InitialState(base) /\ f[1] = Apply(v, ts[1], f[0])
  <2> HIDE DEF ts, f
  <2> QED BY <1>1 DEF IsStates
<1>3. /\ r.operatorId = entry.operatorId /\ r.registration = entry.operatorId
      /\ r.ids = entry.ids /\ r.advanceMs = entry.advanceMs /\ r.outcome = entry.outcome
      /\ r.before = InitialState(base) /\ r.after = after
  BY DEF RecordOf
<1>4. Apply(v, r, InitialState(base)) = Apply(v, entry, InitialState(base))
  <2> HIDE DEF r
  <2> QED BY <1>3 DEF Apply, ApplyOperatorRecord, ApplyBenchmarkOperator, TimeAdvanceApplies,
                      WithControl, Control
<1>5. f[1] = after
  <2> HIDE DEF f, r
  <2> QED BY <1>2, <1>4 DEF r
<1>6. Positions(ts) = {1}
  BY DEF Positions
<1>7. \A k \in Positions(ts) :
        /\ ts[k].registration = ts[k].operatorId
        /\ ts[k].before = f[k - 1]
        /\ f[k] # Refused
        /\ ts[k].after = f[k]
  <2>1. ts[1] = r
    OBVIOUS
  <2> HIDE DEF f, r, ts
  <2> QED BY <1>2, <1>3, <1>5, <1>6, <2>1
<1>8. f[Len(ts)] = [actions |-> sp.transformed, controls |-> sp.controls]
  <2> HIDE DEF f
  <2> QED BY <1>5 DEF FinalOf
<1>9. QED
  BY <1>7, <1>8 DEF ReplaysAsRecorded

\* The spec of a request that was selected is accepted when it is put together.
LEMMA SelectedSpecIsValid ==
  ASSUME BuildInv, selected, Len(records) = Len(request), Cardinality(Runs(seed)) <= FixtureLimit
  PROVE  SeedValid(variant, seed) /\ ValidateSpec(variant, BuiltSpec, artifact)
<1>1. /\ variant = "benchmark" /\ seed \in Seeds["benchmark"] /\ SeedValid("benchmark", seed)
      /\ \E entry \in SelectedRequests(seed) : request = <<entry>>
  BY DEF BuildInv, InputsInv
<1>2. PICK entry \in SelectedRequests(seed) : request = <<entry>>
  BY <1>1
<1>3. Len(records) = 1 /\ request[1] = entry
  BY <1>2, SelectedAreRequests
<1>4. /\ History(records) /\ IsRecorded(1) /\ IsState(StateAfter(0), Base) /\ IsState(StateAfter(1), Base)
      /\ state = StateAfter(1) /\ StateAfter(0) = InitialState(Base)
  BY <1>3 DEF BuildInv, RecordsInv, StateAfter
<1>5. /\ records[1] = RecordOf(entry, InitialState(Base), state)
      /\ state = Apply("benchmark", entry, InitialState(Base))
      /\ state # Refused
  BY <1>1, <1>3, <1>4 DEF IsRecorded
<1>6. /\ IsApplied("benchmark", entry, InitialState(Base), state)
      /\ entry.operatorId = StepOutcome => entry.outcome \in {"return", "throw"}
  BY <1>1, <1>2, <1>5, SelectedApplies DEF Base
<1>7. /\ Len(Base) \in Nat
      /\ SameShape(seed.actions, Base)
      /\ ArgumentsValid("benchmark", Base)
      /\ ActorsAreDeclared([actors |-> seed.actors, actions |-> Base])
      /\ \A i \in Positions(Base) : Base[i].id = i
  <2> DEFINE B == BaseActions(seed)
  <2>1. "benchmark" \in Variants
    BY DEF Variants
  <2>2. /\ Len(B) \in Nat /\ Positions(B) = Positions(seed.actions)
        /\ \A i \in Positions(seed.actions) :
              B[i] = [id |-> i, actionId |-> seed.actions[i].actionId, actor |-> seed.actions[i].actor,
                    bind |-> seed.actions[i].bind, tx |-> seed.actions[i].tx,
                    outcomes |-> seed.actions[i].outcomes, retry |-> seed.actions[i].retry,
                    gate |-> seed.actions[i].gate, timeoutMs |-> seed.actions[i].timeoutMs]
    BY <1>1, <2>1, BaseIsAState
  <2>3. /\ SameShape(seed.actions, B)
        /\ ArgumentsValid("benchmark", B)
        /\ ActorsAreDeclared([actors |-> seed.actors, actions |-> B])
    BY <1>1, <2>1, BaseIsValid
  <2>4. ASSUME NEW i \in Positions(B)
        PROVE  B[i].id = i
    <3> DEFINE a == seed.actions[i]
    <3>1. B[i] = [id |-> i, actionId |-> a.actionId, actor |-> a.actor, bind |-> a.bind,
                  tx |-> a.tx, outcomes |-> a.outcomes, retry |-> a.retry, gate |-> a.gate,
                  timeoutMs |-> a.timeoutMs]
      BY <2>2
    <3> HIDE DEF B, a
    <3>2. QED
      BY <3>1
  <2>5. QED
    BY <2>2, <2>3, <2>4 DEF Base
<1>8. /\ Len(state.actions) = Len(Base)
      /\ Runs([actions |-> state.actions]) = Runs(seed)
  <2>1. Runs([actions |-> seed.actions]) = Runs(seed)
    BY DEF Runs
  <2>2. QED
    BY <1>4, <1>7, <2>1, StateFacts, SameRuns
<1>9. ArgumentsValid("benchmark", state.actions)
  <2>1. InitialState(Base).actions = Base
    BY DEF InitialState
  <2>2. QED
    BY <1>4, <1>6, <1>7, <2>1, FaultedIsValid
<1> DEFINE sp == BuiltSpec
<1>10. /\ sp.actors = seed.actors /\ sp.base = Base /\ sp.transformed = state.actions
       /\ sp.transformations = records /\ sp.controls = state.controls
       /\ sp.fixtures = Fixtures(state.actions, artifact)
  BY DEF BuiltSpec, Spec0, Base
<1> HIDE DEF sp
<1>11. BaseValid("benchmark", sp)
  <2>1. Len(records) <= TransformationLimit
    <3>1. records # <<>>
      BY <1>3
    <3>2. QED
      BY <1>3, <3>1 DEF BuildInv, RecordsInv
  <2>2. seed.actors # <<>>
    BY <1>1 DEF SeedValid
  <2>3. QED
    BY <1>7, <1>8, <1>10, <2>1, <2>2 DEF BaseValid
<1>12. TransformationsValid("benchmark", sp)
  <2>1. sp.transformations # <<>>
    <3>1. Len(sp.transformations) = 1 /\ Len(<<>>) = 0
      BY <1>3, <1>10, HistoryStarts
    <3>2. QED
      BY <3>1
  <2>2. IdentityKept(sp)
    <3>1. SameShape(Base, state.actions) /\ \A i \in Positions(Base) : state.actions[i].id = Base[i].id
      BY <1>4, <1>7, StateHasShape
    <3>2. QED
      BY <1>10, <3>1 DEF IdentityKept, SameShape
  <2>3. FinalOf(sp) = state
    <3>1. state = [actions |-> state.actions, controls |-> state.controls]
      BY <1>4 DEF IsState
    <3>2. QED
      BY <1>10, <3>1 DEF FinalOf
  <2>4. ReplaysAsRecorded("benchmark", sp)
    BY <1>3, <1>5, <1>10, <2>3, OneRecordReplays
  <2>5. QED
    BY <1>9, <1>10, <2>1, <2>2, <2>4 DEF TransformationsValid
<1>13. ValidateBenchmarkSpec(sp, artifact)
  BY <1>8, <1>10, <1>11, <1>12 DEF ValidateBenchmarkSpec
<1>14. QED
  BY <1>1, <1>13 DEF ValidateSpec, sp

\* The first entry of a request that was selected is applied.
LEMMA SelectedEntryApplies ==
  ASSUME BuildInv, selected, Len(records) < Len(request)
  PROVE  /\ SeedValid(variant, seed)
         /\ Len(request) <= TransformationLimit
         /\ Apply(variant, request[Len(records) + 1], state) # Refused
<1>1. /\ variant = "benchmark" /\ seed \in Seeds["benchmark"] /\ SeedValid("benchmark", seed)
      /\ \E entry \in SelectedRequests(seed) : request = <<entry>>
  BY DEF BuildInv, InputsInv
<1>2. PICK entry \in SelectedRequests(seed) : request = <<entry>>
  BY <1>1
<1>3. Len(request) = 1 /\ request[1] = entry
  BY <1>2, SelectedAreRequests
<1>4. Len(records) = 0
  <2>1. Len(records) \in Nat
    BY HistoryGrows DEF BuildInv, RecordsInv
  <2>2. QED
    BY <1>3, <2>1
<1>5. state = InitialState(Base) /\ IsState(state, Base)
  BY <1>4 DEF BuildInv, RecordsInv, StateAfter
<1> DEFINE after == Apply("benchmark", entry, state)
<1>6. IsApplied("benchmark", entry, state, after)
  BY <1>1, <1>2, <1>5, SelectedApplies DEF Base
<1>7. Len(Base) \in Nat /\ Len(Base) # 0
  <2>1. Len(Base) = Len(seed.actions) /\ Len(Base) \in Nat
    BY <1>1, BaseIsAState DEF Base, Variants
  <2>2. seed.actions # <<>> /\ seed.actions = [i \in Positions(seed.actions) |-> seed.actions[i]]
    BY <1>1, SeedFacts DEF SeedValid, Variants
  <2>3. Len(seed.actions) # 0
    <3> SUFFICES ASSUME Len(seed.actions) = 0 PROVE FALSE
      OBVIOUS
    <3>1. Positions(seed.actions) = {}
      BY DEF Positions
    <3>2. seed.actions = [i \in {} |-> seed.actions[i]]
      BY <2>2, <3>1
    <3>3. <<>> = [i \in {} |-> seed.actions[i]]
      OBVIOUS
    <3>4. QED
      BY <2>2, <3>2, <3>3
  <2>4. QED
    BY <2>1, <2>3
<1>8. after # Refused
  <2> HIDE DEF after
  <2>1. IsState(after, Base)
    BY <1>5, <1>6, <1>7, AppliedIsAState
  <2>2. QED
    BY <1>7, <2>1, StateFacts
<1>9. QED
  BY <1>1, <1>3, <1>4, <1>8, LimitsAssumption

\* A request that selectPhase4OperatorRequests picks for a valid seed is never refused: its
\* advance names a transaction that a run uses and passes its timeout, its order two gated
\* runs, and its fault ends the retries that would ask for more outcomes.
THEOREM SelectedRequestsAreBuilt == TransformationSpec => []SelectedRequestsBuild
<1>1. TransformationInit => BuildInv /\ SelectedRequestsBuild
  BY InitBuild DEF TransformationInit, SelectedRequestsBuild
<1>2. BuildInv /\ SelectedRequestsBuild /\ [TransformationNext]_transformationVars => (BuildInv /\ SelectedRequestsBuild)'
  <2>1. SUFFICES ASSUME BuildInv, SelectedRequestsBuild, [TransformationNext]_transformationVars,
                        selected', (Cardinality(Runs(seed)) <= FixtureLimit)'
                 PROVE  phase' # "refused"
    BY NextBuild DEF SelectedRequestsBuild
  <2>2. UNCHANGED <<variant, seed, request, artifact, selected>>
    BY <2>1 DEF TransformationNext, ApplyEntry, Finish, Store, Judge, transformationVars
  <2>3. selected /\ Cardinality(Runs(seed)) <= FixtureLimit /\ phase # "refused"
    BY <2>1, <2>2 DEF SelectedRequestsBuild
  <2>4. CASE ApplyEntry
    BY <2>1, <2>3, <2>4, SelectedEntryApplies, LimitsAssumption DEF ApplyEntry, BuildInv, InputsInv, IsRequest
  <2>5. CASE Finish
    BY <2>1, <2>3, <2>5, SelectedSpecIsValid DEF Finish, BuiltSpec
  <2>6. CASE Store \/ Judge \/ UNCHANGED transformationVars
    BY <2>3, <2>6 DEF Store, Judge, transformationVars
  <2>7. QED
    BY <2>1, <2>4, <2>5, <2>6 DEF TransformationNext
<1>3. QED
  BY <1>1, <1>2, PTL DEF TransformationSpec
=============================================================================
