-------------------------------- MODULE MCSpecs --------------------------------
(***************************************************************************)
(* Reduction and Transformation on small inputs.  The two are separate     *)
(* programs with no variable in common: every behaviour is one of the one  *)
(* or of the other, and the one that does not run is at rest in a state in *)
(* which it is over, a reduction whose evaluate threw at once or a request *)
(* that was refused.                                                       *)
(***************************************************************************)
EXTENDS Reduction, Transformation
-----------------------------------------------------------------------------
\* Inputs of a reduction, after the seeds of contracts/ and test/v03-reduction.test.mjs.
ReduceStart(actor, name) ==
  [actionId |-> "tx.start", actor |-> actor, bind |-> name, tx |-> "none",
   outcome |-> "none", timeoutMs |-> 5]
ReduceRun(actor, name, outcome) ==
  [actionId |-> "tx.run", actor |-> actor, bind |-> "null", tx |-> name,
   outcome |-> outcome, timeoutMs |-> 0]
ReduceCommit(actor, name) ==
  [actionId |-> "tx.commit", actor |-> actor, bind |-> "null", tx |-> name,
   outcome |-> "none", timeoutMs |-> 0]

ReduceAdvance(id, ms) ==
  [operatorId |-> "time.advance/v1", ids |-> <<id>>, advanceMs |-> ms, outcome |-> "none"]
ReduceOrder(ids) ==
  [operatorId |-> "schedule.release-order/v1", ids |-> ids, advanceMs |-> 0,
   outcome |-> "none"]
ReduceFault(id, outcome) ==
  [operatorId |-> "fault.step-outcome/v1", ids |-> <<id>>, advanceMs |-> 0,
   outcome |-> outcome]

ReductionInput(actors, actions, transformations, invariant) ==
  [actors |-> actors, actions |-> actions, transformations |-> transformations,
   invariant |-> invariant]

\* The adopted spike arm: nothing can be removed.
SpikeInput ==
  ReductionInput(<<"checkout">>,
    <<ReduceStart("checkout", "tx"), ReduceRun("checkout", "tx", "return"),
      ReduceRun("checkout", "tx", "return")>>,
    <<ReduceAdvance(2, 6)>>, "tx.total-timeout")

\* Two advances, either of which the other makes redundant, and a commit.
TwoAdvances ==
  ReductionInput(<<"checkout">>,
    <<ReduceStart("checkout", "tx"), ReduceRun("checkout", "tx", "return"),
      ReduceCommit("checkout", "tx")>>,
    <<ReduceAdvance(1, 6), ReduceAdvance(3, 1), ReduceAdvance(1, 6)>>, "tx.total-timeout")

\* A faulted run before the final one.
FaultedStep ==
  ReductionInput(<<"checkout">>,
    <<ReduceStart("checkout", "tx"), ReduceRun("checkout", "tx", "return"),
      ReduceRun("checkout", "tx", "return")>>,
    <<ReduceFault(2, "throw")>>, "tx.successful-step-return")

\* Three steps of one transaction: many valid removals, which exhaust the budgets.
ThreeSteps ==
  ReductionInput(<<"checkout">>,
    <<ReduceStart("checkout", "tx")>> \o [i \in 1..3 |-> ReduceRun("checkout", "tx", "return")],
    <<>>, "tx.successful-step-return")

\* Two actors, two transactions, every kind of request.
TwoTransactions ==
  ReductionInput(<<"other", "checkout">>,
    <<ReduceStart("other", "other"), ReduceStart("checkout", "tx"),
      ReduceRun("checkout", "tx", "throw"), ReduceRun("other", "tx", "throw")>>,
    <<ReduceAdvance(3, 1), ReduceOrder(<<4, 3>>), ReduceFault(3, "throw")>>,
    "tx.original-error-propagation")

MCInputs == {SpikeInput, TwoAdvances, FaultedStep, ThreeSteps, TwoTransactions}

-----------------------------------------------------------------------------
\* Seeds and requests, after those of contracts/ and test/v03-benchmark-spec.test.mjs.
SeedStart(name) ==
  [actionId |-> "tx.start", actor |-> "checkout", bind |-> name, tx |-> "none",
   outcomes |-> <<>>, retry |-> 0, gate |-> FALSE, timeoutMs |-> 1]
SeedRun(name, outcomes, gate) ==
  [actionId |-> "tx.run", actor |-> "checkout", bind |-> "null", tx |-> name,
   outcomes |-> outcomes, retry |-> IF Len(outcomes) = 1 THEN 0 ELSE Len(outcomes),
   gate |-> gate, timeoutMs |-> 0]
SeedCommit(name) ==
  [actionId |-> "tx.commit", actor |-> "checkout", bind |-> "null", tx |-> name,
   outcomes |-> <<>>, retry |-> 0, gate |-> FALSE, timeoutMs |-> 0]
SeedOf(actions, invariant) ==
  [actors |-> <<"checkout">>, actions |-> actions, invariant |-> invariant]

AdvanceEntry(id, ms) ==
  [operatorId |-> TimeAdvance, ids |-> <<id>>, advanceMs |-> ms, outcome |-> "none"]
OrderEntry(ids) ==
  [operatorId |-> ReleaseOrder, ids |-> ids, advanceMs |-> 0, outcome |-> "none"]
FaultEntry(id, outcome) ==
  [operatorId |-> StepOutcome, ids |-> <<id>>, advanceMs |-> 0, outcome |-> outcome]

TwoSteps(first, second, invariant) ==
  SeedOf(<<SeedStart("tx"), SeedRun("tx", <<first>>, FALSE),
           SeedRun("tx", <<second>>, FALSE)>>, invariant)

\* Its run comes before the start that binds its transaction.
UnboundSeed ==
  SeedOf(<<SeedRun("tx", <<"return">>, FALSE), SeedStart("tx")>>, "tx.successful-step-return")

MCSeeds ==
  [phase3 |->
     {TwoSteps("return", "return", "tx.total-timeout"),
      TwoSteps("return", "throw", "tx.original-error-propagation"),
      TwoSteps("throw", "return", "tx.successful-step-return"),
      UnboundSeed,
      SeedOf(<<SeedStart("tx")>> \o [i \in 1..3 |-> SeedRun("tx", <<"return">>, FALSE)],
           "tx.successful-step-return")},
   benchmark |->
     {SeedOf(<<SeedStart("tx"), SeedRun("tx", <<"throw", "return">>, TRUE),
               SeedRun("tx", <<"return">>, TRUE)>>, "tx.retry"),
      SeedOf(<<SeedStart("tx"), SeedStart("other"), SeedRun("other", <<"throw">>, FALSE),
               SeedCommit("other"), SeedRun("tx", <<"throw", "return">>, TRUE)>>, "tx.retry"),
      SeedOf(<<SeedStart("tx"), SeedCommit("tx")>>, "tx.retry")}]

Entries == {AdvanceEntry(1, 1), AdvanceEntry(2, 2), OrderEntry(<<3, 2>>),
            FaultEntry(2, "throw"), FaultEntry(3, "throw"), FaultEntry(3, "return")}
Refusable == {AdvanceEntry(6, 1), AdvanceEntry(1, AdvanceMax + 1),
              OrderEntry(<<2>>), OrderEntry(<<2, 2>>), OrderEntry(<<1, 2>>),
              FaultEntry(1, "throw"), FaultEntry(3, "return-with-error"),
              FaultEntry(3, "throw-unnamed")}
MCRequests ==
  LET of(entries) == {<<>>} \cup {<<e>> : e \in entries \cup Refusable}
                       \cup {<<e, f>> : e \in entries, f \in entries}
                       \cup {<<e, e, e>> : e \in {AdvanceEntry(1, 1)}}
  IN [v \in Variants |-> of(Entries)]

-----------------------------------------------------------------------------
ReductionAtRest ==
  /\ input = SpikeInput /\ current = SpikeInput
  /\ stage = "thrown" /\ blocker = "null"
  /\ scanned = {} /\ attempts = <<>> /\ runs = <<>>
  /\ validAttempts = 0 /\ acceptedRemovals = 0

TransformationAtRest ==
  /\ variant = "phase3" /\ artifact = "clean" /\ selected = FALSE
  /\ seed = UnboundSeed /\ request = <<AdvanceEntry(1, 1)>>
  /\ phase = "refused"
  /\ state = InitialState(BaseActions(UnboundSeed)) /\ records = <<>>
  /\ spec = <<>> /\ plan = <<>>
  /\ reader = "none" /\ verdict = "none"

SpecsInit ==
  \/ Init /\ TransformationAtRest
  \/ TransformationInit /\ ReductionAtRest

SpecsNext ==
  \/ Next /\ UNCHANGED transformationVars
  \/ TransformationNext /\ UNCHANGED vars

SpecsSpec == SpecsInit /\ [][SpecsNext]_<<vars, transformationVars>>
=============================================================================
