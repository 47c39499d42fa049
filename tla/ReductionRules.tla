---------------------------- MODULE ReductionRules ----------------------------
(***************************************************************************)
(* What a reduction input is, what may be removed from it and what is      *)
(* removed along with it (src/v03-reduction.mjs 28-98), and when the rest  *)
(* is still a spec (prepare, through src/v03-spec.mjs and                  *)
(* src/v03-operators.mjs).                                                 *)
(*                                                                         *)
(* An input is a record of actors, actions, transformations and the        *)
(* registered invariant.  Action instances are their positions, as         *)
(* actionId(index) numbers them.  Of the arguments only those a rule looks *)
(* at are kept: the transaction handle, the outcome, the timeout and the   *)
(* virtual milliseconds of an advance.  Schema checks of single fields are *)
(* left out: a removal copies every field it keeps.                        *)
(***************************************************************************)
EXTENDS Integers, Sequences, FiniteSets, FiniteSetsExt

RuleOrder == <<"actor", "action", "binding", "schedule-control", "fault", "fixture">>

Positions(seq) == 1..Len(seq)
Advances(input) ==
  {t \in Positions(input.transformations) :
     input.transformations[t].operatorId = "time.advance/v1"}
ReleaseOrders(input) ==
  {t \in Positions(input.transformations) :
     input.transformations[t].operatorId = "schedule.release-order/v1"}
Faults(input) ==
  {t \in Positions(input.transformations) :
     input.transformations[t].operatorId = "fault.step-outcome/v1"}
Runs(input) == {i \in Positions(input.actions) : input.actions[i].actionId = "tx.run"}
Producers(input) == {i \in Positions(input.actions) : input.actions[i].bind # "null"}

-----------------------------------------------------------------------------
\* reductionSelectors: one selector per rule and position.  A binding is named by
\* its producer's position: names are unique in a valid input.
Selectors(input) ==
       [kind: {"actor"}, index: Positions(input.actors)]
  \cup [kind: {"action"}, index: Positions(input.actions)]
  \cup [kind: {"binding"}, index: Producers(input)]
  \cup [kind: {"schedule-control"}, index: Positions(input.transformations) \ Faults(input)]
  \cup [kind: {"fault"}, index: Faults(input)]
  \cup [kind: {"fixture"}, index: Runs(input)]

\* The order of the list: by rule, then by position.
Rule(selector) == CHOOSE r \in Positions(RuleOrder) : RuleOrder[r] = selector.kind
Precedes(s1, s2) ==
  \/ Rule(s1) < Rule(s2)
  \/ Rule(s1) = Rule(s2) /\ s1.index <= s2.index

\* The selector the scan is at when it has passed the others.
FirstOf(selectors) ==
  CHOOSE s \in selectors : \A other \in selectors : Precedes(s, other)

-----------------------------------------------------------------------------
\* removeDependencyClosure.
Targets(input, selector) ==
  {i \in Positions(input.actions) :
     \/ selector.kind = "actor" /\ input.actions[i].actor = input.actors[selector.index]
     \/ selector.kind \in {"action", "fixture", "binding"} /\ i = selector.index}

\* The runs and commits that use the handle an action produces.
Consumers(input, producer) ==
  {i \in Positions(input.actions) :
     /\ input.actions[i].actionId \in {"tx.run", "tx.commit"}
     /\ input.actions[producer].bind # "null"
     /\ input.actions[i].tx = input.actions[producer].bind}

\* The do-while loop: consumers are added until none is missing.
RemovedActions(input, selector) ==
  LET removed[round \in 0..Len(input.actions)] ==
        IF round = 0 THEN Targets(input, selector)
        ELSE UNION {{i} \cup Consumers(input, i) : i \in removed[round - 1]}
  IN removed[Len(input.actions)]

\* Plausible bug: the requests that refer to a removed action stay.
RemovedSelectedRequest(input, selector) ==
  {t \in Positions(input.transformations) :
     selector.kind \in {"schedule-control", "fault"} /\ t = selector.index}

RemovedRequests(input, selector) ==
  {t \in Positions(input.transformations) :
     \/ selector.kind \in {"schedule-control", "fault"} /\ t = selector.index
     \/ \E k \in Positions(input.transformations[t].ids) :
          input.transformations[t].ids[k] \in RemovedActions(input, selector)}

\* The new number of a kept position, and a sequence without the others.
Renumbered(kept, i) == Cardinality({j \in kept : j <= i})
Keep(seq, kept) ==
  [n \in 1..Cardinality(kept) |-> seq[CHOOSE i \in kept : Renumbered(kept, i) = n]]

KeptActions(input, selector) ==
  Positions(input.actions) \ RemovedActions(input, selector)
KeptRequests(input, selector) ==
  Positions(input.transformations) \ RemovedRequests(input, selector)
KeptActors(input, selector) ==
  {a \in Positions(input.actors) :
     /\ ~(selector.kind = "actor" /\ selector.index = a)
     /\ \E i \in KeptActions(input, selector) : input.actions[i].actor = input.actors[a]}

Remapped(transformation, kept) ==
  [transformation EXCEPT !.ids =
     [k \in Positions(transformation.ids) |-> Renumbered(kept, transformation.ids[k])]]

Remove(input, selector) ==
  LET kept == KeptActions(input, selector)
      requests == Keep(input.transformations, KeptRequests(input, selector))
  IN [input EXCEPT
        !.actors = Keep(input.actors, KeptActors(input, selector)),
        !.actions = Keep(input.actions, kept),
        !.transformations = [t \in Positions(requests) |-> Remapped(requests[t], kept)]]

-----------------------------------------------------------------------------
\* The structure validateNightmareSeed, applyOperatorRecord and
\* validateScheduleControl ask for.
HandlesAreBound(input) ==
  \A i \in Positions(input.actions) :
    input.actions[i].actionId \in {"tx.run", "tx.commit"} =>
      \E j \in 1..(i - 1) :
        input.actions[j].bind # "null" /\ input.actions[j].bind = input.actions[i].tx

BindingsAreUnique(input) ==
  \A i, j \in Producers(input) :
    input.actions[i].bind = input.actions[j].bind => i = j

ActorsAreDeclared(input) ==
  /\ \A a, b \in Positions(input.actors) : input.actors[a] = input.actors[b] => a = b
  /\ \A i \in Positions(input.actions) :
       \E a \in Positions(input.actors) : input.actors[a] = input.actions[i].actor

RequestsApply(input) ==
  \A t \in Positions(input.transformations) :
    LET ids == input.transformations[t].ids IN
    /\ \A k \in Positions(ids) : ids[k] \in Positions(input.actions)
    /\ t \in Faults(input) \cup ReleaseOrders(input) =>
         \A k \in Positions(ids) : ids[k] \in Runs(input)
    /\ t \in ReleaseOrders(input) =>
         Len(ids) >= 2 /\ \A k, l \in Positions(ids) : ids[k] = ids[l] => k = l

Structure(input) ==
  /\ HandlesAreBound(input)
  /\ BindingsAreUnique(input)
  /\ ActorsAreDeclared(input)
  /\ RequestsApply(input)

\* The outcome of a run after the faults: the last one that targets it decides.
FaultsOf(input, i) == {t \in Faults(input) : input.transformations[t].ids[1] = i}
OutcomeOf(input, i) ==
  IF FaultsOf(input, i) = {} THEN input.actions[i].outcome
  ELSE input.transformations[Max(FaultsOf(input, i))].outcome

\* causalAdvanceAnchors and validateInvariantApplicability: the seed's own final run
\* and the transformed one have the outcome the invariant asks for, and the total
\* timeout is passed between the transaction's start and the final run.
Gated(input) ==
  UNION {{input.transformations[t].ids[k] : k \in Positions(input.transformations[t].ids)} :
           t \in ReleaseOrders(input)}

\* Plausible bug: the advances that wait for a gated run count as well.
AdvancesPastTimeoutOfGated(input, finalRun) ==
  \E producer \in Producers(input) :
    /\ input.actions[producer].bind = input.actions[finalRun].tx
    /\ LET effective == {t \in Advances(input) :
                            input.transformations[t].ids[1] \in producer..(finalRun - 1)}
           advanceMs(t) == input.transformations[t].advanceMs
       IN MapThenSumSet(advanceMs, effective) > input.actions[producer].timeoutMs

AdvancesPastTimeout(input, finalRun) ==
  \E producer \in Producers(input) :
    /\ input.actions[producer].bind = input.actions[finalRun].tx
    /\ LET anchors == producer..(finalRun - 1) \ Gated(input)
           effective == {t \in Advances(input) : input.transformations[t].ids[1] \in anchors}
           advanceMs(t) == input.transformations[t].advanceMs
       IN MapThenSumSet(advanceMs, effective) > input.actions[producer].timeoutMs

Applicable(input) ==
  /\ Runs(input) # {}
  /\ LET finalRun == Max(Runs(input))
         expected == IF input.invariant = "tx.original-error-propagation"
                     THEN "throw" ELSE "return"
     IN /\ input.actions[finalRun].outcome = expected
        /\ OutcomeOf(input, finalRun) = expected
        /\ input.invariant = "tx.total-timeout" => AdvancesPastTimeout(input, finalRun)

\* prepare does not throw: the rest is a spec, and its plan can be built.
Valid(input) ==
  /\ input.actors # <<>>
  /\ input.actions # <<>>
  /\ Structure(input)
  /\ Applicable(input)
=============================================================================
