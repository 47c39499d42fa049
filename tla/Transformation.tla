---------------------------- MODULE Transformation ----------------------------
(***************************************************************************)
(* How a seed and a request become a spec and its plan, and what the       *)
(* validators accept of a spec and a plan that were stored in between      *)
(* (src/v03-spec.mjs, src/v03-operators.mjs, src/v03-benchmark-spec.mjs    *)
(* and selectPhase4OperatorRequests of src/v03-benchmark-authoring.mjs).   *)
(*                                                                         *)
(* The two variants of the code, of Phase 3 and of the benchmark, share    *)
(* their shape: base actions, operators applied one after the other with a *)
(* digest of the state before and after each, and a validator that replays *)
(* them.  SHA-256 is taken as injective: a digest is what it was computed  *)
(* from.  A seed is a record of actors, actions and the invariant; of the  *)
(* arguments those are kept that a rule looks at.                          *)
(***************************************************************************)
EXTENDS ReductionRules

CONSTANTS Seeds,               \* for each variant, the seeds
          Requests,            \* for each variant, the entries of the requests
          AdvanceMax,          \* VIRTUAL_TIME_ADVANCE_LIMITS.maxMs
          TransformationLimit, \* TRANSFORMATION_LIMIT
          FixtureLimit         \* WIRE_LIMITS.fixtures

Variants == {"phase3", "benchmark"}
Artifacts == {"clean", "defect"}
TimeAdvance == "time.advance/v1"
ReleaseOrder == "schedule.release-order/v1"
StepOutcome == "fault.step-outcome/v1"

ASSUME LimitsAssumption ==
  /\ AdvanceMax \in Nat \ {0}
  /\ TransformationLimit \in Nat \ {0}
  /\ FixtureLimit \in Nat \ {0}

\* What the schemas say of seeds and requests; the limit of a timeout, 10000 ms, is far
\* below that of an advance, and an advance or a fault names one action.
ASSUME SeedsAssumption ==
  \A v \in Variants : Seeds[v] \subseteq
    [actors : Seq(STRING),
     actions : Seq([actionId : STRING, actor : STRING, bind : STRING, tx : STRING,
                    outcomes : Seq(STRING), retry : Nat, gate : BOOLEAN,
                    timeoutMs : 0..(AdvanceMax - 1)]),
     invariant : STRING]

ASSUME RequestsAssumption ==
  \A v \in Variants : Requests[v] \subseteq
    Seq({entry \in [operatorId : STRING, ids : Seq(Nat), advanceMs : Nat, outcome : STRING] :
           entry.operatorId \in {TimeAdvance, StepOutcome} => Len(entry.ids) = 1})

VARIABLES variant, seed, request, artifact,
          selected, \* the request is one selectPhase4OperatorRequests chose
          phase,    \* "building", "refused", "built", "stored", "judged"
          state,    \* the actions and schedule controls while operators are applied
          records,  \* the transformations recorded so far
          spec, plan,
          reader,   \* whom the stored pair is validated for
          verdict

transformationVars ==
  <<variant, seed, request, artifact, selected, phase, state, records, spec, plan,
    reader, verdict>>

-----------------------------------------------------------------------------
\* validateActionArguments and validateAction, over all actions in order.  Outcomes
\* are those of the attempts; "return-with-error" and "throw-unnamed" stand for
\* arguments the schema forbids.
OutcomesValid(v, action) ==
  /\ \A n \in Positions(action.outcomes) : action.outcomes[n] \in {"return", "throw"}
  /\ Len(action.outcomes) = IF v = "phase3" \/ action.retry = 0 THEN 1 ELSE action.retry

ArgumentsValid(v, actions) ==
  /\ HandlesAreBound([actions |-> actions])
  /\ BindingsAreUnique([actions |-> actions])
  /\ \A i \in Runs([actions |-> actions]) : OutcomesValid(v, actions[i])
  /\ v = "benchmark" =>
       \A i \in Producers([actions |-> actions]) : actions[i].timeoutMs >= 1

\* The invariant asks for an outcome of the final run and, unless the controls are
\* not known yet, for enough virtual time before it.
Expected(invariant) == IF invariant = "tx.original-error-propagation" THEN "throw" ELSE "return"

Anchors(actions, controls, producer, finalRun) ==
  producer..(finalRun - 1)
    \ UNION {Range(controls[c].ids) : c \in {c \in Positions(controls) : controls[c].ms = 0}}

TimeoutPassed(actions, controls, finalRun) ==
  \E producer \in Producers([actions |-> actions]) :
    /\ actions[producer].bind = actions[finalRun].tx
    /\ LET effective == {c \in Positions(controls) :
                            /\ controls[c].ms > 0
                            /\ controls[c].ids[1] \in
                                 Anchors(actions, controls, producer, finalRun)}
           advanceMs(c) == controls[c].ms
       IN MapThenSumSet(advanceMs, effective) > actions[producer].timeoutMs

OutcomeApplies(invariant, actions) ==
  /\ Runs([actions |-> actions]) # {}
  /\ actions[Max(Runs([actions |-> actions]))].outcomes = <<Expected(invariant)>>

InvariantApplies(invariant, actions, controls) ==
  /\ OutcomeApplies(invariant, actions)
  /\ invariant = "tx.total-timeout" =>
       TimeoutPassed(actions, controls, Max(Runs([actions |-> actions])))

SeedValid(v, s) ==
  /\ s.actors # <<>> /\ s.actions # <<>>
  /\ ActorsAreDeclared(s)
  /\ ArgumentsValid(v, s.actions)
  /\ v = "phase3" => OutcomeApplies(s.invariant, s.actions)

\* composeNightmareSpec, baseActions: an instance is named after its position.
BaseActions(s) ==
  [i \in Positions(s.actions) |->
     LET a == s.actions[i]
     IN [id |-> i, actionId |-> a.actionId, actor |-> a.actor, bind |-> a.bind, tx |-> a.tx,
         outcomes |-> a.outcomes, retry |-> a.retry, gate |-> a.gate,
         timeoutMs |-> a.timeoutMs]]

-----------------------------------------------------------------------------
\* The operators.  A state no seed has stands for an operator that throws.
Refused == [actions |-> <<>>, controls |-> <<>>]
InitialState(base) == [actions |-> base, controls |-> <<>>]
Control(entry) == [ids |-> entry.ids, ms |-> entry.advanceMs]
Distinct(ids) == \A k, l \in Positions(ids) : ids[k] = ids[l] => k = l

TimeAdvanceApplies(entry, actions) ==
  /\ entry.advanceMs \in 1..AdvanceMax
  /\ entry.ids[1] \in Positions(actions)

\* Plausible bug: a later control comes before an earlier one.
WithControlFirst(entry, st) == [st EXCEPT !.controls = <<Control(entry)>> \o @]

WithControl(entry, st) == [st EXCEPT !.controls = Append(@, Control(entry))]

\* applyOperatorRecord: the outcome of a fault is not compared with its error here.
ApplyOperatorRecord(entry, st) ==
  LET runs == Runs([actions |-> st.actions]) IN
  CASE entry.operatorId = TimeAdvance /\ TimeAdvanceApplies(entry, st.actions) ->
         WithControl(entry, st)
    [] entry.operatorId = ReleaseOrder /\ Len(entry.ids) >= 2 /\ Distinct(entry.ids)
         /\ Range(entry.ids) \subseteq runs -> WithControl(entry, st)
    [] entry.operatorId = StepOutcome /\ entry.ids[1] \in runs ->
         [st EXCEPT !.actions[entry.ids[1]].outcomes = <<entry.outcome>>]
    [] OTHER -> Refused

\* applyBenchmarkOperator: only gated runs are ordered, and a fault ends the retries.
ApplyBenchmarkOperator(entry, st) ==
  LET runs == Runs([actions |-> st.actions]) IN
  CASE entry.operatorId = TimeAdvance /\ TimeAdvanceApplies(entry, st.actions) ->
         WithControl(entry, st)
    [] entry.operatorId = ReleaseOrder /\ Len(entry.ids) >= 2 /\ Distinct(entry.ids)
         /\ \A id \in Range(entry.ids) : id \in runs /\ st.actions[id].gate ->
         WithControl(entry, st)
    [] entry.operatorId = StepOutcome /\ entry.ids[1] \in runs
         /\ entry.outcome # "return-with-error" ->
         [st EXCEPT !.actions[entry.ids[1]] =
            [@ EXCEPT !.outcomes = <<entry.outcome>>, !.retry = 0]]
    [] OTHER -> Refused

Apply(v, entry, st) ==
  IF v = "phase3" THEN ApplyOperatorRecord(entry, st) ELSE ApplyBenchmarkOperator(entry, st)

RecordOf(entry, before, after) ==
  [operatorId |-> entry.operatorId, registration |-> entry.operatorId, ids |-> entry.ids,
   advanceMs |-> entry.advanceMs, outcome |-> entry.outcome,
   before |-> before, after |-> after]

-----------------------------------------------------------------------------
\* fixtureRecord, fixtureRecords: what each run is given, of which artifact.
Fixture(action, a) ==
  [consumer |-> action.id, outcomes |-> action.outcomes, retry |-> action.retry, artifact |-> a]

Fixtures(actions, a) ==
  [n \in 1..Cardinality(Runs([actions |-> actions])) |->
     Fixture(Keep(actions, Runs([actions |-> actions]))[n], a)]

Spec0(s, actions, transformations, controls, a) ==
  [seedDigest |-> {s}, invariant |-> s.invariant, actors |-> s.actors,
   base |-> BaseActions(s), transformed |-> actions, transformations |-> transformations,
   controls |-> controls, fixtures |-> Fixtures(actions, a)]

-----------------------------------------------------------------------------
\* The validators.  The recorded operators are replayed from the base actions.
StatesOf(v, base, transformations) ==
  LET after[k \in 0..Len(transformations)] ==
        IF k = 0 THEN InitialState(base) ELSE Apply(v, transformations[k], after[k - 1])
  IN after

\* Plausible bug: what an operator recorded as its state before is not compared.
ReplaysWithoutLinks(v, sp) ==
  LET after == StatesOf(v, sp.base, sp.transformations) IN
  /\ \A k \in Positions(sp.transformations) :
       /\ sp.transformations[k].registration = sp.transformations[k].operatorId
       /\ after[k] # Refused
       /\ sp.transformations[k].after = after[k]
  /\ after[Len(sp.transformations)] = [actions |-> sp.transformed, controls |-> sp.controls]

ReplaysAsRecorded(v, sp) ==
  LET after == StatesOf(v, sp.base, sp.transformations) IN
  /\ \A k \in Positions(sp.transformations) :
       /\ sp.transformations[k].registration = sp.transformations[k].operatorId
       /\ sp.transformations[k].before = after[k - 1]
       /\ after[k] # Refused
       /\ sp.transformations[k].after = after[k]
  /\ after[Len(sp.transformations)] = [actions |-> sp.transformed, controls |-> sp.controls]

BaseValid(v, sp) ==
  /\ sp.actors # <<>>
  /\ ActorsAreDeclared([actors |-> sp.actors, actions |-> sp.base])
  /\ \A i \in Positions(sp.base) : sp.base[i].id = i
  /\ ArgumentsValid(v, sp.base)
  /\ Len(sp.transformed) = Len(sp.base)
  /\ Len(sp.transformations) <= TransformationLimit

\* A transformation changes arguments only.
IdentityKept(sp) ==
  \A i \in Positions(sp.base) :
    LET t == sp.transformed[i]
        b == sp.base[i]
    IN t.id = b.id /\ t.actionId = b.actionId /\ t.actor = b.actor /\ t.bind = b.bind

TransformationsValid(v, sp) ==
  IF sp.transformations = <<>>
  THEN sp.transformed = sp.base /\ sp.controls = <<>>
  ELSE /\ IdentityKept(sp)
       /\ ArgumentsValid(v, sp.transformed)
       /\ ReplaysAsRecorded(v, sp)

\* validateNightmareSpec.  The digest of the seed is not recomputed.
ValidateNightmareSpec(sp, a) ==
  /\ BaseValid("phase3", sp)
  /\ TransformationsValid("phase3", sp)
  /\ InvariantApplies(sp.invariant, sp.transformed, sp.controls)
  /\ Len(sp.fixtures) <= FixtureLimit
  /\ sp.fixtures = Fixtures(sp.transformed, a)

\* validateBenchmarkSpec.
ValidateBenchmarkSpec(sp, a) ==
  /\ BaseValid("benchmark", sp)
  /\ TransformationsValid("benchmark", sp)
  /\ Cardinality(Runs([actions |-> sp.transformed])) <= FixtureLimit
  /\ sp.fixtures = Fixtures(sp.transformed, a)

ValidateSpec(v, sp, a) ==
  IF v = "phase3" THEN ValidateNightmareSpec(sp, a) ELSE ValidateBenchmarkSpec(sp, a)

\* buildExecutionPlan, buildBenchmarkPlan: a projection of the spec.
PlanAction(action) ==
  [id |-> action.id, actionId |-> action.actionId, actor |-> action.actor,
   arguments |-> <<action.tx, action.outcomes, action.retry, action.gate, action.timeoutMs>>,
   bind |-> action.bind]

Bindings(actions) ==
  [n \in 1..Cardinality(Producers([actions |-> actions])) |->
     LET producer == Keep(actions, Producers([actions |-> actions]))[n]
     IN [name |-> producer.bind, producer |-> producer.id]]

PlanOf(sp, a) ==
  [specDigest |-> sp, invariant |-> sp.invariant, artifact |-> a,
   actions |-> [i \in Positions(sp.transformed) |-> PlanAction(sp.transformed[i])],
   bindings |-> Bindings(sp.transformed), fixtures |-> sp.fixtures, controls |-> sp.controls]

\* validateExecutionPlan, validateBenchmarkPlan: every field is compared.
ValidatePlan(v, p, sp, a) ==
  /\ ValidateSpec(v, sp, a)
  /\ p.specDigest = sp
  /\ p.artifact = a
  /\ p.invariant = sp.invariant
  /\ Len(p.actions) = Len(sp.transformed)
  /\ p.actions = [i \in Positions(sp.transformed) |-> PlanAction(sp.transformed[i])]
  /\ p.bindings = Bindings(sp.transformed)
  /\ p.fixtures = sp.fixtures
  /\ p.controls = sp.controls

-----------------------------------------------------------------------------
\* selectPhase4OperatorRequests: one request per operator arm, or none.
TimeoutRequests(s) ==
  LET used == {i \in Producers(s) :
                 \E j \in Runs(s) : j > i /\ s.actions[j].tx = s.actions[i].bind}
      first == CHOOSE i \in used : \A j \in used : i <= j
  IN IF used = {} THEN {}
     ELSE {[operatorId |-> TimeAdvance, ids |-> <<first>>,
            advanceMs |-> s.actions[first].timeoutMs + 1, outcome |-> "none"]}

\* Plausible bug: the gates of the runs are not looked at.
OrderRequestsUngated(s) ==
  LET runs == Runs(s)
      nth(n) == CHOOSE i \in runs : Renumbered(runs, i) = n
  IN IF Cardinality(runs) < 2 THEN {}
     ELSE {[operatorId |-> ReleaseOrder, ids |-> <<nth(2), nth(1)>>, advanceMs |-> 0,
            outcome |-> "none"]}

OrderRequests(s) ==
  LET gated == {i \in Runs(s) : s.actions[i].gate}
      nth(n) == CHOOSE i \in gated : Renumbered(gated, i) = n
  IN IF Cardinality(gated) < 2 THEN {}
     ELSE {[operatorId |-> ReleaseOrder, ids |-> <<nth(2), nth(1)>>, advanceMs |-> 0,
            outcome |-> "none"]}

FaultRequests(s) ==
  IF Runs(s) = {} THEN {}
  ELSE {[operatorId |-> StepOutcome, ids |-> <<Max(Runs(s))>>, advanceMs |-> 0,
         outcome |-> IF s.actions[Max(Runs(s))].outcomes[1] = "return"
                     THEN "throw" ELSE "return"]}

SelectedRequests(s) == TimeoutRequests(s) \cup OrderRequests(s) \cup FaultRequests(s)

-----------------------------------------------------------------------------
TransformationInit ==
  /\ variant \in Variants
  /\ seed \in Seeds[variant]
  /\ \/ selected = FALSE /\ request \in Requests[variant]
     \/ /\ selected = TRUE /\ variant = "benchmark" /\ SeedValid(variant, seed)
        /\ \E entry \in SelectedRequests(seed) : request = <<entry>>
  /\ artifact \in Artifacts
  /\ phase = "building"
  /\ state = InitialState(BaseActions(seed))
  /\ records = <<>>
  /\ spec = <<>> /\ plan = <<>>
  /\ reader = "none" /\ verdict = "none"

Refuse ==
  /\ phase' = "refused"
  /\ UNCHANGED <<state, records, spec, plan>>

\* One entry of the request; the length of the request is checked first.
ApplyEntry ==
  /\ phase = "building"
  /\ Len(records) < Len(request)
  /\ LET entry == request[Len(records) + 1]
         after == Apply(variant, entry, state)
     IN IF ~SeedValid(variant, seed) \/ Len(request) > TransformationLimit \/ after = Refused
        THEN Refuse
        ELSE /\ records' = Append(records, RecordOf(entry, state, after))
             /\ state' = after
             /\ UNCHANGED <<phase, spec, plan>>
  /\ UNCHANGED <<variant, seed, request, artifact, selected, reader, verdict>>

\* The spec is put together and validated, and so is its plan.
Finish ==
  /\ phase = "building"
  /\ Len(records) = Len(request)
  /\ LET sp == Spec0(seed, state.actions, records, state.controls, artifact)
     IN IF SeedValid(variant, seed) /\ ValidateSpec(variant, sp, artifact)
        THEN /\ phase' = "built"
             /\ spec' = sp
             /\ plan' = PlanOf(sp, artifact)
             /\ UNCHANGED <<state, records>>
        ELSE Refuse
  /\ UNCHANGED <<variant, seed, request, artifact, selected, reader, verdict>>

\* What a stored spec or plan may have become: one field of one entry, or an entry too
\* many, too few or in another's place.
Other(outcomes) == IF outcomes = <<"return">> THEN <<"throw">> ELSE <<"return">>
Dropped(seq) == {[k \in 1..(Len(seq) - 1) |-> IF k < n THEN seq[k] ELSE seq[k + 1]] :
                   n \in Positions(seq)}
Swapped(seq) == {[seq EXCEPT ![n] = seq[n + 1], ![n + 1] = seq[n]] : n \in 1..(Len(seq) - 1)}

RecordEdits(record) ==
       {[record EXCEPT !.operatorId = o] : o \in {TimeAdvance, StepOutcome, "unregistered"}}
  \cup {[record EXCEPT !.registration = "unregistered"],
        [record EXCEPT !.ids = [k \in Positions(@) |-> @[Len(@) + 1 - k]]],
        [record EXCEPT !.ids[1] = 1],
        [record EXCEPT !.advanceMs = IF record.operatorId = TimeAdvance THEN @ + 1 ELSE @],
        [record EXCEPT !.outcome =
           IF record.operatorId = StepOutcome THEN Other(<<@>>)[1] ELSE @],
        [record EXCEPT !.before = record.after],
        [record EXCEPT !.after = record.before]}

BaseEdits(base) ==
       {[base EXCEPT ![i].outcomes = Other(@)] : i \in Runs([actions |-> base])}
  \cup {[base EXCEPT ![i].id = @ + 1] : i \in Positions(base)}

TransformedEdits(transformed) ==
  {[transformed EXCEPT ![i].outcomes = Other(@)] : i \in Runs([actions |-> transformed])}

RecordsEdits(transformations) ==
  Dropped(transformations) \cup Swapped(transformations)
  \cup UNION {{[transformations EXCEPT ![k] = record] :
                 record \in RecordEdits(transformations[k])} : k \in Positions(transformations)}

ControlsEdits(controls) ==
  Dropped(controls) \cup Swapped(controls) \cup {Append(controls, [ids |-> <<1>>, ms |-> 1])}

FixturesEdits(fixtures) ==
  Dropped(fixtures)
  \cup {[fixtures EXCEPT ![n].outcomes = Other(@)] : n \in Positions(fixtures)}
  \cup {[n \in Positions(fixtures) |-> [fixtures[n] EXCEPT !.artifact = a]] : a \in Artifacts}

SpecEdits(sp) ==
       {[sp EXCEPT !.seedDigest = {}], [sp EXCEPT !.invariant = "tx.successful-step-return"]}
  \cup {[sp EXCEPT !.base = base] : base \in BaseEdits(sp.base)}
  \cup {[sp EXCEPT !.transformed = actions] : actions \in TransformedEdits(sp.transformed)}
  \cup {[sp EXCEPT !.transformations = seq] : seq \in RecordsEdits(sp.transformations)}
  \cup {[sp EXCEPT !.controls = seq] : seq \in ControlsEdits(sp.controls)}
  \cup {[sp EXCEPT !.fixtures = seq] : seq \in FixturesEdits(sp.fixtures)}

PlanEdits(p) ==
       {[p EXCEPT !.artifact = a] : a \in Artifacts}
  \cup {[p EXCEPT !.actions = seq] : seq \in Dropped(p.actions) \cup Swapped(p.actions)}
  \cup {[p EXCEPT !.controls = seq] : seq \in Dropped(p.controls)}
  \cup {[p EXCEPT !.bindings = seq] : seq \in Dropped(p.bindings)}
  \cup {[p EXCEPT !.fixtures = seq] : seq \in Dropped(p.fixtures)}

\* Both are stored; either may come back changed, also along with the other.
Store ==
  /\ phase = "built"
  /\ phase' = "stored"
  /\ \/ UNCHANGED <<spec, plan>>
     \/ \E sp \in SpecEdits(spec) : spec' = sp /\ (plan' = plan \/ plan' = PlanOf(sp, artifact))
     \/ \E p \in PlanEdits(plan) : plan' = p /\ UNCHANGED spec
  /\ UNCHANGED <<variant, seed, request, artifact, selected, state, records, reader, verdict>>

\* The default artifact of validateBenchmarkPlan is the plan's own.
ArtifactOf(r, p) == IF r = "own" THEN p.artifact ELSE r

Judge ==
  /\ phase = "stored"
  /\ phase' = "judged"
  /\ reader' \in Artifacts \cup (IF variant = "benchmark" THEN {"own"} ELSE {})
  /\ verdict' = IF ValidatePlan(variant, plan, spec, ArtifactOf(reader', plan))
                THEN "accepted" ELSE "rejected"
  /\ UNCHANGED <<variant, seed, request, artifact, selected, state, records, spec, plan>>

TransformationNext == ApplyEntry \/ Finish \/ Store \/ Judge

TransformationSpec == TransformationInit /\ [][TransformationNext]_transformationVars

-----------------------------------------------------------------------------
Base == BaseActions(seed)
BuiltSpec == Spec0(seed, state.actions, records, state.controls, artifact)

\* A pair that validates is the one that was built, for the artifact it was built for,
\* whichever field of it was edited in between, and in whichever order operators were
\* applied: the chain of digests and the replay leave room only for the digest of the
\* seed and the invariant, which nothing in the spec determines, and for the record of a
\* fault that changes nothing.  A spec without fixtures names no artifact; its plan then
\* decides.
Changing(transformations) ==
  {k \in Positions(transformations) : transformations[k].before # transformations[k].after}
Determined(sp) ==
  <<sp.actors, sp.base, sp.transformed, Keep(sp.transformations, Changing(sp.transformations)),
    sp.controls, sp.fixtures>>

AcceptedIsAsBuilt ==
  verdict = "accepted" =>
    /\ Determined(spec) = Determined(BuiltSpec)
    /\ plan = PlanOf(spec, plan.artifact)
    /\ reader \in {plan.artifact, "own"}
    /\ spec.fixtures # <<>> => plan.artifact = artifact

\* What is executed is the seed with, for every run, the last fault that names it, the
\* other entries in order, and a fixture that carries exactly what its run executes.
LastFault(i) ==
  {k \in Positions(request) :
     /\ request[k].operatorId = StepOutcome /\ request[k].ids[1] = i
     /\ \A l \in (k + 1)..Len(request) :
          request[l].operatorId = StepOutcome => request[l].ids[1] # i}
Scheduled == {k \in Positions(request) : request[k].operatorId # StepOutcome}

PlanIsTheRequestedOne ==
  phase = "built" =>
    /\ \A i \in Positions(Base) :
         plan.actions[i].arguments[2] =
           IF LastFault(i) = {} THEN Base[i].outcomes
           ELSE <<request[Max(LastFault(i))].outcome>>
    /\ plan.controls = [n \in 1..Cardinality(Scheduled) |->
                           Control(Keep(request, Scheduled)[n])]
    /\ \A i \in Runs(seed) : \E f \in Positions(plan.fixtures) :
         /\ plan.fixtures[f].consumer = i
         /\ plan.fixtures[f].outcomes = plan.actions[i].arguments[2]
         /\ plan.fixtures[f].retry = plan.actions[i].arguments[3]

\* A request that selectPhase4OperatorRequests picks for a valid seed is never refused:
\* its fault ends the retries that would ask for more outcomes, and its order names
\* gated runs only.
SelectedRequestsBuild ==
  selected /\ Cardinality(Runs(seed)) <= FixtureLimit => phase # "refused"
=============================================================================
