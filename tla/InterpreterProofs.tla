--------------------------- MODULE InterpreterProofs ---------------------------
(***************************************************************************)
(* Proofs about Interpreters for all plans, however long, any number of    *)
(* timers and whatever the package under evaluation does.                  *)
(***************************************************************************)
EXTENDS Interpreters, Histories

-----------------------------------------------------------------------------
(***************************************************************************)
(* The invariant.                                                          *)
(***************************************************************************)

\* The instances whose call settles, and what is known of one that was worked off: it is
\* observed, its gate is open, and the advances that follow it were executed.
Calls(i) == plan.actions[i].actionId \in {"tx.run", "tx.commit"}
Observed(i) == Calls(i) => runs[i] \in {"returned", "thrown"}
Done(i) ==
  /\ Observed(i)
  /\ i \in Gated => i \in gates
  /\ \A c \in Advances : Ids(c)[1] = i => c \in executedControls

Applying == stage \in {"applying", "advancing", "draining"}

\* Type correctness.
TypeOK ==
  /\ now \in Nat /\ target \in Nat
  /\ timers \subseteq [due : Nat, sequence : Nat]
  /\ nextHandle \in Nat
  /\ at \in Nat \ {0}
  /\ release \in [control : Nat, k : Nat]
  /\ runs \in [Instances -> {"idle", "pending"} \cup Settlements]
  /\ harness \in {"trust", "interpreter", "direct"}

\* The loop over the actions: it has launched the calls it has passed, and worked off
\* those among them that no gate holds back.
LoopOK ==
  /\ stage # "action" => at \in Instances
  /\ \A i \in Instances :
       runs[i] # "idle" <=> Calls(i) /\ (i < at \/ (i = at /\ stage # "action"))
  /\ \A i \in Instances : i < at /\ i \notin Gated => Done(i)

\* The instance that is worked off is that of the loop or that of the release.
AnchorOK ==
  stage \in {"settling", "committing", "applying", "advancing", "draining"} =>
    /\ anchor \in Instances
    /\ IF release = NoRelease THEN anchor = at /\ at \notin Gated
       ELSE release.k \in 1..Len(Ids(release.control)) /\ anchor = Ids(release.control)[release.k]
    /\ anchor \in Gated => anchor \in gates
    /\ ~Applying => Calls(anchor) /\ runs[anchor] # "idle"
    /\ Applying => Observed(anchor)

\* A release: all its runs are launched, and those before its position are worked off.
ReleaseOK ==
  /\ stage = "releasing" \/ release # NoRelease => at \in Gated
  /\ stage \in {"action", "committing"} => release = NoRelease
  /\ release # NoRelease =>
       /\ release.control \in ReleaseOrders
       /\ release.k \in 1..(Len(Ids(release.control)) + 1)
       /\ \A i \in Group(release.control) : runs[i] # "idle"
       /\ \A i \in Instances, l \in 1..(release.k - 1) :
            i = Ids(release.control)[l] => Done(i)

\* The trust interpreter: the orders executed before are worked off, and while no
\* release is under way each of the others waits for a launch.
TrustOK ==
  harness = "trust" =>
    /\ release # NoRelease => release.control \in executedControls
    /\ \A c \in ReleaseOrders : c \in executedControls /\ c # release.control =>
         \A i \in Group(c) : Done(i)
    /\ stage # "releasing" /\ release = NoRelease =>
         \A c \in ReleaseOrders : c \in executedControls \/ \E i \in Group(c) : runs[i] = "idle"

\* The benchmark: a launched run of a group is pending, worked off, or the one whose
\* advances are applied.
GroupOK ==
  harness # "trust" =>
    /\ \A i \in pending : i \in Gated /\ runs[i] # "idle"
    /\ harness = "direct" => ReleaseOrders = {}
    /\ stage = "releasing" => release # NoRelease
    /\ release # NoRelease =>
         /\ Group(release.control) \subseteq gates
         /\ \A l \in 1..(release.k - 1) : Ids(release.control)[l] \notin pending
    /\ Applying => anchor \notin pending
    /\ \A i \in Gated :
         runs[i] # "idle" => i \in pending \/ Done(i) \/ (i = anchor /\ Applying)

\* Unless orders share a run, the launched runs of a group are pending until its release,
\* and none of them after it.
OrdersOK ==
  harness # "trust" /\ ~SharedRuns =>
    \A c \in ReleaseOrders : c # release.control =>
      IF \E i \in Group(c) : runs[i] = "idle"
      THEN \A i \in Group(c) : runs[i] # "idle" => i \in pending
      ELSE Group(c) \cap pending = {}

WorkOK == LoopOK /\ AnchorOK /\ ReleaseOK /\ TrustOK /\ GroupOK /\ OrdersOK
ProgressOK == Active => WorkOK

\* The inductive invariant.
InterpretersInvariant ==
  /\ plan \in Plans \cup BenchmarkPlans
  /\ R!Structure(plan)
  /\ TypeOK
  /\ NoTimerIsLate
  /\ GatesOpenInOrder
  /\ InterpretationIsComplete
  /\ ProgressOK

-----------------------------------------------------------------------------
(***************************************************************************)
(* Plans.                                                                  *)
(***************************************************************************)

\* What the schema and the structure of a plan say of its controls.
PlanOK ==
  /\ Len(plan.actions) \in Nat
  /\ Instances = 1..Len(plan.actions)
  /\ ReleaseOrders \subseteq Nat \ {0}
  /\ Advances \subseteq Nat
  /\ ReleaseOrders \cap Advances = {}
  /\ \A c \in Advances :
       Ids(c)[1] \in Instances /\ plan.transformations[c].advanceMs \in Nat
  /\ \A c \in ReleaseOrders :
       /\ Len(Ids(c)) \in Nat
       /\ Len(Ids(c)) >= 2
       /\ Group(c) = {Ids(c)[k] : k \in 1..Len(Ids(c))}
       /\ Group(c) \subseteq Gated
       /\ \A k, l \in 1..Len(Ids(c)) : Ids(c)[k] = Ids(c)[l] => k = l
  /\ \A i \in Gated :
       /\ i \in Instances
       /\ plan.actions[i].actionId = "tx.run"
       /\ \E c \in ReleaseOrders : i \in Group(c)

LEMMA PlanIsSound ==
  ASSUME plan \in Plans \cup BenchmarkPlans, R!Structure(plan)
  PROVE  PlanOK
<1>1. ControlFields(plan)
  BY PlansAssumption, BenchmarkPlansAssumption
<1>2. R!RequestsApply(plan)
  BY DEF R!Structure
<1> DEFINE ids(t) == plan.transformations[t].ids
           positions == 1..Len(plan.transformations)
<1>3. \A t \in positions : Len(ids(t)) \in Nat
  BY <1>1 DEF ControlFields, R!Positions
<1>4. \A t \in positions : \A k \in 1..Len(ids(t)) : ids(t)[k] \in 1..Len(plan.actions)
  BY <1>2 DEF R!RequestsApply, R!Positions
<1>5. \A t \in ReleaseOrders :
        /\ Len(ids(t)) >= 2
        /\ \A k \in 1..Len(ids(t)) : ids(t)[k] \in R!Runs(plan)
        /\ \A k, l \in 1..Len(ids(t)) : ids(t)[k] = ids(t)[l] => k = l
  BY <1>2 DEF R!RequestsApply, R!Positions, ReleaseOrders, R!ReleaseOrders
<1>6. /\ ReleaseOrders \subseteq positions
      /\ Advances \subseteq positions
      /\ ReleaseOrders \cap Advances = {}
  BY DEF ReleaseOrders, Advances, R!ReleaseOrders, R!Advances, R!Positions
<1>7. positions \subseteq Nat \ {0}
  BY <1>1 DEF ControlFields
<1>8. \A t \in Advances : 1 \in 1..Len(ids(t)) /\ plan.transformations[t].advanceMs \in Nat
  <2>1. \A t \in R!Advances(plan) :
          Len(ids(t)) = 1 /\ plan.transformations[t].advanceMs \in Nat
    BY <1>1 DEF ControlFields
  <2>2. QED
    BY <2>1 DEF Advances
<1>9. \A i : i \in Gated <=> \E c \in ReleaseOrders : \E k \in 1..Len(ids(c)) : ids(c)[k] = i
  BY DEF Gated, R!Gated, ReleaseOrders, R!ReleaseOrders, R!Positions
<1>10. \A c : Group(c) = {Ids(c)[k] : k \in 1..Len(Ids(c))}
  BY DEF Group, R!Positions
<1>11. QED
  <2>1. Len(plan.actions) \in Nat /\ Instances = 1..Len(plan.actions)
    BY <1>1 DEF ControlFields, Instances, R!Positions
  <2>2. \A c \in Advances :
          Ids(c)[1] \in Instances /\ plan.transformations[c].advanceMs \in Nat
    BY <1>4, <1>6, <1>8, <2>1 DEF Ids
  <2>3. \A c \in ReleaseOrders :
          /\ Len(Ids(c)) \in Nat
          /\ Len(Ids(c)) >= 2
          /\ Group(c) \subseteq Gated
          /\ \A k, l \in 1..Len(Ids(c)) : Ids(c)[k] = Ids(c)[l] => k = l
    <3>1. ASSUME NEW c \in ReleaseOrders
          PROVE  Group(c) \subseteq Gated
      BY <1>9, <1>10 DEF Ids
    <3>2. \A c \in ReleaseOrders : Len(Ids(c)) \in Nat
      BY <1>3, <1>6 DEF Ids
    <3>3. QED
      BY <1>5, <3>1, <3>2 DEF Ids
  <2>4. \A i \in Gated :
          /\ i \in Instances
          /\ plan.actions[i].actionId = "tx.run"
          /\ \E c \in ReleaseOrders : i \in Group(c)
    <3>1. ASSUME NEW i \in Gated
          PROVE  /\ i \in R!Runs(plan)
                 /\ \E c \in ReleaseOrders : i \in Group(c)
      <4>1. PICK c \in ReleaseOrders : \E k \in 1..Len(ids(c)) : ids(c)[k] = i
        BY <1>9, <3>1
      <4>2. i \in R!Runs(plan)
        BY <1>5, <4>1
      <4>3. i \in Group(c)
        BY <1>10, <4>1 DEF Ids
      <4>4. QED
        BY <4>2, <4>3
    <3>2. \A i \in R!Runs(plan) : i \in Instances /\ plan.actions[i].actionId = "tx.run"
      BY <2>1 DEF R!Runs, R!Positions
    <3>3. QED
      BY <3>1, <3>2
  <2>5. QED
    BY <1>6, <1>7, <1>10, <2>1, <2>2, <2>3, <2>4 DEF PlanOK

LEMMA MembersOfGroup ==
  ASSUME PlanOK, NEW c \in ReleaseOrders
  PROVE  /\ \A k \in 1..Len(Ids(c)) : Ids(c)[k] \in Group(c)
         /\ \A i \in Group(c) : \E k \in 1..Len(Ids(c)) : i = Ids(c)[k]
BY DEF Group, R!Positions

-----------------------------------------------------------------------------
(***************************************************************************)
(* What the steps keep.                                                    *)
(***************************************************************************)

\* What was worked off stays so, as long as calls that settled stay as they are.
LEMMA DoneStays ==
  ASSUME plan' = plan, gates \subseteq gates', executedControls \subseteq executedControls',
         NEW i, Done(i), runs[i] \in {"returned", "thrown"} => runs'[i] = runs[i]
  PROVE  Done(i)'
BY DEF Done, Observed, Calls, Gated, Advances, Ids

LEMMA SharingIsOfThePlan ==
  ASSUME plan' = plan
  PROVE  SharedRuns' = SharedRuns
BY DEF SharedRuns, ReleaseOrders, Group, Ids

\* Orders that share no run: a run is of one of them.
LEMMA OneGroup ==
  ASSUME ~SharedRuns, NEW c \in ReleaseOrders, NEW d \in ReleaseOrders, c # d,
         NEW i \in Group(c)
  PROVE  i \notin Group(d)
BY DEF SharedRuns

\* The steps of an advance, and the choice of the next one.
LEMMA AdvancingKeeps ==
  ASSUME PlanOK, WorkOK, Applying, Applying',
         UNCHANGED <<plan, at, anchor, release, gates, runs, harness, pending>>,
         NEW new \in SUBSET Advances, executedControls' = executedControls \cup new
  PROVE  WorkOK'
<1>1. \A i : Done(i) => Done(i)'
  BY DoneStays
<1> DEFINE all == <<plan, at, anchor, release, gates, runs, harness, pending>>
<1>2. LoopOK'
  BY <1>1 DEF WorkOK, LoopOK, Instances, Calls, Gated, Applying
<1>3. AnchorOK'
  BY DEF WorkOK, AnchorOK, Instances, Calls, Gated, Applying, Ids, NoRelease, Observed
<1>4. ReleaseOK'
  <2>1. ASSUME release # NoRelease, NEW i \in Instances, NEW l \in 1..(release.k - 1),
               i = Ids(release.control)[l]
        PROVE  Done(i)'
    BY <1>1, <2>1 DEF WorkOK, ReleaseOK
  <2>2. QED
    BY <2>1 DEF WorkOK, ReleaseOK, Instances, Gated, Applying, Ids, NoRelease, Group, ReleaseOrders
<1>5. TrustOK'
  <2>1. \A c \in ReleaseOrders : c \in executedControls' => c \in executedControls
    BY DEF PlanOK
  <2>2. QED
    BY <1>1, <2>1 DEF WorkOK, TrustOK, Applying, NoRelease, ReleaseOrders, Group, Ids
<1>6. GroupOK'
  BY <1>1 DEF WorkOK, GroupOK, Gated, Applying, Ids, NoRelease, Group, ReleaseOrders
<1>7. OrdersOK'
  BY SharingIsOfThePlan DEF WorkOK, OrdersOK, Ids, Group, ReleaseOrders
<1>8. QED
  BY <1>2, <1>3, <1>4, <1>5, <1>6, <1>7 DEF WorkOK

\* An instance that was awaited settles; a run of a group is then no longer pending.
LEMMA SettlingKeeps ==
  ASSUME PlanOK, TypeOK, WorkOK,
         stage \in {"settling", "committing"}, runs[anchor] # "pending", stage' = "applying",
         runs[anchor] # "infrastructure",
         UNCHANGED <<plan, at, anchor, release, executedControls, gates, runs, harness>>,
         harness = "trust" \/ pending' = pending \ {anchor}
  PROVE  WorkOK'
<1>1. \A i : Done(i) => Done(i)'
  BY DoneStays
<1>2. LoopOK'
  BY <1>1 DEF WorkOK, LoopOK, Instances, Calls, Gated
<1>3. AnchorOK'
  <2>1. Observed(anchor)'
    BY DEF WorkOK, AnchorOK, TypeOK, Applying, Observed, Calls, Settlements
  <2>2. QED
    BY <2>1 DEF WorkOK, AnchorOK, Instances, Calls, Gated, Applying, Ids, NoRelease
<1>4. ReleaseOK'
  <2>1. ASSUME release # NoRelease, NEW i \in Instances, NEW l \in 1..(release.k - 1),
               i = Ids(release.control)[l]
        PROVE  Done(i)'
    BY <1>1, <2>1 DEF WorkOK, ReleaseOK
  <2>2. QED
    BY <2>1 DEF WorkOK, ReleaseOK, Instances, Gated, Ids, NoRelease, Group, ReleaseOrders
<1>5. TrustOK'
  BY <1>1 DEF WorkOK, TrustOK, NoRelease, ReleaseOrders, Group, Ids
<1>6. GroupOK'
  <2> SUFFICES ASSUME harness # "trust"
               PROVE  GroupOK'
    BY DEF GroupOK
  <2>1. \A i \in Gated : runs[i] # "idle" => i \in pending' \/ Done(i)' \/ i = anchor
    BY <1>1 DEF WorkOK, GroupOK, Applying
  <2>2. \A i \in Gated : (runs[i] # "idle" => i \in pending \/ Done(i) \/ (i = anchor /\ Applying))'
    BY <2>1 DEF Applying
  <2>3. QED
    BY <2>2 DEF WorkOK, GroupOK, Gated, Applying, Ids, NoRelease, Group, ReleaseOrders
<1>7. OrdersOK'
  <2> SUFFICES ASSUME harness # "trust", ~SharedRuns,
                      NEW c \in ReleaseOrders, c # release.control
               PROVE  (IF \E i \in Group(c) : runs[i] = "idle"
                       THEN \A i \in Group(c) : runs[i] # "idle" => i \in pending
                       ELSE Group(c) \cap pending = {})'
    BY SharingIsOfThePlan DEF OrdersOK, ReleaseOrders
  <2>1. anchor \notin Group(c)
    <3>1. CASE release = NoRelease
      BY <3>1 DEF WorkOK, AnchorOK, PlanOK
    <3>2. CASE release # NoRelease
      <4>1. release.control \in ReleaseOrders /\ anchor \in Group(release.control)
        <5>1. /\ release.control \in ReleaseOrders
              /\ release.k \in 1..Len(Ids(release.control))
              /\ anchor = Ids(release.control)[release.k]
          BY <3>2 DEF WorkOK, AnchorOK, ReleaseOK
        <5>2. QED
          BY <5>1, MembersOfGroup
      <4>2. QED
        BY <4>1, OneGroup
    <3>3. QED
      BY <3>1, <3>2
  <2>2. IF \E i \in Group(c) : runs[i] = "idle"
        THEN \A i \in Group(c) : runs[i] # "idle" => i \in pending
        ELSE Group(c) \cap pending = {}
    BY DEF WorkOK, OrdersOK
  <2>3. Group(c)' = Group(c)
    BY DEF Group, Ids
  <2>4. QED
    BY <2>1, <2>2, <2>3
<1>8. QED
  BY <1>2, <1>3, <1>4, <1>5, <1>6, <1>7 DEF WorkOK

\* The loop launches a call that no gate holds back, or comes to an action without one.
LEMMA LaunchKeeps ==
  ASSUME PlanOK, TypeOK, WorkOK, stage = "action", at \in Instances, at \notin Gated,
         UNCHANGED <<plan, at, release, executedControls, gates, harness, pending>>,
         anchor' = at,
         \/ /\ Calls(at) /\ stage' \in {"settling", "committing"}
            /\ runs' = [runs EXCEPT ![at] = "pending"]
         \/ ~Calls(at) /\ stage' = "applying" /\ runs' = runs
  PROVE  WorkOK'
<1>1. runs[at] = "idle" /\ release = NoRelease
  BY DEF WorkOK, LoopOK, ReleaseOK, PlanOK
<1>2. \A i \in Instances : i # at => runs'[i] = runs[i]
  BY DEF TypeOK
<1>3. \A i \in Instances : Done(i) => Done(i)'
  BY <1>1, <1>2, DoneStays
<1>4. \A i \in Gated : runs'[i] = runs[i]
  BY <1>2 DEF PlanOK
<1>5. \A c \in ReleaseOrders : Group(c) \subseteq Gated
  BY DEF PlanOK
<1>6. LoopOK'
  BY <1>1, <1>2, <1>3 DEF WorkOK, LoopOK, Instances, Calls, Gated, TypeOK, PlanOK
<1>7. AnchorOK'
  BY <1>1 DEF AnchorOK, Instances, Calls, Gated, Applying, Ids, NoRelease, Observed, TypeOK
<1>8. ReleaseOK'
  BY <1>1 DEF WorkOK, ReleaseOK, NoRelease
<1>9. TrustOK'
  <2>1. ASSUME NEW c \in ReleaseOrders, NEW i \in Group(c), Done(i)
        PROVE  Done(i)'
    BY <1>3, <1>5, <2>1 DEF PlanOK
  <2>2. QED
    BY <1>1, <1>4, <1>5, <2>1 DEF WorkOK, TrustOK, NoRelease, ReleaseOrders, Group, Ids
<1>10. GroupOK'
  <2>1. ASSUME NEW i \in Gated, Done(i)
        PROVE  Done(i)'
    BY <1>3, <2>1 DEF PlanOK
  <2>2. QED
    BY <1>1, <1>4, <2>1 DEF WorkOK, GroupOK, Gated, Applying, Ids, NoRelease, Group, ReleaseOrders
<1>11. OrdersOK'
  BY <1>4, <1>5, SharingIsOfThePlan DEF WorkOK, OrdersOK, Ids, Group, ReleaseOrders
<1>12. QED
  BY <1>6, <1>7, <1>8, <1>9, <1>10, <1>11 DEF WorkOK

\* The loop goes on behind an instance that is worked off, or waits for its gate.
LEMMA LoopGoesOn ==
  ASSUME PlanOK, TypeOK, WorkOK, stage # "action", at \in Gated \/ Done(at),
         plan' = plan, runs' = runs, at' = at + 1, stage' = "action",
         \A i : Done(i) => Done(i)'
  PROVE  LoopOK'
<1>1. at \in Nat /\ at \in Instances /\ Instances = 1..Len(plan.actions)
  BY DEF PlanOK, TypeOK, WorkOK, LoopOK
<1>2. \A i \in Instances : runs[i] # "idle" <=> Calls(i) /\ i < at'
  BY <1>1 DEF WorkOK, LoopOK
<1>3. \A i \in Instances : i < at' /\ i \notin Gated => Done(i)'
  BY <1>1 DEF WorkOK, LoopOK
<1>4. QED
  BY <1>1, <1>2, <1>3 DEF LoopOK, Instances, Calls, Gated

\* All advances of the instance are executed: the loop goes on, or the release.
LEMMA AppliedKeeps ==
  ASSUME PlanOK, TypeOK, WorkOK, AdvancesApplied, UNCHANGED <<harness, pending>>
  PROVE  WorkOK'
<1>1. /\ stage = "applying" /\ DueAdvances = {}
      /\ UNCHANGED <<plan, anchor, executedControls, gates, runs, harness, pending>>
  BY DEF AdvancesApplied
<1>2. Done(anchor)
  BY <1>1 DEF WorkOK, AnchorOK, Applying, Done, DueAdvances
<1>3. \A i : Done(i) => Done(i)'
  BY <1>1, DoneStays
<1>4. CASE release = NoRelease
  <2>1. stage' = "action" /\ at' = at + 1 /\ release' = release /\ at = anchor /\ at \in Instances
    BY <1>1, <1>4 DEF AdvancesApplied, WorkOK, AnchorOK
  <2>2. LoopOK'
    BY <1>1, <1>2, <1>3, <2>1, LoopGoesOn
  <2>3. AnchorOK'
    BY <2>1 DEF AnchorOK
  <2>4. ReleaseOK'
    BY <2>1, <1>4 DEF ReleaseOK, NoRelease
  <2>5. TrustOK'
    BY <1>1, <1>3, <1>4, <2>1 DEF WorkOK, TrustOK, NoRelease, ReleaseOrders, Group, Ids
  <2>6. GroupOK'
    BY <1>1, <1>2, <1>3, <1>4, <2>1 DEF WorkOK, GroupOK, Gated, Applying, Ids, NoRelease, Group, ReleaseOrders
  <2>7. OrdersOK'
    BY <1>1, <2>1, SharingIsOfThePlan DEF WorkOK, OrdersOK, Ids, Group, ReleaseOrders
  <2>8. QED
    BY <2>2, <2>3, <2>4, <2>5, <2>6, <2>7 DEF WorkOK
<1>5. CASE release # NoRelease
  <2>1. /\ stage' = "releasing" /\ at' = at
        /\ release' = [release EXCEPT !.k = @ + 1]
        /\ release.control \in ReleaseOrders
        /\ release.k \in 1..Len(Ids(release.control))
        /\ Len(Ids(release.control)) \in Nat
        /\ anchor = Ids(release.control)[release.k]
    BY <1>1, <1>5 DEF AdvancesApplied, WorkOK, AnchorOK, ReleaseOK, PlanOK
  <2>2. /\ release'.control = release.control /\ release'.k = release.k + 1
        /\ release' # NoRelease
    BY <1>5, <2>1 DEF TypeOK, NoRelease, PlanOK
  <2>3. LoopOK'
    BY <1>1, <1>3, <2>1 DEF WorkOK, LoopOK, Instances, Calls, Gated
  <2>4. AnchorOK'
    BY <2>1 DEF AnchorOK
  <2>5. ReleaseOK'
    <3>1. ASSUME NEW i \in Instances, NEW l \in 1..release.k, i = Ids(release.control)[l]
          PROVE  Done(i)'
      <4>1. CASE l = release.k
        BY <1>2, <1>3, <2>1, <3>1, <4>1
      <4>2. CASE l # release.k
        BY <1>3, <1>5, <3>1, <4>2 DEF WorkOK, ReleaseOK, TypeOK
      <4>3. QED
        BY <4>1, <4>2
    <3>2. at \in Gated /\ \A i \in Group(release.control) : runs[i] # "idle"
      BY <1>5 DEF WorkOK, ReleaseOK
    <3>3. release'.k \in 1..(Len(Ids(release.control)) + 1) /\ release'.k - 1 = release.k
      BY <2>1, <2>2
    <3>4. QED
      BY <1>1, <2>1, <2>2, <3>1, <3>2, <3>3 DEF ReleaseOK, Instances, Gated, Ids, Group, ReleaseOrders
  <2>6. TrustOK'
    BY <1>1, <1>3, <1>5, <2>1, <2>2 DEF WorkOK, TrustOK, NoRelease, ReleaseOrders, Group, Ids
  <2>7. GroupOK'
    <3> SUFFICES ASSUME harness # "trust"
                 PROVE  GroupOK'
      BY <1>1 DEF GroupOK
    <3>1. \A l \in 1..release.k : Ids(release.control)[l] \notin pending
      <4>1. anchor \notin pending
        BY <1>1 DEF WorkOK, GroupOK, Applying
      <4>2. QED
        BY <1>5, <2>1, <4>1 DEF WorkOK, GroupOK, TypeOK
    <3>2. \A i \in Gated : runs[i] # "idle" => i \in pending \/ Done(i)'
      BY <1>2, <1>3 DEF WorkOK, GroupOK
    <3>3. QED
      BY <1>1, <1>5, <2>1, <2>2, <3>1, <3>2 DEF WorkOK, GroupOK, Gated, Applying, Ids, NoRelease, Group, ReleaseOrders
  <2>8. OrdersOK'
    BY <1>1, <2>1, <2>2, SharingIsOfThePlan DEF WorkOK, OrdersOK, Ids, Group, ReleaseOrders
  <2>9. QED
    BY <2>3, <2>4, <2>5, <2>6, <2>7, <2>8 DEF WorkOK
<1>6. QED
  BY <1>4, <1>5

-----------------------------------------------------------------------------
(***************************************************************************)
(* Releases of the trust interpreter.                                      *)
(***************************************************************************)

\* The loop launches a run that waits for its gate.
LEMMA RunGatedKeeps ==
  ASSUME PlanOK, TypeOK, WorkOK, harness = "trust", RunGated, UNCHANGED <<harness, pending>>
  PROVE  WorkOK'
<1>1. /\ stage = "action" /\ at \in Nat /\ at <= Len(plan.actions) /\ at \in Gated
      /\ Calls(at)
      /\ runs' = [runs EXCEPT ![at] = "pending"]
      /\ stage' = "releasing"
      /\ UNCHANGED <<plan, at, anchor, release, executedControls, gates>>
  BY DEF RunGated, AtAction, TypeOK, Calls
<1>2. at \in Instances /\ release = NoRelease
  BY <1>1 DEF PlanOK, WorkOK, ReleaseOK
<1>3. runs[at] = "idle"
  BY <1>1, <1>2 DEF WorkOK, LoopOK, PlanOK
<1>4. \A i \in Instances : i # at => runs'[i] = runs[i]
  BY <1>1 DEF TypeOK
<1>5. \A i \in Instances : Done(i) => Done(i)'
  BY <1>1, <1>3, <1>4, DoneStays
<1>6. LoopOK'
  BY <1>1, <1>2, <1>3, <1>4, <1>5 DEF WorkOK, LoopOK, Instances, Calls, Gated, TypeOK, PlanOK
<1>7. AnchorOK'
  BY <1>1 DEF AnchorOK
<1>8. ReleaseOK'
  BY <1>1, <1>2 DEF ReleaseOK, NoRelease, Gated
<1>9. TrustOK'
  <2>1. ASSUME NEW c \in ReleaseOrders, NEW i \in Group(c), Done(i)
        PROVE  Done(i)'
    BY <1>5, <2>1 DEF PlanOK
  <2>2. QED
    BY <1>1, <1>2, <2>1 DEF WorkOK, TrustOK, NoRelease, ReleaseOrders, Group, Ids
<1>10. GroupOK' /\ OrdersOK'
  BY DEF GroupOK, OrdersOK
<1>11. QED
  BY <1>6, <1>7, <1>8, <1>9, <1>10 DEF WorkOK

\* The runs of a control that is ready are launched.
LEMMA ReadyIsLaunched ==
  ASSUME PlanOK, NEW c \in ReleaseOrders
  PROVE  c \in Ready <=> c \notin executedControls /\ \A i \in Group(c) : runs[i] # "idle"
<1>1. /\ Group(c) = {Ids(c)[k] : k \in R!Positions(Ids(c))}
      /\ Group(c) \subseteq Gated
  BY DEF PlanOK, Group
<1>2. QED
  BY <1>1 DEF Ready, Launched

\* The release of the first order that is ready begins.
LEMMA BeginReleaseKeeps ==
  ASSUME PlanOK, TypeOK, WorkOK, harness = "trust", BeginRelease, UNCHANGED <<harness, pending>>
  PROVE  WorkOK'
<1>1. PICK control \in Ready :
        /\ executedControls' = executedControls \cup {control}
        /\ release' = [control |-> control, k |-> 1]
  <2>1. Ready \in SUBSET Nat /\ Ready # {}
    BY DEF BeginRelease, Ready, PlanOK
  <2>2. \E c \in Ready : \A other \in Ready : c <= other
    BY <2>1, SmallestExists
  <2>3. QED
    BY <2>2 DEF BeginRelease
<1>2. /\ stage = "releasing" /\ release = NoRelease
      /\ UNCHANGED <<plan, stage, at, anchor, gates, runs>>
  BY DEF BeginRelease
<1>3. /\ control \in ReleaseOrders /\ control \notin executedControls
      /\ \A i \in Group(control) : runs[i] # "idle"
      /\ Len(Ids(control)) \in Nat
      /\ control # 0
  <2>1. control \in ReleaseOrders
    BY DEF Ready
  <2>2. QED
    BY <2>1, ReadyIsLaunched DEF PlanOK
<1>4. /\ release'.control = control /\ release'.k = 1
      /\ release' # NoRelease
  BY <1>1, <1>3 DEF NoRelease
<1>5. \A i : Done(i) => Done(i)'
  BY <1>1, <1>2, DoneStays
<1>6. LoopOK'
  BY <1>2, <1>5 DEF WorkOK, LoopOK, Instances, Calls, Gated
<1>7. AnchorOK'
  BY <1>2 DEF AnchorOK
<1>8. ReleaseOK'
  BY <1>2, <1>3, <1>4 DEF WorkOK, ReleaseOK, Instances, Gated, Ids, NoRelease, Group, ReleaseOrders
<1>9. TrustOK'
  <2>1. \A c \in ReleaseOrders : c # release.control
    BY <1>2 DEF NoRelease, PlanOK
  <2>2. QED
    BY <1>1, <1>2, <1>4, <1>5, <2>1 DEF WorkOK, TrustOK, ReleaseOrders, Group, Ids
<1>10. GroupOK' /\ OrdersOK'
  BY DEF GroupOK, OrdersOK
<1>11. QED
  BY <1>6, <1>7, <1>8, <1>9, <1>10 DEF WorkOK

\* No order is ready: the loop goes on.
LEMMA NothingReadyKeeps ==
  ASSUME PlanOK, TypeOK, WorkOK, harness = "trust", NothingReady, UNCHANGED <<harness, pending>>
  PROVE  WorkOK'
<1>1. /\ stage = "releasing" /\ release = NoRelease /\ Ready = {}
      /\ stage' = "action" /\ at' = at + 1
      /\ UNCHANGED <<plan, anchor, release, executedControls, gates, runs>>
  BY DEF NothingReady
<1>2. at \in Gated /\ at \in Instances
  BY <1>1 DEF WorkOK, ReleaseOK, PlanOK
<1>3. \A i : Done(i) => Done(i)'
  BY <1>1, DoneStays
<1>4. LoopOK'
  BY <1>1, <1>2, <1>3, LoopGoesOn
<1>5. AnchorOK'
  BY <1>1 DEF AnchorOK
<1>6. ReleaseOK'
  BY <1>1 DEF ReleaseOK, NoRelease
<1>7. TrustOK'
  <2>1. \A c \in ReleaseOrders :
          c \in executedControls \/ \E i \in Group(c) : runs[i] = "idle"
    BY <1>1, ReadyIsLaunched
  <2>2. QED
    BY <1>1, <1>3, <2>1 DEF WorkOK, TrustOK, NoRelease, ReleaseOrders, Group, Ids
<1>8. GroupOK' /\ OrdersOK'
  BY DEF GroupOK, OrdersOK
<1>9. QED
  BY <1>4, <1>5, <1>6, <1>7, <1>8 DEF WorkOK

\* The gate of the next run of the order is opened, and the run awaited.
LEMMA OpenGateKeeps ==
  ASSUME PlanOK, TypeOK, WorkOK, harness = "trust", OpenGate, UNCHANGED <<harness, pending>>
  PROVE  WorkOK'
<1>1. /\ stage = "releasing" /\ release # NoRelease
      /\ release.k <= Len(Ids(release.control))
      /\ gates' = gates \cup {Ids(release.control)[release.k]}
      /\ anchor' = Ids(release.control)[release.k]
      /\ stage' = "settling"
      /\ UNCHANGED <<plan, at, release, executedControls, runs>>
  BY DEF OpenGate
<1>2. /\ release.control \in ReleaseOrders
      /\ release.k \in 1..Len(Ids(release.control))
      /\ \A i \in Group(release.control) : runs[i] # "idle"
  BY <1>1 DEF WorkOK, ReleaseOK, PlanOK
<1>3. anchor' \in Group(release.control)
  BY <1>1, <1>2, MembersOfGroup
<1>4. anchor' \in Gated /\ anchor' \in Instances /\ runs[anchor'] # "idle"
      /\ plan.actions[anchor'].actionId = "tx.run"
  BY <1>2, <1>3 DEF PlanOK
<1>5. \A i : Done(i) => Done(i)'
  BY <1>1, DoneStays
<1>6. LoopOK'
  BY <1>1, <1>5 DEF WorkOK, LoopOK, Instances, Calls, Gated
<1>7. AnchorOK'
  BY <1>1, <1>2, <1>4 DEF AnchorOK, Instances, Calls, Gated, Ids, NoRelease, Applying
<1>8. ReleaseOK'
  <2>1. ASSUME NEW i \in Instances, NEW l \in 1..(release.k - 1),
               i = Ids(release.control)[l]
        PROVE  Done(i)'
    BY <1>1, <1>5, <2>1 DEF WorkOK, ReleaseOK
  <2>2. QED
    BY <1>1, <2>1 DEF WorkOK, ReleaseOK, Instances, Gated, Ids, NoRelease, Group, ReleaseOrders
<1>9. TrustOK'
  BY <1>1, <1>5 DEF WorkOK, TrustOK, NoRelease, ReleaseOrders, Group, Ids
<1>10. GroupOK' /\ OrdersOK'
  BY DEF GroupOK, OrdersOK
<1>11. QED
  BY <1>6, <1>7, <1>8, <1>9, <1>10 DEF WorkOK

\* The order is worked off.
LEMMA EndReleaseKeeps ==
  ASSUME PlanOK, TypeOK, WorkOK, harness = "trust", EndRelease, UNCHANGED <<harness, pending>>
  PROVE  WorkOK'
<1>1. /\ stage = "releasing" /\ release # NoRelease
      /\ release.k > Len(Ids(release.control))
      /\ release' = NoRelease
      /\ UNCHANGED <<plan, stage, at, anchor, executedControls, gates, runs>>
  BY DEF EndRelease
<1>2. release.control \in ReleaseOrders
  BY <1>1 DEF WorkOK, ReleaseOK
<1>3. \A i \in Group(release.control) : Done(i)
  <2>1. Len(Ids(release.control)) \in Nat
    BY <1>2 DEF PlanOK
  <2>2. release.k - 1 = Len(Ids(release.control))
    BY <1>1, <2>1 DEF WorkOK, ReleaseOK, TypeOK
  <2>3. \A l \in 1..Len(Ids(release.control)) : Done(Ids(release.control)[l])
    BY <1>1, <1>2, <2>2 DEF WorkOK, ReleaseOK, PlanOK
  <2>4. QED
    BY <1>2, <2>3, MembersOfGroup
<1>4. \A i : Done(i) => Done(i)'
  BY <1>1, DoneStays
<1>5. LoopOK'
  BY <1>1, <1>4 DEF WorkOK, LoopOK, Instances, Calls, Gated
<1>6. AnchorOK'
  BY <1>1 DEF AnchorOK
<1>7. ReleaseOK'
  BY <1>1 DEF WorkOK, ReleaseOK, NoRelease, Gated
<1>8. TrustOK'
  <2>1. ASSUME NEW c \in ReleaseOrders, c \in executedControls, NEW i \in Group(c)
        PROVE  Done(i)'
    BY <1>3, <1>4, <2>1 DEF WorkOK, TrustOK
  <2>2. QED
    BY <1>1, <2>1 DEF TrustOK, NoRelease, ReleaseOrders, Group, Ids
<1>9. GroupOK' /\ OrdersOK'
  BY DEF GroupOK, OrdersOK
<1>10. QED
  BY <1>5, <1>6, <1>7, <1>8, <1>9 DEF WorkOK

-----------------------------------------------------------------------------
(***************************************************************************)
(* Groups of the benchmark.                                                *)
(***************************************************************************)

\* The control of a run of a group names it.
LEMMA ControlOfRun ==
  ASSUME PlanOK, NEW i \in Gated
  PROVE  CompletionControl(i) \in ReleaseOrders /\ i \in Group(CompletionControl(i))
<1> DEFINE controls == {c \in ReleaseOrders : \E k \in R!Positions(Ids(c)) : Ids(c)[k] = i}
<1>1. \A c \in controls : c \in ReleaseOrders /\ i \in Group(c)
  BY DEF Group
<1>2. controls \in SUBSET Nat /\ controls # {}
  <2>1. PICK c \in ReleaseOrders : i \in Group(c)
    BY DEF PlanOK
  <2>2. c \in controls
    BY <2>1, MembersOfGroup DEF R!Positions
  <2>3. controls \subseteq Nat
    BY DEF PlanOK
  <2>4. QED
    BY <2>2, <2>3
<1>3. \E c \in controls : \A other \in controls : c <= other
  BY <1>2, SmallestExists
<1>4. CompletionControl(i) = CHOOSE c \in controls : \A other \in controls : c <= other
  BY DEF CompletionControl
<1>5. CompletionControl(i) \in controls
  BY <1>3, <1>4
<1>6. QED
  BY <1>1, <1>5

\* A run of a group is launched; the last one opens the gates of all.
LEMMA RunOfGroupKeeps ==
  ASSUME PlanOK, TypeOK, WorkOK, RunOfGroup, UNCHANGED harness
  PROVE  WorkOK'
<1> DEFINE control == CompletionControl(at)
           complete == Group(control) \subseteq pending'
<1>1. /\ stage = "action" /\ at <= Len(plan.actions) /\ at \in Gated /\ Calls(at)
      /\ harness = "interpreter"
      /\ runs' = [runs EXCEPT ![at] = "pending"]
      /\ pending' = pending \cup {at}
      /\ UNCHANGED <<plan, anchor, executedControls>>
  BY DEF RunOfGroup, AtAction, Calls, Launch
<1>2. /\ at \in Instances /\ release = NoRelease
      /\ runs[at] = "idle"
  BY <1>1 DEF PlanOK, WorkOK, ReleaseOK, LoopOK
<1>3. \A i \in Instances : i # at => runs'[i] = runs[i]
  BY <1>1 DEF TypeOK
<1>4. runs'[at] = "pending"
  BY <1>1, <1>2 DEF TypeOK
<1>5. control \in ReleaseOrders /\ at \in Group(control)
  BY <1>1, ControlOfRun
<1>6. control # 0 /\ Len(Ids(control)) \in Nat
  BY <1>5 DEF PlanOK
<1>7. \A c \in ReleaseOrders : \A i \in Group(c) : i \in Gated /\ i \in Instances
  BY DEF PlanOK
<1>8. \A i \in pending' : i \in Gated /\ i \in Instances /\ runs'[i] # "idle"
  BY <1>1, <1>3, <1>4 DEF WorkOK, GroupOK, PlanOK
<1> HIDE DEF control
<1>9. ASSUME ~SharedRuns, NEW c \in ReleaseOrders, c # control
      PROVE  IF \E i \in Group(c) : runs'[i] = "idle"
             THEN \A i \in Group(c) : runs'[i] # "idle" => i \in pending'
             ELSE Group(c) \cap pending' = {}
  <2>1. at \notin Group(c)
    BY <1>5, <1>9, OneGroup
  <2>2. \A i \in Group(c) : runs'[i] = runs[i] /\ (i \in pending' <=> i \in pending)
    BY <1>1, <1>3, <1>7, <2>1
  <2>3. c # release.control
    BY <1>2 DEF NoRelease, PlanOK
  <2>4. IF \E i \in Group(c) : runs[i] = "idle"
        THEN \A i \in Group(c) : runs[i] # "idle" => i \in pending
        ELSE Group(c) \cap pending = {}
    BY <1>1, <1>9, <2>3 DEF WorkOK, OrdersOK
  <2>5. QED
    BY <2>2, <2>4
<1>10. CASE Group(control) \subseteq pending'
  <2>1. /\ gates' = gates \cup Group(control)
        /\ release' = [control |-> control, k |-> 1]
        /\ stage' = "releasing" /\ at' = at
    BY <1>10 DEF RunOfGroup, control
  <2>2. release'.control = control /\ release'.k = 1 /\ release' # NoRelease
    BY <1>6, <2>1 DEF NoRelease
  <2>3. \A i \in Instances : Done(i) => Done(i)'
    BY <1>1, <1>2, <1>3, <2>1, DoneStays
  <2>4. LoopOK'
    BY <1>1, <1>2, <1>3, <1>4, <2>1, <2>3 DEF WorkOK, LoopOK, Instances, Calls, Gated, TypeOK, PlanOK
  <2>5. AnchorOK'
    BY <2>1 DEF AnchorOK
  <2>6. ReleaseOK'
    BY <1>1, <1>5, <1>6, <1>8, <1>10, <2>1, <2>2
       DEF ReleaseOK, Instances, Gated, Ids, NoRelease, Group, ReleaseOrders
  <2>7. TrustOK'
    BY <1>1 DEF TrustOK, RunOfGroup
  <2>8. GroupOK'
    <3>1. ASSUME NEW i \in Gated, runs'[i] # "idle"
          PROVE  i \in pending' \/ Done(i)'
      BY <1>1, <1>3, <2>3, <3>1 DEF WorkOK, GroupOK, PlanOK, Applying
    <3>2. QED
      BY <1>1, <1>8, <2>1, <2>2, <3>1
         DEF WorkOK, GroupOK, Gated, Applying, Ids, NoRelease, Group, ReleaseOrders
  <2>9. OrdersOK'
    <3> SUFFICES ASSUME ~SharedRuns, NEW c \in ReleaseOrders, c # control
                 PROVE  (IF \E i \in Group(c) : runs[i] = "idle"
                         THEN \A i \in Group(c) : runs[i] # "idle" => i \in pending
                         ELSE Group(c) \cap pending = {})'
      BY <1>1, <2>2, SharingIsOfThePlan DEF OrdersOK, ReleaseOrders
    <3>1. IF \E i \in Group(c) : runs'[i] = "idle"
          THEN \A i \in Group(c) : runs'[i] # "idle" => i \in pending'
          ELSE Group(c) \cap pending' = {}
      BY <1>9
    <3>2. Group(c)' = Group(c)
      BY <1>1 DEF Group, Ids
    <3>3. QED
      BY <3>1, <3>2
  <2>10. QED
    BY <2>4, <2>5, <2>6, <2>7, <2>8, <2>9 DEF WorkOK
<1>11. CASE ~(Group(control) \subseteq pending')
  <2>1. at' = at + 1 /\ UNCHANGED <<gates, release, stage>>
    BY <1>11 DEF RunOfGroup, control
  <2>2. \A i \in Instances : Done(i) => Done(i)'
    BY <1>1, <1>2, <1>3, <2>1, DoneStays
  <2>3. LoopOK'
    <3>1. stage' = "action" /\ at \in Nat /\ Instances = 1..Len(plan.actions)
      BY <1>1, <2>1 DEF PlanOK, TypeOK
    <3>2. \A i \in Instances : runs'[i] # "idle" <=> Calls(i) /\ i < at'
      BY <1>1, <1>2, <1>3, <1>4, <2>1, <3>1 DEF WorkOK, LoopOK
    <3>3. \A i \in Instances : i < at' /\ i \notin Gated => Done(i)'
      BY <1>1, <2>1, <2>2, <3>1 DEF WorkOK, LoopOK
    <3>4. QED
      BY <1>1, <3>1, <3>2, <3>3 DEF LoopOK, Instances, Calls, Gated
  <2>4. AnchorOK'
    BY <1>1, <2>1 DEF AnchorOK
  <2>5. ReleaseOK'
    BY <1>1, <1>2, <2>1 DEF ReleaseOK, NoRelease
  <2>6. TrustOK'
    BY <1>1 DEF TrustOK, RunOfGroup
  <2>7. GroupOK'
    <3>1. ASSUME NEW i \in Gated, runs'[i] # "idle"
          PROVE  i \in pending' \/ Done(i)'
      BY <1>1, <1>3, <2>2, <3>1 DEF WorkOK, GroupOK, PlanOK, Applying
    <3>2. QED
      BY <1>1, <1>2, <1>8, <2>1, <3>1
         DEF WorkOK, GroupOK, Gated, Applying, Ids, NoRelease, Group, ReleaseOrders
  <2>8. OrdersOK'
    <3>1. ASSUME ~SharedRuns
          PROVE  /\ \E i \in Group(control) : runs'[i] = "idle"
                 /\ \A i \in Group(control) : runs'[i] # "idle" => i \in pending'
      <4>1. control # release.control
        BY <1>2, <1>6 DEF NoRelease
      <4>2. \A i \in Group(control) : runs[i] # "idle" => i \in pending
        BY <1>1, <1>2, <1>5, <3>1, <4>1 DEF WorkOK, OrdersOK
      <4>3. PICK j \in Group(control) : j \notin pending'
        BY <1>11
      <4>4. j # at /\ runs[j] = "idle"
        BY <1>1, <4>2, <4>3
      <4>5. runs'[j] = "idle"
        BY <1>3, <1>5, <1>7, <4>4
      <4>6. QED
        BY <1>1, <1>3, <1>5, <1>7, <4>2, <4>5
    <3>2. ASSUME ~SharedRuns, NEW c \in ReleaseOrders
          PROVE  IF \E i \in Group(c) : runs'[i] = "idle"
                 THEN \A i \in Group(c) : runs'[i] # "idle" => i \in pending'
                 ELSE Group(c) \cap pending' = {}
      <4>1. CASE c = control
        BY <3>1, <3>2, <4>1
      <4>2. CASE c # control
        BY <1>9, <3>2, <4>2
      <4>3. QED
        BY <4>1, <4>2
    <3>3. QED
      BY <1>1, <3>2, SharingIsOfThePlan DEF OrdersOK, Ids, Group, ReleaseOrders
  <2>9. QED
    BY <2>3, <2>4, <2>5, <2>6, <2>7, <2>8 DEF WorkOK
<1>12. QED
  BY <1>10, <1>11

\* The next run of the group is awaited.
LEMMA AwaitNextKeeps ==
  ASSUME PlanOK, TypeOK, WorkOK, harness # "trust", AwaitNext, UNCHANGED harness
  PROVE  WorkOK'
<1>1. /\ stage = "releasing" /\ release # NoRelease
      /\ release.k <= Len(Ids(release.control))
      /\ anchor' = Ids(release.control)[release.k]
      /\ stage' = "settling"
      /\ UNCHANGED <<plan, at, release, executedControls, gates, runs, pending, harness>>
  BY DEF AwaitNext, Await, WorkOK, GroupOK
<1>2. /\ release.control \in ReleaseOrders
      /\ release.k \in 1..Len(Ids(release.control))
      /\ \A i \in Group(release.control) : runs[i] # "idle"
      /\ Group(release.control) \subseteq gates
  BY <1>1 DEF WorkOK, ReleaseOK, PlanOK, GroupOK
<1>3. anchor' \in Group(release.control)
  BY <1>1, <1>2, MembersOfGroup
<1>4. /\ anchor' \in Gated /\ anchor' \in Instances /\ runs[anchor'] # "idle"
      /\ anchor' \in gates
      /\ plan.actions[anchor'].actionId = "tx.run"
  BY <1>2, <1>3 DEF PlanOK
<1>5. \A i : Done(i) => Done(i)'
  BY <1>1, DoneStays
<1>6. LoopOK'
  BY <1>1, <1>5 DEF WorkOK, LoopOK, Instances, Calls, Gated
<1>7. AnchorOK'
  BY <1>1, <1>2, <1>4 DEF AnchorOK, Instances, Calls, Gated, Ids, NoRelease, Applying
<1>8. ReleaseOK'
  <2>1. ASSUME NEW i \in Instances, NEW l \in 1..(release.k - 1),
               i = Ids(release.control)[l]
        PROVE  Done(i)'
    BY <1>1, <1>5, <2>1 DEF WorkOK, ReleaseOK
  <2>2. QED
    BY <1>1, <2>1 DEF WorkOK, ReleaseOK, Instances, Gated, Ids, NoRelease, Group, ReleaseOrders
<1>9. TrustOK'
  BY <1>1 DEF TrustOK
<1>10. GroupOK'
  <2>1. \A i \in Gated : runs[i] # "idle" => i \in pending \/ Done(i)'
    BY <1>1, <1>5 DEF WorkOK, GroupOK, Applying
  <2>2. QED
    BY <1>1, <2>1 DEF WorkOK, GroupOK, Gated, Applying, Ids, NoRelease, Group, ReleaseOrders
<1>11. OrdersOK'
  BY <1>1, SharingIsOfThePlan DEF WorkOK, OrdersOK, Ids, Group, ReleaseOrders
<1>12. QED
  BY <1>6, <1>7, <1>8, <1>9, <1>10, <1>11 DEF WorkOK

\* The group is worked off.
LEMMA GroupIsOverKeeps ==
  ASSUME PlanOK, TypeOK, WorkOK, harness # "trust", GroupIsOver, UNCHANGED harness
  PROVE  WorkOK'
<1>1. /\ stage = "releasing" /\ release # NoRelease
      /\ release.k > Len(Ids(release.control))
      /\ release' = NoRelease
      /\ stage' = "action" /\ at' = at + 1
      /\ UNCHANGED <<plan, anchor, executedControls, gates, runs, pending, harness>>
  BY DEF GroupIsOver, WorkOK, GroupOK
<1>2. /\ at \in Gated /\ at \in Instances
      /\ release.control \in ReleaseOrders
      /\ \A i \in Group(release.control) : runs[i] # "idle"
  BY <1>1 DEF WorkOK, ReleaseOK, PlanOK
<1>3. Group(release.control) \cap pending = {}
  <2>1. release.k - 1 = Len(Ids(release.control))
    BY <1>1, <1>2 DEF WorkOK, ReleaseOK, TypeOK, PlanOK
  <2>2. \A l \in 1..Len(Ids(release.control)) : Ids(release.control)[l] \notin pending
    BY <1>1, <2>1 DEF WorkOK, GroupOK
  <2>3. QED
    BY <1>2, <2>2, MembersOfGroup
<1>4. \A i : Done(i) => Done(i)'
  BY <1>1, DoneStays
<1>5. LoopOK'
  BY <1>1, <1>2, <1>4, LoopGoesOn
<1>6. AnchorOK'
  BY <1>1 DEF AnchorOK
<1>7. ReleaseOK'
  BY <1>1 DEF ReleaseOK, NoRelease
<1>8. TrustOK'
  BY <1>1 DEF TrustOK
<1>9. GroupOK'
  <2>1. \A i \in Gated : runs[i] # "idle" => i \in pending \/ Done(i)'
    BY <1>1, <1>4 DEF WorkOK, GroupOK, Applying
  <2>2. QED
    BY <1>1, <2>1 DEF WorkOK, GroupOK, Gated, Applying, Ids, NoRelease, Group, ReleaseOrders
<1>10. OrdersOK'
  <2>1. ASSUME ~SharedRuns, NEW c \in ReleaseOrders
        PROVE  IF \E i \in Group(c) : runs[i] = "idle"
               THEN \A i \in Group(c) : runs[i] # "idle" => i \in pending
               ELSE Group(c) \cap pending = {}
    <3>1. CASE c = release.control
      BY <1>2, <1>3, <3>1
    <3>2. CASE c # release.control
      BY <2>1, <3>2 DEF WorkOK, OrdersOK
    <3>3. QED
      BY <3>1, <3>2
  <2>2. QED
    BY <1>1, <2>1, SharingIsOfThePlan DEF OrdersOK, Ids, Group, ReleaseOrders
<1>11. QED
  BY <1>5, <1>6, <1>7, <1>8, <1>9, <1>10 DEF WorkOK

-----------------------------------------------------------------------------
(***************************************************************************)
(* The package, the clock, and the gates.                                  *)
(***************************************************************************)

\* A pending call settles.
LEMMA PackageSettlesKeeps ==
  ASSUME PlanOK, TypeOK, WorkOK, PackageSettles, UNCHANGED <<harness, pending>>
  PROVE  WorkOK'
<1>1. PICK j \in Instances, outcome \in Settlements :
        /\ runs[j] = "pending"
        /\ runs' = [runs EXCEPT ![j] = outcome]
  BY DEF PackageSettles
<1>2. UNCHANGED <<plan, stage, at, anchor, release, executedControls, gates>>
  BY DEF PackageSettles, interpreterVars
<1>3. /\ \A i \in Instances : i # j => runs'[i] = runs[i]
      /\ runs'[j] = outcome
      /\ outcome # "idle" /\ outcome # "pending"
  BY <1>1 DEF TypeOK, Settlements
<1>4. \A i \in Instances : runs'[i] = "idle" <=> runs[i] = "idle"
  BY <1>1, <1>3
<1>5. \A i \in Instances : Observed(i) => Observed(i)'
  BY <1>1, <1>2, <1>3 DEF Observed, Calls
<1>6. \A i \in Instances : Done(i) => Done(i)'
  BY <1>1, <1>2, <1>3, DoneStays
<1>7. /\ \A c \in ReleaseOrders : \A i \in Group(c) : i \in Instances
      /\ \A i \in Gated : i \in Instances
  BY DEF PlanOK
<1>8. LoopOK'
  BY <1>2, <1>4, <1>6 DEF WorkOK, LoopOK, Instances, Calls, Gated
<1>9. AnchorOK'
  BY <1>2, <1>4, <1>5 DEF WorkOK, AnchorOK, Instances, Calls, Gated, Ids, NoRelease, Applying
<1>10. ReleaseOK'
  <2>1. ASSUME release # NoRelease, NEW i \in Instances, NEW l \in 1..(release.k - 1),
               i = Ids(release.control)[l]
        PROVE  Done(i)'
    BY <1>6, <2>1 DEF WorkOK, ReleaseOK
  <2>2. QED
    BY <1>2, <1>4, <1>7, <2>1
       DEF WorkOK, ReleaseOK, Instances, Gated, Ids, NoRelease, Group, ReleaseOrders
<1>11. TrustOK'
  BY <1>2, <1>4, <1>6, <1>7 DEF WorkOK, TrustOK, NoRelease, ReleaseOrders, Group, Ids
<1>12. GroupOK'
  BY <1>2, <1>4, <1>6, <1>7
     DEF WorkOK, GroupOK, Gated, Applying, Ids, NoRelease, Group, ReleaseOrders
<1>13. OrdersOK'
  BY <1>2, <1>4, <1>7, SharingIsOfThePlan DEF WorkOK, OrdersOK, Ids, Group, ReleaseOrders
<1>14. QED
  BY <1>8, <1>9, <1>10, <1>11, <1>12, <1>13 DEF WorkOK

\* The clock's operations keep its queue well formed and no timer late.
LEMMA ClockKeeps ==
  ASSUME TypeOK, NoTimerIsLate,
         \/ \E timer \in timers : Earliest(timer) /\ Fire(timer)
         \/ \E delay \in Delays : SetTimeout(delay)
         \/ \E timer \in timers : ClearTimeout(timer)
         \/ /\ \A timer \in timers : timer.due > target
            /\ now' = target
            /\ UNCHANGED <<timers, nextHandle>>
         \/ UNCHANGED clockVars
  PROVE  /\ now' \in Nat
         /\ timers' \subseteq [due : Nat, sequence : Nat]
         /\ nextHandle' \in Nat
         /\ NoTimerIsLate'
<1>1. CASE \E timer \in timers : Earliest(timer) /\ Fire(timer)
  BY <1>1 DEF TypeOK, NoTimerIsLate, Earliest, Fire, Precedes
<1>2. CASE \E delay \in Delays : SetTimeout(delay)
  BY <1>2, ClockAssumption DEF TypeOK, NoTimerIsLate, SetTimeout
<1>3. CASE \E timer \in timers : ClearTimeout(timer)
  BY <1>3 DEF TypeOK, NoTimerIsLate, ClearTimeout
<1>4. CASE /\ \A timer \in timers : timer.due > target
           /\ now' = target
           /\ UNCHANGED <<timers, nextHandle>>
  BY <1>4 DEF TypeOK, NoTimerIsLate
<1>5. CASE UNCHANGED clockVars
  BY <1>5 DEF TypeOK, NoTimerIsLate, clockVars
<1>6. QED
  BY <1>1, <1>2, <1>3, <1>4, <1>5

\* A gate was opened in its order, whatever settles or is launched afterwards.
Opened(i) ==
  \E c \in ReleaseOrders : \E k \in R!Positions(Ids(c)) :
    /\ Ids(c)[k] = i
    /\ \A l \in R!Positions(Ids(c)) : runs[Ids(c)[l]] # "idle"
    /\ harness = "trust" =>
         c \in executedControls /\ \A l \in 1..(k - 1) : Concluded(Ids(c)[l])

LEMMA OpenedStays ==
  ASSUME PlanOK, UNCHANGED <<plan, harness>>,
         executedControls \subseteq executedControls',
         \A i \in Instances : runs[i] # "idle" => runs'[i] # "idle",
         \A i \in Instances : runs[i] \in Settlements => runs'[i] = runs[i],
         NEW i, Opened(i)
  PROVE  Opened(i)'
<1>1. \A c \in ReleaseOrders : \A k \in R!Positions(Ids(c)) : Ids(c)[k] \in Instances
  BY DEF PlanOK, R!Positions
<1>2. PICK c \in ReleaseOrders : \E k \in R!Positions(Ids(c)) :
        /\ Ids(c)[k] = i
        /\ \A l \in R!Positions(Ids(c)) : runs[Ids(c)[l]] # "idle"
        /\ harness = "trust" =>
             c \in executedControls /\ \A l \in 1..(k - 1) : Concluded(Ids(c)[l])
  BY DEF Opened
<1> PICK k \in R!Positions(Ids(c)) :
        /\ Ids(c)[k] = i
        /\ \A l \in R!Positions(Ids(c)) : runs[Ids(c)[l]] # "idle"
        /\ harness = "trust" =>
             c \in executedControls /\ \A l \in 1..(k - 1) : Concluded(Ids(c)[l])
  BY <1>2
<1>3. \A l \in R!Positions(Ids(c)) : runs'[Ids(c)[l]] # "idle"
  BY <1>1
<1>4. \A l \in 1..(k - 1) : l \in R!Positions(Ids(c))
  BY DEF PlanOK, R!Positions
<1>5. harness = "trust" =>
        c \in executedControls' /\ \A l \in 1..(k - 1) : runs'[Ids(c)[l]] \in Settlements
  BY <1>1, <1>4 DEF Concluded
<1>6. QED
  BY <1>3, <1>5 DEF Opened, Concluded, ReleaseOrders, Ids

-----------------------------------------------------------------------------
(***************************************************************************)
(* The invariant holds.                                                    *)
(***************************************************************************)

LEMMA InterpretersStart == InitAny => InterpretersInvariant
<1> SUFFICES ASSUME InitAny
             PROVE  InterpretersInvariant
  OBVIOUS
<1>1. /\ plan \in Plans \cup BenchmarkPlans
      /\ R!Structure(plan)
      /\ Begin
      /\ harness \in {"trust", "interpreter", "direct"}
      /\ pending = {}
      /\ harness = "direct" => ReleaseOrders = {}
  BY BenchmarkPlansAssumption DEF InitAny, Init, R!Valid, DirectAdmits, ReleaseOrders
<1>2. PlanOK
  BY <1>1, PlanIsSound
<1>3. /\ stage = "action" /\ at = 1 /\ release = NoRelease
      /\ executedControls = {} /\ gates = {}
      /\ runs = [i \in Instances |-> "idle"]
      /\ now = 0 /\ target = 0 /\ timers = {} /\ nextHandle = 1
  BY <1>1 DEF Begin, ClockInit
<1>4. TypeOK /\ NoTimerIsLate
  BY <1>1, <1>3 DEF TypeOK, NoTimerIsLate, NoRelease
<1>5. GatesOpenInOrder /\ InterpretationIsComplete
  BY <1>3 DEF GatesOpenInOrder, InterpretationIsComplete
<1>6. \A c \in ReleaseOrders : \A i \in Group(c) : runs[i] = "idle"
  BY <1>2, <1>3 DEF PlanOK
<1>7. \A c \in ReleaseOrders : \E i \in Group(c) : TRUE
  <2>1. \A c \in ReleaseOrders : 1 \in 1..Len(Ids(c))
    BY <1>2 DEF PlanOK
  <2>2. QED
    BY <1>2, <2>1, MembersOfGroup
<1>8. LoopOK /\ AnchorOK /\ ReleaseOK
  BY <1>2, <1>3 DEF LoopOK, AnchorOK, ReleaseOK, PlanOK
<1>9. TrustOK
  BY <1>3, <1>6, <1>7 DEF TrustOK
<1>10. GroupOK /\ OrdersOK
  BY <1>1, <1>2, <1>3, <1>6, <1>7 DEF GroupOK, OrdersOK, Applying, PlanOK
<1>11. QED
  BY <1>1, <1>4, <1>5, <1>8, <1>9, <1>10 DEF InterpretersInvariant, ProgressOK, WorkOK

\* Every step keeps the types, and no timer late.
LEMMA TypesAreKept ==
  ASSUME PlanOK, TypeOK, NoTimerIsLate, ProgressOK, [NextAny]_allVars
  PROVE  TypeOK' /\ NoTimerIsLate'
<1> DEFINE Clock == /\ now' \in Nat
                    /\ timers' \subseteq [due : Nat, sequence : Nat]
                    /\ nextHandle' \in Nat
                    /\ NoTimerIsLate'
           Rest == UNCHANGED <<plan, at, release, target, harness>>
<1>1. ASSUME Clock, plan' = plan, target' \in Nat, at' \in Nat \ {0},
             release' \in [control : Nat, k : Nat],
             runs' \in [Instances -> {"idle", "pending"} \cup Settlements],
             harness' = harness
      PROVE  TypeOK' /\ NoTimerIsLate'
  BY <1>1 DEF TypeOK, Instances
<1>2. ASSUME UNCHANGED clockVars
      PROVE  Clock
  BY <1>2, ClockKeeps
<1>3. CASE UNCHANGED allVars
  BY <1>1, <1>2, <1>3 DEF TypeOK, allVars, vars, interpreterVars
<1>4. CASE Package /\ UNCHANGED <<harness, pending>>
  <2>1. CASE PackageSettles
    BY <1>1, <1>2, <1>4, <2>1 DEF PackageSettles, TypeOK, interpreterVars
  <2>2. CASE PackageSetsTimer
    <3>1. Clock
      BY <2>2, ClockKeeps DEF PackageSetsTimer
    <3>2. QED
      BY <1>1, <1>4, <2>2, <3>1 DEF PackageSetsTimer, TypeOK, interpreterVars
  <2>3. CASE PackageClearsTimer
    <3>1. Clock
      BY <2>3, ClockKeeps DEF PackageClearsTimer
    <3>2. QED
      BY <1>1, <1>4, <2>3, <3>1 DEF PackageClearsTimer, TypeOK, interpreterVars
  <2>4. QED
    BY <1>4, <2>1, <2>2, <2>3 DEF Package
\* The advance that is applied, of either interpreter.
<1>5. ASSUME ApplyAdvance, harness' = harness
      PROVE  TypeOK' /\ NoTimerIsLate'
  <2>1. DueAdvances \in SUBSET Advances /\ DueAdvances # {}
    BY <1>5 DEF ApplyAdvance, DueAdvances
  <2>2. \E c \in DueAdvances : \A other \in DueAdvances : c <= other
    BY <2>1, SmallestExists DEF PlanOK
  <2>3. PICK c \in DueAdvances : target' = now + plan.transformations[c].advanceMs
    BY <1>5, <2>2 DEF ApplyAdvance
  <2>4. target' \in Nat
    <3>1. c \in Advances
      BY <2>1, <2>3
    <3>2. plan.transformations[c].advanceMs \in Nat
      BY <3>1 DEF PlanOK
    <3>3. QED
      BY <2>3, <3>2 DEF TypeOK
  <2>5. QED
    BY <1>1, <1>2, <1>5, <2>4 DEF ApplyAdvance, TypeOK
<1>6. ASSUME AdvancesApplied, harness' = harness
      PROVE  TypeOK' /\ NoTimerIsLate'
  BY <1>1, <1>2, <1>6 DEF AdvancesApplied, TypeOK
<1>7. CASE harness = "trust" /\ Interpret /\ UNCHANGED <<harness, pending>>
  <2>1. CASE Start \/ Run \/ RunGated \/ Commit
    BY <1>1, <1>2, <1>7, <2>1 DEF Start, Run, RunGated, Commit, TypeOK
  <2>2. CASE ActionsOver \/ Settled \/ Blocked \/ CommitSettled \/ CommitStarves
    BY <1>1, <1>2, <1>7, <2>2 DEF ActionsOver, Settled, Blocked, CommitSettled, CommitStarves, TypeOK
  <2>3. CASE SettlingFiresTimer \/ AdvanceFiresTimer
    <3>1. Clock
      BY <2>3, ClockKeeps DEF SettlingFiresTimer, AdvanceFiresTimer
    <3>2. QED
      BY <1>1, <1>7, <2>3, <3>1 DEF SettlingFiresTimer, AdvanceFiresTimer, TypeOK, interpreterVars
  <2>4. CASE AdvanceEnds
    <3>1. Clock
      BY <2>4, ClockKeeps DEF AdvanceEnds
    <3>2. QED
      BY <1>1, <1>7, <2>4, <3>1 DEF AdvanceEnds, TypeOK
  <2>5. CASE BeginRelease
    <3>1. Ready \in SUBSET Nat /\ Ready # {}
      BY <2>5 DEF BeginRelease, Ready, PlanOK
    <3>2. \E c \in Ready : \A other \in Ready : c <= other
      BY <3>1, SmallestExists
    <3>3. PICK c \in Ready : release' = [control |-> c, k |-> 1]
      BY <2>5, <3>2 DEF BeginRelease
    <3>4. release' \in [control : Nat, k : Nat]
      BY <3>1, <3>3
    <3>5. QED
      BY <1>1, <1>2, <1>7, <2>5, <3>4 DEF BeginRelease, TypeOK
  <2>6. CASE NothingReady \/ OpenGate \/ EndRelease
    BY <1>1, <1>2, <1>7, <2>6 DEF NothingReady, OpenGate, EndRelease, NoRelease, TypeOK
  <2>7. QED
    BY <1>5, <1>6, <1>7, <2>1, <2>2, <2>3, <2>4, <2>5, <2>6 DEF Interpret
<1>8. CASE harness # "trust" /\ BenchmarkInterpret /\ UNCHANGED harness
  <2>1. CASE Create \/ RunScripted \/ CommitSettling \/ DirectCall
    BY <1>1, <1>2, <1>8, <2>1 DEF Create, RunScripted, CommitSettling, DirectCall, Launch, TypeOK
  <2>2. CASE RunOfGroup
    <3>1. CompletionControl(at) \in Nat
      BY <2>2, ControlOfRun DEF RunOfGroup, PlanOK
    <3>2. release' \in [control : Nat, k : Nat] /\ at' \in Nat \ {0}
      BY <2>2, <3>1 DEF RunOfGroup, TypeOK
    <3>3. runs' \in [Instances -> {"idle", "pending"} \cup Settlements]
      BY <2>2 DEF RunOfGroup, Launch, TypeOK
    <3>4. UNCHANGED <<clockVars, plan, target>>
      BY <2>2 DEF RunOfGroup
    <3>5. QED
      BY <1>1, <1>2, <1>8, <3>2, <3>3, <3>4 DEF TypeOK
  <2>3. CASE AwaitNext \/ GroupIsOver \/ PlanIsOver
    BY <1>1, <1>2, <1>8, <2>3 DEF AwaitNext, GroupIsOver, PlanIsOver, NoRelease, TypeOK
  <2>4. CASE AwaitedSettles \/ LoopIsBlocked \/ UnawaitedFails
    BY <1>1, <1>2, <1>8, <2>4 DEF AwaitedSettles, LoopIsBlocked, UnawaitedFails, TypeOK
  <2>5. CASE LoopFiresTimer \/ AdvanceFires
    <3>1. Clock
      BY <2>5, ClockKeeps DEF LoopFiresTimer, AdvanceFires
    <3>2. QED
      BY <1>1, <1>8, <2>5, <3>1 DEF LoopFiresTimer, AdvanceFires, TypeOK, interpreterVars
  <2>6. CASE AdvanceIsOver
    <3>1. Clock
      BY <2>6, ClockKeeps DEF AdvanceIsOver
    <3>2. QED
      BY <1>1, <1>8, <2>6, <3>1 DEF AdvanceIsOver, TypeOK
  <2>7. QED
    BY <1>5, <1>6, <1>8, <2>1, <2>2, <2>3, <2>4, <2>5, <2>6
       DEF BenchmarkInterpret, ApplyControls, ControlsApplied
<1>9. QED
  BY <1>3, <1>4, <1>7, <1>8 DEF NextAny, InterpretAny, Over

\* Every step opens a gate in its order, if it opens one.
LEMMA GatesAreKept ==
  ASSUME PlanOK, TypeOK, Active => WorkOK, GatesOpenInOrder, [NextAny]_allVars
  PROVE  GatesOpenInOrder'
<1>1. \A i \in gates : Opened(i)
  BY DEF GatesOpenInOrder, Opened
<1>2. GatesOpenInOrder' <=> \A i \in gates' : Opened(i)'
  BY DEF GatesOpenInOrder, Opened
\* Steps that neither launch nor open.
<1>3. ASSUME UNCHANGED <<plan, gates, harness, runs>>,
             executedControls \subseteq executedControls'
      PROVE  GatesOpenInOrder'
  BY <1>1, <1>2, <1>3, OpenedStays
\* A launch.
<1>4. ASSUME UNCHANGED <<plan, gates, harness, executedControls>>,
             stage = "action", runs' = [runs EXCEPT ![at] = "pending"]
      PROVE  GatesOpenInOrder'
  <2>1. \A i \in Instances : i = at => runs[i] = "idle"
    BY <1>4 DEF Active, Ends, WorkOK, LoopOK, PlanOK
  <2>2. \A i \in Instances : runs'[i] = IF i = at THEN "pending" ELSE runs[i]
    BY <1>4 DEF TypeOK
  <2>3. \A i : Opened(i) => Opened(i)'
    BY <1>4, <2>1, <2>2, OpenedStays DEF Settlements
  <2>4. QED
    BY <1>1, <1>2, <1>4, <2>3
<1>5. CASE UNCHANGED allVars
  BY <1>3, <1>5 DEF allVars, vars, interpreterVars
<1>6. CASE Package /\ UNCHANGED <<harness, pending>>
  <2>1. CASE PackageSettles
    <3>1. PICK j \in Instances, outcome \in Settlements :
            /\ runs[j] = "pending"
            /\ runs' = [runs EXCEPT ![j] = outcome]
      BY <2>1 DEF PackageSettles
    <3>2. UNCHANGED <<plan, gates, executedControls, harness>>
      BY <1>6, <2>1 DEF PackageSettles, interpreterVars
    <3>3. \A i \in Instances : runs'[i] = IF i = j THEN outcome ELSE runs[i]
      BY <3>1 DEF TypeOK
    <3>4. \A i : Opened(i) => Opened(i)'
      BY <3>1, <3>2, <3>3, OpenedStays DEF Settlements
    <3>5. QED
      BY <1>1, <1>2, <3>2, <3>4
  <2>2. CASE PackageSetsTimer \/ PackageClearsTimer
    BY <1>3, <1>6, <2>2 DEF PackageSetsTimer, PackageClearsTimer, interpreterVars
  <2>3. QED
    BY <1>6, <2>1, <2>2 DEF Package
<1>7. CASE harness = "trust" /\ Interpret /\ UNCHANGED <<harness, pending>>
  <2>1. CASE Run \/ RunGated \/ Commit
    BY <1>4, <1>7, <2>1 DEF Run, RunGated, Commit, AtAction
  <2>2. CASE Start \/ ActionsOver \/ Settled \/ Blocked \/ CommitSettled \/ CommitStarves
    BY <1>3, <1>7, <2>2 DEF Start, ActionsOver, Settled, Blocked, CommitSettled, CommitStarves
  <2>3. CASE SettlingFiresTimer \/ AdvanceFiresTimer \/ AdvanceEnds
    BY <1>3, <1>7, <2>3 DEF SettlingFiresTimer, AdvanceFiresTimer, AdvanceEnds, interpreterVars
  <2>4. CASE ApplyAdvance \/ AdvancesApplied
    BY <1>3, <1>7, <2>4 DEF ApplyAdvance, AdvancesApplied
  <2>5. CASE BeginRelease \/ NothingReady \/ EndRelease
    BY <1>3, <1>7, <2>5 DEF BeginRelease, NothingReady, EndRelease
  <2>6. CASE OpenGate
    <3>1. /\ stage = "releasing" /\ release # NoRelease
          /\ release.k <= Len(Ids(release.control))
          /\ gates' = gates \cup {Ids(release.control)[release.k]}
          /\ UNCHANGED <<plan, executedControls, runs, harness>>
      BY <1>7, <2>6 DEF OpenGate
    <3>2. WorkOK
      BY <3>1 DEF Active, Ends
    <3>3. /\ release.control \in ReleaseOrders /\ release.control \in executedControls
          /\ release.k \in R!Positions(Ids(release.control))
          /\ \A i \in Group(release.control) : runs[i] # "idle"
      BY <1>7, <3>1, <3>2 DEF WorkOK, ReleaseOK, TrustOK, PlanOK, R!Positions
    <3>4. \A l \in R!Positions(Ids(release.control)) : runs[Ids(release.control)[l]] # "idle"
      BY <3>3, MembersOfGroup DEF R!Positions
    <3>5. \A l \in 1..(release.k - 1) : Concluded(Ids(release.control)[l])
      <4>1. ASSUME NEW l \in 1..(release.k - 1)
            PROVE  Concluded(Ids(release.control)[l])
        <5>1. l \in 1..Len(Ids(release.control))
          BY <3>3 DEF R!Positions, PlanOK
        <5>2. /\ Ids(release.control)[l] \in Instances
              /\ plan.actions[Ids(release.control)[l]].actionId = "tx.run"
          BY <3>3, <5>1, MembersOfGroup DEF PlanOK
        <5>3. Done(Ids(release.control)[l])
          BY <3>1, <3>2, <5>2 DEF WorkOK, ReleaseOK
        <5>4. QED
          BY <5>2, <5>3 DEF Done, Observed, Calls, Concluded, Settlements
      <4>2. QED
        BY <4>1
    <3>6. Opened(Ids(release.control)[release.k])
      BY <3>3, <3>4, <3>5 DEF Opened
    <3>7. \A i \in gates' : Opened(i)
      BY <1>1, <3>1, <3>6
    <3>8. \A i : Opened(i) => Opened(i)'
      BY <3>1, OpenedStays
    <3>9. QED
      BY <1>2, <3>7, <3>8
  <2>7. QED
    BY <1>7, <2>1, <2>2, <2>3, <2>4, <2>5, <2>6 DEF Interpret
<1>8. CASE harness # "trust" /\ BenchmarkInterpret /\ UNCHANGED harness
  <2>1. CASE RunScripted \/ CommitSettling \/ DirectCall
    BY <1>4, <1>8, <2>1 DEF RunScripted, CommitSettling, DirectCall, Launch, AtAction
  <2>2. CASE Create \/ AwaitNext \/ GroupIsOver \/ PlanIsOver
    BY <1>3, <1>8, <2>2 DEF Create, AwaitNext, GroupIsOver, PlanIsOver
  <2>3. CASE AwaitedSettles \/ LoopIsBlocked \/ UnawaitedFails
    BY <1>3, <1>8, <2>3 DEF AwaitedSettles, LoopIsBlocked, UnawaitedFails
  <2>4. CASE LoopFiresTimer \/ AdvanceFires \/ AdvanceIsOver
    BY <1>3, <1>8, <2>4 DEF LoopFiresTimer, AdvanceFires, AdvanceIsOver, interpreterVars
  <2>5. CASE ApplyControls \/ ControlsApplied
    BY <1>3, <1>8, <2>5 DEF ApplyControls, ControlsApplied, ApplyAdvance, AdvancesApplied
  <2>6. CASE RunOfGroup
    <3> DEFINE control == CompletionControl(at)
    <3>1. /\ stage = "action" /\ at \in Gated
          /\ runs' = [runs EXCEPT ![at] = "pending"]
          /\ UNCHANGED <<plan, executedControls>>
      BY <2>6 DEF RunOfGroup, AtAction, Launch
    <3>2. control \in ReleaseOrders
      BY <3>1, ControlOfRun
    <3>3. CASE gates' = gates
      BY <1>4, <1>8, <3>1, <3>3
    <3>4. CASE gates' # gates
      <4>1. /\ gates' = gates \cup Group(control)
            /\ release' = [control |-> control, k |-> 1]
            /\ stage' = "releasing"
        BY <2>6, <3>4 DEF RunOfGroup
      <4>2. WorkOK'
        BY <1>8, <2>6, <3>1, RunOfGroupKeeps DEF Active, Ends
      <4>3. /\ release'.control = control
            /\ release' # NoRelease
        <5>1. control # 0
          BY <3>2 DEF PlanOK
        <5>2. QED
          BY <4>1, <5>1 DEF NoRelease
      <4>4. \A i \in Group(control) : runs'[i] # "idle"
        BY <3>1, <4>2, <4>3 DEF WorkOK, ReleaseOK, NoRelease, Group, Ids
      <4>5. ASSUME NEW i \in Group(control)
            PROVE  Opened(i)'
        <5>1. PICK k \in 1..Len(Ids(control)) : Ids(control)[k] = i
          BY <3>2, MembersOfGroup
        <5>2. \A l \in R!Positions(Ids(control)) : runs'[Ids(control)[l]] # "idle"
          BY <3>2, <4>4, MembersOfGroup DEF R!Positions
        <5> HIDE DEF control
        <5>3. QED
          BY <1>8, <3>1, <3>2, <5>1, <5>2 DEF Opened, ReleaseOrders, Ids, R!Positions
      <4>6. \A i \in Instances : i = at => runs[i] = "idle"
        BY <3>1 DEF Active, Ends, WorkOK, LoopOK, PlanOK
      <4>7. \A i \in Instances : runs'[i] = IF i = at THEN "pending" ELSE runs[i]
        BY <3>1 DEF TypeOK
      <4>8. \A i : Opened(i) => Opened(i)'
        BY <1>8, <3>1, <4>6, <4>7, OpenedStays DEF Settlements
      <4>9. QED
        BY <1>1, <1>2, <4>1, <4>5, <4>8
    <3>5. QED
      BY <3>3, <3>4
  <2>7. QED
    BY <1>8, <2>1, <2>2, <2>3, <2>4, <2>5, <2>6 DEF BenchmarkInterpret
<1>9. QED
  BY <1>5, <1>6, <1>7, <1>8 DEF NextAny, InterpretAny, Over

\* A plan that is worked off has nothing left, whoever worked it off.
LEMMA EverythingIsDone ==
  ASSUME PlanOK, \A i \in Instances : Done(i)
  PROVE  /\ Advances \subseteq executedControls /\ Gated \subseteq gates
         /\ \A i \in Instances :
              plan.actions[i].actionId \in {"tx.run", "tx.commit"} => runs[i] \in {"returned", "thrown"}
<1>1. Advances \subseteq executedControls
  BY DEF PlanOK, Done
<1>2. Gated \subseteq gates
  BY DEF PlanOK, Done
<1>3. QED
  BY <1>1, <1>2 DEF Done, Observed, Calls

\* Behind the loop all calls are launched.
LEMMA AllIsLaunched ==
  ASSUME PlanOK, TypeOK, WorkOK, at > Len(plan.actions)
  PROVE  /\ \A i \in Gated : runs[i] # "idle"
         /\ \A c \in ReleaseOrders : \A i \in Group(c) : runs[i] # "idle"
         /\ \A i \in Instances : i \notin Gated => Done(i)
<1>1. at \in Nat /\ Len(plan.actions) \in Nat /\ Instances = 1..Len(plan.actions)
  BY DEF TypeOK, PlanOK
<1>2. \A i \in Instances : i < at
  BY <1>1
<1>3. \A i \in Gated : i \in Instances /\ Calls(i)
  BY DEF PlanOK, Calls
<1>4. \A i \in Gated : runs[i] # "idle"
  BY <1>2, <1>3 DEF WorkOK, LoopOK
<1>5. \A c \in ReleaseOrders : Group(c) \subseteq Gated
  BY DEF PlanOK
<1>6. QED
  BY <1>2, <1>4, <1>5 DEF WorkOK, LoopOK

\* An interpretation ends with nothing left, but for orders that share a run.
LEMMA CompletenessIsKept ==
  ASSUME PlanOK, TypeOK, Active => WorkOK, InterpretationIsComplete, [NextAny]_allVars
  PROVE  InterpretationIsComplete'
<1>1. ASSUME stage' \notin {"leftover", "interpreted"}
      PROVE  InterpretationIsComplete'
  BY <1>1 DEF InterpretationIsComplete
<1>2. ASSUME stage' = "interpreted", \A i \in Instances : Done(i),
             UNCHANGED <<plan, executedControls, gates, runs>>
      PROVE  InterpretationIsComplete'
  BY <1>2, EverythingIsDone DEF InterpretationIsComplete, Advances, Gated, Instances
<1>3. CASE UNCHANGED allVars
  BY <1>3, SharingIsOfThePlan
     DEF InterpretationIsComplete, allVars, vars, interpreterVars, Advances, Gated, Instances
<1>4. CASE Package /\ UNCHANGED <<harness, pending>>
  BY <1>1, <1>4
     DEF Package, PackageSettles, PackageSetsTimer, PackageClearsTimer, interpreterVars, Active, Ends
<1>5. CASE harness = "trust" /\ Interpret /\ UNCHANGED <<harness, pending>>
  <2>1. CASE Start \/ Run \/ RunGated \/ Commit \/ Blocked \/ CommitStarves
    BY <1>1, <2>1 DEF Start, Run, RunGated, Commit, Blocked, CommitStarves
  <2>2. CASE Settled \/ CommitSettled
    BY <1>1, <2>2 DEF Settled, CommitSettled, AfterSettling
  <2>3. CASE SettlingFiresTimer \/ AdvanceFiresTimer \/ AdvanceEnds
    BY <1>1, <2>3 DEF SettlingFiresTimer, AdvanceFiresTimer, AdvanceEnds, interpreterVars
  <2>4. CASE ApplyAdvance \/ AdvancesApplied
    BY <1>1, <2>4 DEF ApplyAdvance, AdvancesApplied
  <2>5. CASE BeginRelease \/ NothingReady \/ OpenGate \/ EndRelease
    BY <1>1, <2>5 DEF BeginRelease, NothingReady, OpenGate, EndRelease
  <2>6. CASE ActionsOver
    <3>1. /\ stage = "action" /\ at > Len(plan.actions)
          /\ UNCHANGED <<plan, executedControls, gates, runs>>
      BY <2>6 DEF ActionsOver
    <3>2. WorkOK /\ release = NoRelease
      BY <3>1 DEF Active, Ends, WorkOK, ReleaseOK
    <3>3. ReleaseOrders \subseteq executedControls
      BY <1>5, <3>1, <3>2, AllIsLaunched DEF WorkOK, TrustOK
    <3>4. \A c \in ReleaseOrders : c # release.control
      BY <3>2 DEF NoRelease, PlanOK
    <3>5. \A i \in Gated : Done(i)
      BY <1>5, <3>2, <3>3, <3>4 DEF WorkOK, TrustOK, PlanOK
    <3>6. \A i \in Instances : Done(i)
      BY <3>1, <3>2, <3>5, AllIsLaunched
    <3>7. stage' = "interpreted"
      BY <2>6, <3>3, <3>6, EverythingIsDone DEF ActionsOver
    <3>8. QED
      BY <1>2, <3>1, <3>6, <3>7
  <2>7. QED
    BY <1>5, <2>1, <2>2, <2>3, <2>4, <2>5, <2>6 DEF Interpret
<1>6. CASE harness # "trust" /\ BenchmarkInterpret /\ UNCHANGED harness
  <2>1. CASE Create \/ RunScripted \/ CommitSettling \/ DirectCall \/ AwaitNext \/ GroupIsOver
    BY <1>1, <2>1 DEF Create, RunScripted, CommitSettling, DirectCall, Await, AwaitNext, GroupIsOver
  <2>2. CASE RunOfGroup
    BY <1>1, <2>2 DEF RunOfGroup, AtAction
  <2>3. CASE AwaitedSettles \/ LoopIsBlocked \/ UnawaitedFails
    BY <1>1, <2>3 DEF AwaitedSettles, LoopIsBlocked, UnawaitedFails, AfterSettling
  <2>4. CASE LoopFiresTimer \/ AdvanceFires \/ AdvanceIsOver
    BY <1>1, <2>4 DEF LoopFiresTimer, AdvanceFires, AdvanceIsOver, interpreterVars, Turning
  <2>5. CASE ApplyControls \/ ControlsApplied
    BY <1>1, <2>5 DEF ApplyControls, ControlsApplied, ApplyAdvance, AdvancesApplied
  <2>6. CASE PlanIsOver
    <3>1. /\ stage = "action" /\ at > Len(plan.actions)
          /\ stage' = IF pending = {} THEN "interpreted" ELSE "leftover"
          /\ UNCHANGED <<plan, executedControls, gates, runs, harness>>
      BY <1>6, <2>6 DEF PlanIsOver
    <3>2. WorkOK /\ release = NoRelease /\ ~Applying
      BY <3>1 DEF Active, Ends, WorkOK, ReleaseOK, Applying
    <3>3. CASE pending = {}
      <4>1. \A i \in Gated : Done(i)
        BY <1>6, <3>1, <3>2, <3>3, AllIsLaunched DEF WorkOK, GroupOK
      <4>2. \A i \in Instances : Done(i)
        BY <3>1, <3>2, <4>1, AllIsLaunched
      <4>3. QED
        BY <1>2, <3>1, <3>3, <4>2
    <3>4. CASE pending # {}
      <4>1. PICK i \in pending : i \in Gated
        BY <1>6, <3>2, <3>4 DEF WorkOK, GroupOK
      <4>2. PICK c \in ReleaseOrders : i \in Group(c)
        BY <4>1 DEF PlanOK
      <4>3. harness = "interpreter"
        BY <1>6, <3>2, <4>2 DEF WorkOK, GroupOK, TypeOK
      <4>4. SharedRuns
        <5>1. SUFFICES ASSUME ~SharedRuns
                       PROVE  FALSE
          OBVIOUS
        <5>2. c # release.control
          BY <3>2, <4>2 DEF NoRelease, PlanOK
        <5>3. \A j \in Group(c) : runs[j] # "idle"
          BY <3>1, <3>2, <4>2, AllIsLaunched
        <5>4. QED
          BY <1>6, <3>2, <4>1, <4>2, <5>1, <5>2, <5>3 DEF WorkOK, OrdersOK
      <4>5. QED
        BY <3>1, <3>4, <4>3, <4>4, SharingIsOfThePlan DEF InterpretationIsComplete
    <3>5. QED
      BY <3>3, <3>4
  <2>7. QED
    BY <1>6, <2>1, <2>2, <2>3, <2>4, <2>5, <2>6 DEF BenchmarkInterpret
<1>7. QED
  BY <1>3, <1>4, <1>5, <1>6 DEF NextAny, InterpretAny, Over

\* Every step keeps what is known of an interpretation under way.
LEMMA ProgressIsKept ==
  ASSUME PlanOK, TypeOK, ProgressOK, [NextAny]_allVars
  PROVE  ProgressOK'
<1>1. ASSUME stage' \in Ends
      PROVE  ProgressOK'
  BY <1>1 DEF ProgressOK, Active, Ends
<1>2. ASSUME WorkOK'
      PROVE  ProgressOK'
  BY <1>2 DEF ProgressOK
<1>3. ASSUME UNCHANGED <<interpreterVars, runs, harness, pending>>
      PROVE  ProgressOK'
  <2>1. UNCHANGED <<plan, stage, at, anchor, release, executedControls, gates, runs, harness, pending>>
    BY <1>3 DEF interpreterVars
  <2>2. \A i : Done(i) => Done(i)'
    BY <2>1, DoneStays
  <2>3. LoopOK => LoopOK'
    BY <2>1, <2>2 DEF LoopOK, Instances, Calls, Gated
  <2>4. AnchorOK => AnchorOK'
    BY <2>1 DEF AnchorOK, Instances, Calls, Gated, Ids, NoRelease, Applying, Observed
  <2>5. ReleaseOK => ReleaseOK'
    <3>1. ASSUME ReleaseOK, release # NoRelease, NEW i \in Instances,
                 NEW l \in 1..(release.k - 1), i = Ids(release.control)[l]
          PROVE  Done(i)'
      BY <2>2, <3>1 DEF ReleaseOK
    <3>2. QED
      BY <2>1, <3>1 DEF ReleaseOK, Instances, Gated, Ids, NoRelease, Group, ReleaseOrders
  <2>6. TrustOK => TrustOK'
    BY <2>1, <2>2 DEF TrustOK, NoRelease, ReleaseOrders, Group, Ids
  <2>7. GroupOK => GroupOK'
    BY <2>1, <2>2 DEF GroupOK, Gated, Applying, Ids, NoRelease, Group, ReleaseOrders
  <2>8. OrdersOK => OrdersOK'
    BY <2>1, SharingIsOfThePlan DEF OrdersOK, Ids, Group, ReleaseOrders
  <2>9. QED
    BY <2>1, <2>3, <2>4, <2>5, <2>6, <2>7, <2>8 DEF ProgressOK, WorkOK, Active
<1>4. Active => WorkOK
  BY DEF ProgressOK
<1>5. at \in Nat \ {0} /\ Instances = 1..Len(plan.actions) /\ Len(plan.actions) \in Nat
  BY DEF TypeOK, PlanOK
<1>6. CASE UNCHANGED allVars
  BY <1>3, <1>6 DEF allVars, vars
<1>7. CASE Package /\ UNCHANGED <<harness, pending>>
  <2>1. CASE PackageSettles
    BY <1>2, <1>4, <1>7, <2>1, PackageSettlesKeeps DEF PackageSettles
  <2>2. CASE PackageSetsTimer \/ PackageClearsTimer
    BY <1>3, <1>7, <2>2 DEF PackageSetsTimer, PackageClearsTimer
  <2>3. QED
    BY <1>7, <2>1, <2>2 DEF Package
\* The advance and its end, of either interpreter.
<1>8. ASSUME ApplyAdvance, UNCHANGED <<harness, pending>>
      PROVE  ProgressOK'
  <2>1. PICK c \in Advances : executedControls' = executedControls \cup {c}
    <3>1. DueAdvances \in SUBSET Advances /\ DueAdvances # {}
      BY <1>8 DEF ApplyAdvance, DueAdvances
    <3>2. \E c \in DueAdvances : \A other \in DueAdvances : c <= other
      BY <3>1, SmallestExists DEF PlanOK
    <3>3. PICK c \in DueAdvances : executedControls' = executedControls \cup {c}
      BY <1>8, <3>2 DEF ApplyAdvance
    <3>4. QED
      BY <3>1, <3>3
  <2>2. Applying /\ Applying' /\ WorkOK
    BY <1>4, <1>8 DEF ApplyAdvance, Applying, Active, Ends
  <2>3. UNCHANGED <<plan, at, anchor, release, gates, runs, harness, pending>>
    BY <1>8 DEF ApplyAdvance
  <2>4. WorkOK'
    BY <2>1, <2>2, <2>3, AdvancingKeeps
  <2>5. QED
    BY <1>2, <2>4
<1>9. ASSUME AdvancesApplied, UNCHANGED <<harness, pending>>
      PROVE  ProgressOK'
  BY <1>2, <1>4, <1>9, AppliedKeeps DEF AdvancesApplied, Active, Ends
\* The turns of an advance.
<1>10. ASSUME Applying, Applying', executedControls' = executedControls,
              UNCHANGED <<plan, at, anchor, release, gates, runs, harness, pending>>
       PROVE  ProgressOK'
  <2>1. WorkOK
    BY <1>4, <1>10 DEF Applying, Active, Ends
  <2>2. {} \in SUBSET Advances /\ executedControls' = executedControls \cup {}
    BY <1>10
  <2>3. WorkOK'
    BY <1>10, <2>1, <2>2, AdvancingKeeps
  <2>4. QED
    BY <1>2, <2>3
\* A call that is awaited settles.
<1>11. ASSUME stage \in {"settling", "committing"}, runs[anchor] # "pending",
              stage' = AfterSettling(runs[anchor]),
              UNCHANGED <<plan, at, anchor, release, executedControls, gates, runs, harness>>,
              harness = "trust" \/ pending' = pending \ {anchor}
       PROVE  ProgressOK'
  <2>1. WorkOK
    BY <1>4, <1>11 DEF Active, Ends
  <2>2. CASE runs[anchor] = "infrastructure"
    BY <1>1, <1>11, <2>2 DEF AfterSettling, Ends
  <2>3. CASE runs[anchor] # "infrastructure"
    BY <1>2, <1>11, <2>1, <2>3, SettlingKeeps DEF AfterSettling
  <2>4. QED
    BY <2>2, <2>3
\* An action is begun whose call no gate holds back.
<1>12. ASSUME stage = "action", at <= Len(plan.actions), at \notin Gated,
              UNCHANGED <<plan, at, release, executedControls, gates, harness, pending>>,
              anchor' = at,
              \/ /\ Calls(at) /\ stage' \in {"settling", "committing"}
                 /\ runs' = [runs EXCEPT ![at] = "pending"]
              \/ ~Calls(at) /\ stage' = "applying" /\ runs' = runs
       PROVE  ProgressOK'
  <2>1. WorkOK /\ at \in Instances
    BY <1>4, <1>5, <1>12 DEF Active, Ends
  <2>2. WorkOK'
    BY <1>12, <2>1, LaunchKeeps
  <2>3. QED
    BY <1>2, <2>2
<1>13. plan.actions[at].actionId # "tx.run" => at \notin Gated
  BY DEF PlanOK
<1>14. CASE harness = "trust" /\ Interpret /\ UNCHANGED <<harness, pending>>
  <2>1. CASE Start
    BY <1>12, <1>13, <1>14, <2>1 DEF Start, AtAction, Calls
  <2>2. CASE Run
    BY <1>12, <1>14, <2>2 DEF Run, AtAction, Calls
  <2>3. CASE RunGated
    BY <1>2, <1>4, <1>14, <2>3, RunGatedKeeps DEF RunGated, AtAction, Active, Ends
  <2>4. CASE Commit
    BY <1>12, <1>13, <1>14, <2>4 DEF Commit, AtAction, Calls
  <2>5. CASE ActionsOver \/ Blocked \/ CommitStarves
    BY <1>1, <2>5 DEF ActionsOver, Blocked, CommitStarves, Ends
  <2>6. CASE Settled
    BY <1>11, <1>14, <2>6 DEF Settled
  <2>7. CASE CommitSettled
    BY <1>11, <1>14, <2>7 DEF CommitSettled
  <2>8. CASE SettlingFiresTimer \/ AdvanceFiresTimer
    BY <1>3, <1>14, <2>8 DEF SettlingFiresTimer, AdvanceFiresTimer
  <2>9. CASE AdvanceEnds
    BY <1>10, <1>14, <2>9 DEF AdvanceEnds, Applying
  <2>10. CASE ApplyAdvance
    BY <1>8, <1>14, <2>10
  <2>11. CASE AdvancesApplied
    BY <1>9, <1>14, <2>11
  <2>12. CASE BeginRelease
    BY <1>2, <1>4, <1>14, <2>12, BeginReleaseKeeps DEF BeginRelease, Active, Ends
  <2>13. CASE NothingReady
    BY <1>2, <1>4, <1>14, <2>13, NothingReadyKeeps DEF NothingReady, Active, Ends
  <2>14. CASE OpenGate
    BY <1>2, <1>4, <1>14, <2>14, OpenGateKeeps DEF OpenGate, Active, Ends
  <2>15. CASE EndRelease
    BY <1>2, <1>4, <1>14, <2>15, EndReleaseKeeps DEF EndRelease, Active, Ends
  <2>16. QED
    BY <1>14, <2>1, <2>2, <2>3, <2>4, <2>5, <2>6, <2>7, <2>8, <2>9, <2>10, <2>11, <2>12,
       <2>13, <2>14, <2>15 DEF Interpret
<1>15. CASE harness # "trust" /\ BenchmarkInterpret /\ UNCHANGED harness
  <2>1. CASE Create
    BY <1>12, <1>13, <1>15, <2>1 DEF Create, AtAction, Calls
  <2>2. CASE RunScripted
    BY <1>12, <1>15, <2>2 DEF RunScripted, AtAction, Calls, Launch, Await
  <2>3. CASE CommitSettling
    BY <1>12, <1>13, <1>15, <2>3 DEF CommitSettling, AtAction, Calls, Launch, Await
  <2>4. CASE DirectCall
    <3>1. at \notin Gated
      <4>1. WorkOK /\ harness = "direct"
        BY <1>4, <2>4 DEF DirectCall, AtAction, Active, Ends
      <4>2. ReleaseOrders = {}
        BY <4>1 DEF WorkOK, GroupOK
      <4>3. QED
        BY <4>2 DEF PlanOK
    <3>2. QED
      BY <1>12, <1>15, <2>4, <3>1 DEF DirectCall, AtAction, Calls, Launch, Await
  <2>5. CASE RunOfGroup
    BY <1>2, <1>4, <1>15, <2>5, RunOfGroupKeeps DEF RunOfGroup, AtAction, Active, Ends
  <2>6. CASE AwaitNext
    BY <1>2, <1>4, <1>15, <2>6, AwaitNextKeeps DEF AwaitNext, Active, Ends
  <2>7. CASE GroupIsOver
    BY <1>2, <1>4, <1>15, <2>7, GroupIsOverKeeps DEF GroupIsOver, Active, Ends
  <2>8. CASE PlanIsOver \/ LoopIsBlocked \/ UnawaitedFails
    BY <1>1, <2>8 DEF PlanIsOver, LoopIsBlocked, UnawaitedFails, Ends
  <2>9. CASE AwaitedSettles
    BY <1>11, <1>15, <2>9 DEF AwaitedSettles
  <2>10. CASE LoopFiresTimer
    BY <1>3, <1>15, <2>10 DEF LoopFiresTimer
  <2>11. CASE AdvanceFires
    BY <1>10, <1>15, <2>11 DEF AdvanceFires, Applying
  <2>12. CASE AdvanceIsOver
    BY <1>10, <1>15, <2>12 DEF AdvanceIsOver, Applying
  <2>13. CASE ApplyControls \/ ControlsApplied
    BY <1>8, <1>9, <1>15, <2>13 DEF ApplyControls, ControlsApplied
  <2>14. QED
    BY <1>15, <2>1, <2>2, <2>3, <2>4, <2>5, <2>6, <2>7, <2>8, <2>9, <2>10, <2>11, <2>12, <2>13
       DEF BenchmarkInterpret
<1>16. QED
  BY <1>6, <1>7, <1>14, <1>15 DEF NextAny, InterpretAny, Over

-----------------------------------------------------------------------------
\* A plan is not changed.
LEMMA PlanStays ==
  ASSUME [NextAny]_allVars
  PROVE  plan' = plan
<1>1. CASE UNCHANGED allVars
  BY <1>1 DEF allVars, vars, interpreterVars
<1>2. CASE Package
  BY <1>2 DEF Package, PackageSettles, PackageSetsTimer, PackageClearsTimer, interpreterVars
<1>3. CASE Interpret
  BY <1>3 DEF Interpret, Start, Run, RunGated, Commit, ActionsOver, Settled, SettlingFiresTimer,
              Blocked, CommitSettled, CommitStarves, ApplyAdvance, AdvanceFiresTimer, AdvanceEnds,
              AdvancesApplied, BeginRelease, NothingReady, OpenGate, EndRelease, interpreterVars
<1>4. CASE BenchmarkInterpret
  BY <1>4 DEF BenchmarkInterpret, Create, RunScripted, CommitSettling, DirectCall, RunOfGroup,
              AwaitNext, GroupIsOver, PlanIsOver, AwaitedSettles, LoopFiresTimer, LoopIsBlocked,
              UnawaitedFails, AdvanceFires, AdvanceIsOver, ApplyControls, ControlsApplied,
              ApplyAdvance, AdvancesApplied, interpreterVars
<1>5. QED
  BY <1>1, <1>2, <1>3, <1>4 DEF NextAny, InterpretAny, Over

\* The invariant: what was worked off is observed, its gate is open and its advances are
\* executed, at every step of either interpreter and whatever the package does.
THEOREM InterpretersInvariantHolds == SpecAny => []InterpretersInvariant
<1>1. ASSUME InterpretersInvariant, [NextAny]_allVars
      PROVE  InterpretersInvariant'
  <2>1. PlanOK
    BY <1>1, PlanIsSound DEF InterpretersInvariant
  <2>2. plan' = plan
    BY <1>1, PlanStays
  <2>3. TypeOK /\ NoTimerIsLate /\ GatesOpenInOrder /\ InterpretationIsComplete /\ ProgressOK
        /\ (Active => WorkOK)
    BY <1>1 DEF InterpretersInvariant, ProgressOK
  <2>4. TypeOK' /\ NoTimerIsLate'
    BY <1>1, <2>1, <2>3, TypesAreKept
  <2>5. GatesOpenInOrder'
    BY <1>1, <2>1, <2>3, GatesAreKept
  <2>6. InterpretationIsComplete'
    BY <1>1, <2>1, <2>3, CompletenessIsKept
  <2>7. ProgressOK'
    BY <1>1, <2>1, <2>3, ProgressIsKept
  <2>8. QED
    BY <1>1, <2>2, <2>4, <2>5, <2>6, <2>7 DEF InterpretersInvariant
<1>2. QED
  BY <1>1, InterpretersStart, PTL DEF SpecAny

\* No timer is late: the package never observes a time at which a timer of its own should
\* have fired and did not, though commits are awaited without firing any, and advances
\* fire only those that are due.
THEOREM TimersAreNeverLate == SpecAny => []NoTimerIsLate
BY InterpretersInvariantHolds, PTL DEF InterpretersInvariant

\* The gates of a release order open in its order, after the runs before them settled in
\* the trust interpreter, and once all are launched in the benchmark.
THEOREM GatesAreOpenedInOrder == SpecAny => []GatesOpenInOrder
BY InterpretersInvariantHolds, PTL DEF InterpretersInvariant

\* An interpretation that ends normally has executed every control and observed every run
\* and commit; the closing assertion fails only in the benchmark, when orders share a run.
THEOREM InterpretationsAreComplete == SpecAny => []InterpretationIsComplete
BY InterpretersInvariantHolds, PTL DEF InterpretersInvariant
-----------------------------------------------------------------------------
(***************************************************************************)
(* Sums of advances.                                                       *)
(***************************************************************************)

\* The virtual time a set of advances takes, as validateInvariantApplicability adds it up.
SumOf(ts, S) == R!MapThenSumSet(LAMBDA t : ts[t].advanceMs, S)

\* It is the value of a function that takes one element after the other.
SumStep(ts, f, s) ==
  IF s = {} THEN 0
  ELSE ts[CHOOSE c \in s : TRUE].advanceMs + f[s \ {CHOOSE c \in s : TRUE}]
IsSum(ts, f, domain) == f = [s \in domain |-> SumStep(ts, f, s)]
SumBySubsets(ts, S) == CHOOSE f : IsSum(ts, f, SUBSET S)

LEMMA SumIsChosen ==
  ASSUME NEW ts, NEW S
  PROVE  SumOf(ts, S) = SumBySubsets(ts, S)[S]
BY DEF SumOf, SumBySubsets, SumStep, IsSum, R!MapThenSumSet, R!MapThenFoldSet

LEMMA OneLess ==
  ASSUME NEW U, IsFiniteSet(U), NEW s \in SUBSET U, NEW c \in s
  PROVE  /\ Cardinality(s) \in Nat /\ Cardinality(s) # 0
         /\ Cardinality(s \ {c}) = Cardinality(s) - 1
         /\ s \ {c} \in SUBSET U
<1>1. IsFiniteSet(s)
  BY FS_Subset
<1>2. Cardinality(s) \in Nat
  BY <1>1, FS_CardinalityType
<1>3. Cardinality(s) # 0
  BY <1>1, FS_EmptySet
<1>4. Cardinality(s \ {c}) = Cardinality(s) - 1
  BY <1>1, FS_RemoveElement
<1> QED BY <1>2, <1>3, <1>4

Smaller(U, n) == {s \in SUBSET U : Cardinality(s) <= n}

\* There is such a function: sets with one more element are defined by smaller ones.
LEMMA SumExists ==
  ASSUME NEW ts, NEW U, IsFiniteSet(U)
  PROVE  \E f : IsSum(ts, f, SUBSET U)
<1> DEFINE T == {n \in Nat : \E f : IsSum(ts, f, Smaller(U, n))}
           bound == Cardinality(U)
<1>1. bound \in Nat
  BY FS_CardinalityType
<1>2. 0 \in T
  <2> DEFINE f == [s \in Smaller(U, 0) |-> 0]
  <2>1. \A s \in Smaller(U, 0) : s = {}
    <3>1. ASSUME NEW s \in SUBSET U, s # {}
          PROVE  ~(Cardinality(s) <= 0)
      <4>1. PICK c \in s : TRUE
        BY <3>1
      <4>2. Cardinality(s) \in Nat /\ Cardinality(s) # 0
        BY <4>1, OneLess
      <4>3. QED
        BY <4>2
    <3>2. QED
      BY <3>1 DEF Smaller
  <2>2. IsSum(ts, f, Smaller(U, 0))
    BY <2>1 DEF IsSum, SumStep
  <2> QED BY <2>2
<1>3. ASSUME NEW n \in Nat, n \in T
      PROVE  n + 1 \in T
  <2>1. PICK f : IsSum(ts, f, Smaller(U, n))
    BY <1>3
  <2> DEFINE g == [s \in Smaller(U, n + 1) |-> IF Cardinality(s) <= n THEN f[s] ELSE SumStep(ts, f, s)]
  <2>2. ASSUME NEW s \in Smaller(U, n + 1)
        PROVE  g[s] = SumStep(ts, g, s)
    <3>1. g[s] = SumStep(ts, f, s)
      <4>1. s \in Smaller(U, n) => f[s] = SumStep(ts, f, s)
        BY <2>1 DEF IsSum
      <4>2. Cardinality(s) <= n => s \in Smaller(U, n)
        BY DEF Smaller
      <4> QED BY <4>1, <4>2
    <3>2. ASSUME s # {}
          PROVE  LET c == CHOOSE c \in s : TRUE IN g[s \ {c}] = f[s \ {c}]
      <4> DEFINE c == CHOOSE d \in s : TRUE
      <4>1. c \in s
        BY <3>2
      <4>2. s \in SUBSET U /\ Cardinality(s) <= n + 1
        BY DEF Smaller
      <4> HIDE DEF c
      <4>3. Cardinality(s) \in Nat /\ Cardinality(s \ {c}) = Cardinality(s) - 1 /\ s \ {c} \in SUBSET U
        BY <4>1, <4>2, OneLess
      <4>4. Cardinality(s \ {c}) <= n /\ s \ {c} \in Smaller(U, n + 1)
        BY <4>2, <4>3 DEF Smaller
      <4>5. g[s \ {c}] = f[s \ {c}]
        BY <4>4
      <4> QED BY <4>5 DEF c
    <3> HIDE DEF g
    <3> QED BY <3>1, <3>2 DEF SumStep
  <2>3. IsSum(ts, g, Smaller(U, n + 1))
    <3>1. g = [s \in Smaller(U, n + 1) |-> g[s]]
      OBVIOUS
    <3> HIDE DEF g
    <3>2. [s \in Smaller(U, n + 1) |-> g[s]] = [s \in Smaller(U, n + 1) |-> SumStep(ts, g, s)]
      BY <2>2
    <3> QED BY <3>1, <3>2 DEF IsSum
  <2> HIDE DEF g
  <2> QED BY <2>3
<1>4. bound \in T
  <2> HIDE DEF T, bound
  <2>1. 0..bound \subseteq T
    BY <1>1, <1>2, <1>3, Induction
  <2> QED BY <1>1, <2>1
<1>5. Smaller(U, bound) = SUBSET U
  <2>1. \A s \in SUBSET U : Cardinality(s) <= Cardinality(U)
    BY FS_Subset
  <2> QED BY <2>1 DEF Smaller
<1> QED BY <1>4, <1>5

\* Its values depend on the set alone, not on the sets it is defined on.
LEMMA SumIsOfTheSet ==
  ASSUME NEW ts, NEW U, IsFiniteSet(U), NEW V \in SUBSET U, NEW f, IsSum(ts, f, SUBSET U)
  PROVE  SumOf(ts, V) = f[V]
<1>1. IsFiniteSet(V)
  BY FS_Subset
<1> DEFINE g == SumBySubsets(ts, V)
<1>2. IsSum(ts, g, SUBSET V)
  <2>1. \E h : IsSum(ts, h, SUBSET V)
    BY <1>1, SumExists
  <2> QED BY <2>1 DEF SumBySubsets
<1> HIDE DEF g
<1> DEFINE T == {n \in Nat : \A s \in SUBSET V : Cardinality(s) = n => f[s] = g[s]}
           bound == Cardinality(V)
<1>3. bound \in Nat
  BY <1>1, FS_CardinalityType
<1>4. \A s \in SUBSET V : f[s] = SumStep(ts, f, s) /\ g[s] = SumStep(ts, g, s)
  BY <1>2 DEF IsSum
<1>5. 0 \in T
  <2>1. ASSUME NEW s \in SUBSET V, Cardinality(s) = 0
        PROVE  s = {}
    <3>1. \A c \in s : FALSE
      BY <1>1, <2>1, OneLess
    <3> QED BY <3>1
  <2> QED BY <1>4, <2>1 DEF SumStep
<1>6. ASSUME NEW n \in Nat, n \in T
      PROVE  n + 1 \in T
  <2>1. ASSUME NEW s \in SUBSET V, Cardinality(s) = n + 1
        PROVE  f[s] = g[s]
    <3>1. s # {}
      <4>1. Cardinality({}) = 0
        BY FS_EmptySet
      <4>2. s = {} => n + 1 = 0
        BY <2>1, <4>1
      <4> QED BY <4>2
    <3> DEFINE c == CHOOSE d \in s : TRUE
    <3>2. c \in s
      BY <3>1
    <3> HIDE DEF c
    <3>3. Cardinality(s \ {c}) = n /\ s \ {c} \in SUBSET V
      BY <1>1, <2>1, <3>2, OneLess
    <3>4. f[s \ {c}] = g[s \ {c}]
      BY <1>6, <3>3
    <3> QED BY <1>4, <3>1, <3>4 DEF SumStep, c
  <2> QED BY <2>1
<1>7. bound \in T
  <2> HIDE DEF T, bound
  <2>1. 0..bound \subseteq T
    BY <1>3, <1>5, <1>6, Induction
  <2> QED BY <1>3, <2>1
<1>8. f[V] = g[V]
  BY <1>7
<1> QED BY <1>8, SumIsChosen DEF g

\* The sum of a set is that of the set without an element, and the element.
LEMMA SumOfOneMore ==
  ASSUME NEW ts, NEW U, IsFiniteSet(U), \A t \in U : ts[t].advanceMs \in Nat,
         NEW A \in SUBSET U
  PROVE  /\ SumOf(ts, {}) = 0
         /\ SumOf(ts, A) \in Nat
         /\ \A c \in A : SumOf(ts, A) = ts[c].advanceMs + SumOf(ts, A \ {c})
<1>1. PICK f : IsSum(ts, f, SUBSET U)
  BY SumExists
<1>2. \A V \in SUBSET U : SumOf(ts, V) = f[V]
  BY <1>1, SumIsOfTheSet
<1>3. \A s \in SUBSET U : f[s] = SumStep(ts, f, s)
  BY <1>1 DEF IsSum
<1> DEFINE ms(c) == ts[c].advanceMs
           Split(s) == f[s] \in Nat /\ \A c \in s : f[s] = ms(c) + f[s \ {c}]
           T == {n \in Nat : \A s \in SUBSET U : Cardinality(s) <= n => Split(s)}
           bound == Cardinality(U)
<1>4. bound \in Nat
  BY FS_CardinalityType
<1>5. f[{}] = 0
  BY <1>3 DEF SumStep
<1>6. 0 \in T
  <2>1. ASSUME NEW s \in SUBSET U, Cardinality(s) <= 0
        PROVE  s = {}
    <3>1. ASSUME NEW c \in s
          PROVE  FALSE
      <4>1. Cardinality(s) \in Nat /\ Cardinality(s) # 0
        BY OneLess
      <4> QED BY <2>1, <4>1
    <3> QED BY <3>1
  <2>2. ASSUME NEW s \in SUBSET U, Cardinality(s) <= 0
        PROVE  Split(s)
    <3>1. s = {}
      BY <2>1, <2>2
    <3> QED BY <1>5, <3>1
  <2> HIDE DEF Split
  <2> QED BY <2>2
<1>7. ASSUME NEW n \in Nat, n \in T
      PROVE  n + 1 \in T
  <2>0. \A s \in SUBSET U : Cardinality(s) <= n => Split(s)
    BY <1>7
  <2>1. ASSUME NEW s \in SUBSET U, Cardinality(s) <= n + 1, s # {}
        PROVE  Split(s)
    <3> DEFINE x == CHOOSE d \in s : TRUE
    <3>1. x \in s
      BY <2>1
    <3>2. f[s] = ms(x) + f[s \ {x}]
      BY <1>3, <2>1 DEF SumStep
    <3> HIDE DEF x
    <3>3. \A c \in s : Cardinality(s \ {c}) <= n /\ s \ {c} \in SUBSET U
      <4>1. ASSUME NEW c \in s
            PROVE  Cardinality(s \ {c}) <= n /\ s \ {c} \in SUBSET U
        BY <2>1, OneLess
      <4> QED BY <4>1
    <3>4. \A c \in s : Split(s \ {c})
      <4> HIDE DEF Split
      <4> QED BY <2>0, <3>3
    <3>5. ms(x) \in Nat /\ f[s \ {x}] \in Nat /\ f[s] \in Nat
      <4>1. ms(x) \in Nat
        BY <3>1
      <4>2. f[s \ {x}] \in Nat
        BY <3>1, <3>4
      <4> HIDE DEF ms
      <4> QED BY <3>2, <4>1, <4>2
    <3>6. ASSUME NEW c \in s
          PROVE  f[s] = ms(c) + f[s \ {c}]
      <4>1. CASE c = x
        BY <3>2, <4>1
      <4>2. CASE c # x
        <5> DEFINE both == (s \ {x}) \ {c}
        <5>1. c \in s \ {x} /\ x \in s \ {c} /\ (s \ {c}) \ {x} = both
          BY <3>1, <4>2
        <5>2. f[s \ {x}] = ms(c) + f[both]
          BY <3>1, <3>4, <5>1
        <5>3. f[s \ {c}] = ms(x) + f[(s \ {c}) \ {x}]
          BY <3>4, <5>1
        <5>4. ms(c) \in Nat
          OBVIOUS
        <5>5. f[both] \in Nat
          <6>1. both \in SUBSET U /\ Cardinality(both) <= n
            <7>1. s \ {x} \in SUBSET U /\ Cardinality(s \ {x}) <= n
              BY <3>1, <3>3
            <7>2. Cardinality(s \ {x}) \in Nat /\ Cardinality(both) = Cardinality(s \ {x}) - 1
              BY <5>1, <7>1, OneLess
            <7> QED BY <7>1, <7>2
          <6> HIDE DEF both
          <6> QED BY <2>0, <6>1
        <5> HIDE DEF ms, both
        <5> QED BY <3>2, <3>5, <5>1, <5>2, <5>3, <5>4, <5>5
      <4> QED BY <4>1, <4>2
    <3> QED BY <3>5, <3>6
  <2>2. Split({})
    BY <1>5
  <2> HIDE DEF Split
  <2> QED BY <2>1, <2>2
<1>8. bound \in T
  <2> HIDE DEF T, bound
  <2>1. 0..bound \subseteq T
    BY <1>4, <1>6, <1>7, Induction
  <2> QED BY <1>4, <2>1
<1>9. Split(A)
  <2>1. Cardinality(A) <= Cardinality(U)
    BY FS_Subset
  <2> HIDE DEF Split
  <2> QED BY <1>8, <2>1
<1> QED
  <2>1. \A c \in A : A \ {c} \in SUBSET U
    OBVIOUS
  <2> QED BY <1>2, <1>5, <1>9, <2>1

\* What validateInvariantApplicability asks of the advances, with that sum.
LEMMA TimeoutIsASum ==
  ASSUME NEW input, NEW finalRun
  PROVE  R!AdvancesPastTimeout(input, finalRun) <=>
           \E producer \in R!Producers(input) :
             /\ input.actions[producer].bind = input.actions[finalRun].tx
             /\ SumOf(input.transformations,
                      {t \in R!Advances(input) :
                         input.transformations[t].ids[1] \in (producer..(finalRun - 1)) \ R!Gated(input)})
                  > input.actions[producer].timeoutMs
BY DEF R!AdvancesPastTimeout, SumOf

-----------------------------------------------------------------------------
(***************************************************************************)
(* Virtual time and the advances of the trust interpreter.                 *)
(***************************************************************************)

\* The time the interpreter has come to: that of the clock, or where the advance under way
\* leads to.
Reached == IF stage = "advancing" THEN target ELSE now

\* The advances executed behind an instance.
ExecutedFrom(p) == {c \in Advances : c \in executedControls /\ Ids(c)[1] >= p}

\* Since an instance was started, at least the time of the advances behind it has passed.
ElapsedOK ==
  \A p \in Instances : \A A \in SUBSET ExecutedFrom(p) :
    startedAt[p] + SumOf(plan.transformations, A) <= Reached

\* An advance is executed no earlier than its instance is passed.
PassedOK ==
  \A c \in Advances : c \in executedControls =>
    Ids(c)[1] < at \/ (Ids(c)[1] = at /\ stage # "action")

LateOK ==
  harness = "trust" =>
    /\ R!Applicable(plan)
    /\ startedAt \in [Instances -> Nat]
    /\ PassedOK
    /\ ElapsedOK

LEMMA AdvancesAreFinite ==
  ASSUME plan \in Plans \cup BenchmarkPlans
  PROVE  /\ IsFiniteSet(Advances)
         /\ \A t \in Advances : plan.transformations[t].advanceMs \in Nat
         /\ \A i \in R!Producers(plan) : plan.actions[i].timeoutMs \in Nat
<1>1. ControlFields(plan)
  BY PlansAssumption, BenchmarkPlansAssumption
<1>2. IsFiniteSet(1..Len(plan.transformations))
  BY <1>1, FS_Interval DEF ControlFields
<1>3. Advances \subseteq 1..Len(plan.transformations)
  BY DEF Advances, R!Advances, R!Positions
<1>4. IsFiniteSet(Advances)
  BY <1>2, <1>3, FS_Subset
<1>5. \A t \in R!Advances(plan) : plan.transformations[t].advanceMs \in Nat
  BY <1>1 DEF ControlFields
<1> QED BY <1>1, <1>4, <1>5 DEF ControlFields, Advances

LEMMA AdvanceSums ==
  ASSUME plan \in Plans \cup BenchmarkPlans, NEW A \in SUBSET Advances
  PROVE  /\ SumOf(plan.transformations, {}) = 0
         /\ SumOf(plan.transformations, A) \in Nat
         /\ \A c \in A : SumOf(plan.transformations, A) =
                           plan.transformations[c].advanceMs + SumOf(plan.transformations, A \ {c})
<1> DEFINE ts == plan.transformations
           U == Advances
<1>1. IsFiniteSet(U) /\ \A t \in U : ts[t].advanceMs \in Nat
  BY AdvancesAreFinite
<1> HIDE DEF U
<1>2. A \in SUBSET U
  BY DEF U
<1> HIDE DEF ts
<1>3. /\ SumOf(ts, {}) = 0
      /\ SumOf(ts, A) \in Nat
      /\ \A c \in A : SumOf(ts, A) = ts[c].advanceMs + SumOf(ts, A \ {c})
  BY <1>1, <1>2, SumOfOneMore
<1> QED BY <1>3 DEF ts

\* The steps that execute no advance and do not set a start.
LEMMA TimeGoesOn ==
  ASSUME PlanOK, TypeOK, TypeOK', LateOK, UNCHANGED <<plan, startedAt, harness>>,
         \A c \in Advances : c \in executedControls' => c \in executedControls,
         harness = "trust" => Reached \in Nat /\ Reached' \in Nat /\ Reached <= Reached',
         \/ at' = at /\ (stage' = "action" => stage = "action")
         \/ at' = at + 1,
         plan \in Plans \cup BenchmarkPlans
  PROVE  LateOK'
<1> SUFFICES ASSUME harness = "trust"
             PROVE  LateOK'
  BY DEF LateOK
<1>1. Advances' = Advances /\ Instances' = Instances /\ \A c : Ids(c)' = Ids(c)
  BY DEF Advances, Instances, Ids
<1>2. R!Applicable(plan)' /\ (startedAt \in [Instances -> Nat])'
  BY <1>1 DEF LateOK
<1>3. PassedOK'
  <2>1. ASSUME NEW c \in Advances, c \in executedControls'
        PROVE  Ids(c)[1] < at' \/ (Ids(c)[1] = at' /\ stage' # "action")
    <3>1. Ids(c)[1] < at \/ (Ids(c)[1] = at /\ stage # "action")
      BY <2>1 DEF LateOK, PassedOK
    <3>2. Ids(c)[1] \in Nat /\ at \in Nat
      BY DEF PlanOK, TypeOK
    <3> QED BY <3>1, <3>2
  <2> QED BY <1>1, <2>1 DEF PassedOK
<1>4. ElapsedOK'
  <2>1. ASSUME NEW p \in Instances, NEW A \in SUBSET Advances,
               \A c \in A : c \in executedControls' /\ Ids(c)[1] >= p
        PROVE  startedAt[p] + SumOf(plan.transformations, A) <= Reached'
    <3>1. A \in SUBSET ExecutedFrom(p)
      BY <2>1 DEF ExecutedFrom
    <3>2. startedAt[p] + SumOf(plan.transformations, A) <= Reached
      BY <3>1 DEF LateOK, ElapsedOK
    <3>3. startedAt[p] \in Nat /\ SumOf(plan.transformations, A) \in Nat
      BY AdvanceSums DEF LateOK
    <3> QED BY <3>2, <3>3
  <2>2. \A p : ExecutedFrom(p)' = {c \in Advances : c \in executedControls' /\ Ids(c)[1] >= p}
    BY <1>1 DEF ExecutedFrom
  <2> QED BY <1>1, <2>1, <2>2 DEF ElapsedOK
<1> QED BY <1>2, <1>3, <1>4 DEF LateOK

\* A start: no advance was executed behind it.
LEMMA StartKeepsTime ==
  ASSUME PlanOK, TypeOK, LateOK, Start, UNCHANGED harness,
         plan \in Plans \cup BenchmarkPlans
  PROVE  LateOK'
<1> SUFFICES ASSUME harness = "trust"
             PROVE  LateOK'
  BY DEF LateOK
<1>1. Advances' = Advances /\ Instances' = Instances /\ \A c : Ids(c)' = Ids(c)
  BY DEF Advances, Instances, Ids, Start
<1>2. /\ stage = "action" /\ stage' = "applying" /\ at \in Instances /\ at' = at
      /\ startedAt' = [startedAt EXCEPT ![at] = now]
      /\ plan' = plan /\ executedControls' = executedControls /\ now' = now /\ now \in Nat
  BY DEF Start, AtAction, TypeOK, PlanOK, clockVars
<1>3. R!Applicable(plan)' /\ (startedAt \in [Instances -> Nat])'
  BY <1>1, <1>2 DEF LateOK
<1>4. \A c \in Advances : c \in executedControls => Ids(c)[1] < at
  BY <1>2 DEF LateOK, PassedOK
<1>5. PassedOK'
  BY <1>1, <1>2, <1>4 DEF PassedOK
<1>6. ElapsedOK'
  <2>1. \A p : ExecutedFrom(p)' = ExecutedFrom(p)
    BY <1>1, <1>2 DEF ExecutedFrom
  <2>2. Reached' = now /\ Reached = now
    BY <1>2 DEF Reached
  <2>3. ASSUME NEW p \in Instances, NEW A \in SUBSET ExecutedFrom(p)
        PROVE  startedAt'[p] + SumOf(plan.transformations, A) <= now
    <3>1. CASE p = at
      <4>1. ASSUME NEW c \in A
            PROVE  FALSE
        <5>1. c \in Advances /\ c \in executedControls /\ Ids(c)[1] >= at
          BY <3>1 DEF ExecutedFrom
        <5>2. Ids(c)[1] \in Nat
          <6>1. Ids(c)[1] \in Instances /\ Instances \subseteq Nat
            BY <5>1 DEF PlanOK
          <6> QED BY <6>1
        <5>3. at \in Nat
          BY DEF TypeOK
        <5> QED BY <1>4, <5>1, <5>2, <5>3
      <4>2. A = {}
        BY <4>1
      <4>3. SumOf(plan.transformations, A) = 0
        BY <4>2, AdvanceSums
      <4>4. startedAt'[p] = now
        BY <1>2, <3>1 DEF LateOK
      <4> QED BY <1>2, <4>3, <4>4
    <3>2. CASE p # at
      <4>1. startedAt[p] + SumOf(plan.transformations, A) <= now
        BY <2>2 DEF LateOK, ElapsedOK
      <4>2. startedAt'[p] = startedAt[p]
        BY <1>2, <3>2 DEF LateOK
      <4> QED BY <4>1, <4>2
    <3> QED BY <3>1, <3>2
  <2> QED BY <1>1, <1>2, <2>1, <2>2, <2>3 DEF ElapsedOK
<1> QED BY <1>3, <1>5, <1>6 DEF LateOK

\* An advance is begun: its time is added to what has passed.
LEMMA ApplyKeepsTime ==
  ASSUME PlanOK, TypeOK, Active => WorkOK, LateOK, ApplyAdvance, UNCHANGED harness,
         plan \in Plans \cup BenchmarkPlans
  PROVE  LateOK'
<1> SUFFICES ASSUME harness = "trust"
             PROVE  LateOK'
  BY DEF LateOK
<1>1. Advances' = Advances /\ Instances' = Instances /\ \A c : Ids(c)' = Ids(c)
  BY DEF Advances, Instances, Ids, ApplyAdvance
<1>2. PICK c \in DueAdvances :
        /\ executedControls' = executedControls \cup {c}
        /\ target' = now + plan.transformations[c].advanceMs
  <2>1. DueAdvances \in SUBSET Nat /\ DueAdvances # {}
    BY DEF ApplyAdvance, DueAdvances, PlanOK
  <2>2. \E c \in DueAdvances : \A other \in DueAdvances : c <= other
    BY <2>1, SmallestExists
  <2> QED BY <2>2 DEF ApplyAdvance
<1>3. /\ stage = "applying" /\ stage' = "advancing" /\ at' = at /\ startedAt' = startedAt
      /\ plan' = plan
  BY DEF ApplyAdvance
<1>4. c \in Advances /\ Ids(c)[1] = anchor /\ plan.transformations[c].advanceMs \in Nat
  BY DEF DueAdvances, PlanOK
<1>5. anchor <= at /\ anchor \in Nat /\ at \in Nat
  <2>1. WorkOK
    BY <1>3 DEF Active, Ends
  <2>2. anchor \in Instances /\ at \in Instances /\ Instances \subseteq Nat
    BY <1>3, <2>1 DEF WorkOK, AnchorOK, LoopOK, PlanOK
  <2>3. CASE release = NoRelease
    BY <1>3, <2>1, <2>2, <2>3 DEF WorkOK, AnchorOK
  <2>4. CASE release # NoRelease
    <3>1. /\ release.control \in ReleaseOrders
          /\ release.k \in 1..Len(Ids(release.control))
          /\ anchor = Ids(release.control)[release.k]
      BY <1>3, <2>1, <2>4 DEF WorkOK, AnchorOK, ReleaseOK
    <3>2. runs[anchor] # "idle"
      <4>1. anchor \in Group(release.control)
        BY <3>1, MembersOfGroup
      <4> QED BY <2>1, <2>4, <4>1 DEF WorkOK, ReleaseOK
    <3> QED BY <2>1, <2>2, <3>2 DEF WorkOK, LoopOK
  <2> QED BY <2>2, <2>3, <2>4
<1>6. R!Applicable(plan)' /\ (startedAt \in [Instances -> Nat])'
  BY <1>1, <1>3 DEF LateOK
<1>7. PassedOK'
  <2>1. ASSUME NEW d \in Advances, d \in executedControls'
        PROVE  Ids(d)[1] < at \/ Ids(d)[1] = at
    BY <1>2, <1>4, <1>5, <2>1 DEF LateOK, PassedOK
  <2> QED BY <1>1, <1>3, <2>1 DEF PassedOK
<1>8. ElapsedOK'
  <2>1. \A p : ExecutedFrom(p)' \subseteq ExecutedFrom(p) \cup {c}
    BY <1>1, <1>2 DEF ExecutedFrom
  <2>2. Reached' = now + plan.transformations[c].advanceMs /\ Reached = now /\ now \in Nat
    BY <1>2, <1>3 DEF Reached, TypeOK
  <2>3. ASSUME NEW p \in Instances, NEW A, A \subseteq ExecutedFrom(p) \cup {c}
        PROVE  startedAt[p] + SumOf(plan.transformations, A)
                 <= now + plan.transformations[c].advanceMs
    <3>1. A \in SUBSET Advances /\ A \ {c} \in SUBSET ExecutedFrom(p) /\ A \ {c} \in SUBSET Advances
      BY <1>4, <2>3 DEF ExecutedFrom
    <3>2. startedAt[p] + SumOf(plan.transformations, A \ {c}) <= now
      BY <2>2, <3>1 DEF LateOK, ElapsedOK
    <3>3. SumOf(plan.transformations, A \ {c}) \in Nat
      BY <3>1, AdvanceSums
    <3>4. startedAt[p] \in Nat
      BY DEF LateOK
    <3>5. CASE c \in A
      <4>1. SumOf(plan.transformations, A) =
              plan.transformations[c].advanceMs + SumOf(plan.transformations, A \ {c})
        BY <3>1, <3>5, AdvanceSums
      <4> QED BY <1>4, <2>2, <3>2, <3>3, <3>4, <4>1
    <3>6. CASE c \notin A
      <4>1. SumOf(plan.transformations, A \ {c}) = SumOf(plan.transformations, A)
        <5>1. A \ {c} = A
          BY <3>6
        <5> QED BY <5>1
      <4> QED BY <1>4, <2>2, <3>2, <3>3, <3>4, <4>1
    <3> QED BY <3>5, <3>6
  <2> QED BY <1>1, <1>3, <2>1, <2>2, <2>3 DEF ElapsedOK
<1> QED BY <1>6, <1>7, <1>8 DEF LateOK

LEMMA LateIsKept ==
  ASSUME PlanOK, TypeOK, TypeOK', Active => WorkOK, LateOK, plan' = plan,
         plan \in Plans \cup BenchmarkPlans, [NextAny]_allVars
  PROVE  LateOK'
<1>1. harness' = harness
  BY DEF NextAny, InterpretAny, Over, allVars
<1> SUFFICES ASSUME harness = "trust"
             PROVE  LateOK'
  BY <1>1 DEF LateOK
<1>2. now \in Nat /\ now' \in Nat /\ target \in Nat /\ target' \in Nat /\ at \in Nat
  BY DEF TypeOK
<1>3. ASSUME UNCHANGED <<startedAt, executedControls>>, Reached <= Reached',
             \/ at' = at /\ (stage' = "action" => stage = "action")
             \/ at' = at + 1
      PROVE  LateOK'
  <2>1. Reached \in Nat /\ Reached' \in Nat
    BY <1>2 DEF Reached
  <2> QED BY <1>1, <1>3, <2>1, TimeGoesOn
<1>4. CASE UNCHANGED allVars
  <2>1. UNCHANGED <<startedAt, executedControls, stage, at, now, target>>
    BY <1>4 DEF allVars, vars, interpreterVars, clockVars
  <2>2. Reached <= Reached'
    BY <1>2, <2>1 DEF Reached
  <2> QED BY <1>3, <2>1, <2>2
<1>5. ASSUME NEW timer \in timers, Fire(timer)
      PROVE  now <= now'
  BY <1>2, <1>5 DEF Fire, TypeOK
<1>6. CASE Package
  <2>1. UNCHANGED interpreterVars /\ now' = now
    BY <1>6 DEF Package, PackageSettles, PackageSetsTimer, PackageClearsTimer, clockVars,
                SetTimeout, ClearTimeout
  <2>2. Reached <= Reached'
    BY <1>2, <2>1 DEF Reached, interpreterVars
  <2> QED BY <1>3, <2>1, <2>2 DEF interpreterVars
<1>7. CASE Interpret
  <2>1. CASE Start
    BY <1>1, <2>1, StartKeepsTime
  <2>2. CASE ApplyAdvance
    BY <1>1, <2>2, ApplyKeepsTime
  <2>3. CASE \/ Run \/ RunGated \/ Commit \/ ActionsOver \/ Settled \/ Blocked
             \/ CommitSettled \/ CommitStarves \/ AdvancesApplied \/ NothingReady
             \/ OpenGate \/ EndRelease
    <3>1. UNCHANGED <<startedAt, executedControls, now>>
      BY <2>3 DEF Run, RunGated, Commit, ActionsOver, Settled, Blocked, CommitSettled,
                  CommitStarves, AdvancesApplied, NothingReady, OpenGate, EndRelease, clockVars
    <3>2. /\ stage # "advancing" /\ stage' # "advancing"
          /\ \/ at' = at /\ (stage' = "action" => stage = "action")
             \/ at' = at + 1
      BY <2>3 DEF Run, RunGated, Commit, ActionsOver, Settled, Blocked, CommitSettled,
                  CommitStarves, AdvancesApplied, NothingReady, OpenGate, EndRelease, AtAction,
                  AfterSettling
    <3>3. Reached <= Reached'
      BY <1>2, <3>1, <3>2 DEF Reached
    <3> QED BY <1>3, <3>1, <3>2, <3>3
  <2>4. CASE SettlingFiresTimer
    <3>1. UNCHANGED <<startedAt, executedControls, stage, at>> /\ stage = "settling"
      BY <2>4 DEF SettlingFiresTimer, interpreterVars
    <3>2. now <= now'
      BY <1>5, <2>4 DEF SettlingFiresTimer
    <3>3. Reached <= Reached'
      BY <3>1, <3>2 DEF Reached
    <3> QED BY <1>3, <3>1, <3>3
  <2>5. CASE AdvanceFiresTimer
    <3>1. UNCHANGED <<startedAt, executedControls, stage, at, target>> /\ stage = "advancing"
      BY <2>5 DEF AdvanceFiresTimer, interpreterVars
    <3>2. Reached <= Reached'
      BY <1>2, <3>1 DEF Reached
    <3> QED BY <1>3, <3>1, <3>2
  <2>6. CASE AdvanceEnds
    <3>1. /\ UNCHANGED <<startedAt, executedControls, at>>
          /\ stage = "advancing" /\ stage' = "applying" /\ now' = target
      BY <2>6 DEF AdvanceEnds
    <3>2. Reached <= Reached'
      BY <1>2, <3>1 DEF Reached
    <3> QED BY <1>3, <3>1, <3>2
  <2>7. CASE BeginRelease
    <3>1. PICK control \in Ready : executedControls' = executedControls \cup {control}
      <4>1. Ready \in SUBSET Nat /\ Ready # {}
        BY <2>7 DEF BeginRelease, Ready, PlanOK
      <4>2. \E c \in Ready : \A other \in Ready : c <= other
        BY <4>1, SmallestExists
      <4> QED BY <2>7, <4>2 DEF BeginRelease
    <3>2. \A c \in Advances : c \in executedControls' => c \in executedControls
      BY <3>1 DEF Ready, PlanOK
    <3>3. UNCHANGED <<startedAt, stage, at, now>> /\ stage # "advancing"
      BY <2>7 DEF BeginRelease, clockVars
    <3>4. Reached \in Nat /\ Reached' \in Nat /\ Reached <= Reached'
      BY <1>2, <3>3 DEF Reached
    <3> QED BY <1>1, <3>2, <3>3, <3>4, TimeGoesOn
  <2> QED BY <1>7, <2>1, <2>2, <2>3, <2>4, <2>5, <2>6, <2>7 DEF Interpret
<1> QED BY <1>4, <1>6, <1>7 DEF NextAny, InterpretAny, Over

LEMMA LateStarts ==
  ASSUME InitAny
  PROVE  LateOK
<1> SUFFICES ASSUME harness = "trust"
             PROVE  LateOK
  BY DEF LateOK
<1>1. Init
  BY DEF InitAny
<1>2. plan \in Plans /\ R!Valid(plan)
  BY <1>1 DEF Init
<1>3. executedControls = {} /\ startedAt = [i \in Instances |-> 0] /\ now = 0 /\ stage = "action"
  BY <1>1 DEF Init, Begin, ClockInit
<1>4. ElapsedOK
  <2>1. ASSUME NEW p \in Instances, NEW A \in SUBSET ExecutedFrom(p)
        PROVE  startedAt[p] + SumOf(plan.transformations, A) <= Reached
    <3>1. A = {}
      BY <1>3 DEF ExecutedFrom
    <3>2. SumOf(plan.transformations, A) = 0
      BY <1>2, <3>1, AdvanceSums
    <3> QED BY <1>3, <3>2 DEF Reached
  <2> QED BY <2>1 DEF ElapsedOK
<1> QED BY <1>2, <1>3, <1>4 DEF LateOK, PassedOK, R!Valid

\* The final run of an applicable plan is launched when the advances between the start of
\* its transaction and itself, but for those that wait for a gated run, are executed.
LEMMA FinalLaunchIsLate ==
  ASSUME PlanOK, TypeOK, Active => WorkOK, LateOK, R!Structure(plan),
         plan \in Plans \cup BenchmarkPlans, [NextAny]_allVars, harness = "trust",
         plan.invariant = "tx.total-timeout",
         runs[FinalRun] = "idle", runs'[FinalRun] # "idle"
  PROVE  now - startedAt[Producer(FinalRun)] > plan.actions[Producer(FinalRun)].timeoutMs
<1> DEFINE final == R!Max(R!Runs(plan))
<1>1. /\ R!Runs(plan) # {}
      /\ R!AdvancesPastTimeout(plan, final)
  BY DEF LateOK, R!Applicable
<1>2. FinalRun = final /\ final \in R!Runs(plan)
  <2>1. R!Runs(plan) \in SUBSET (1..Len(plan.actions)) /\ Len(plan.actions) \in Nat
    BY DEF R!Runs, R!Positions, PlanOK
  <2>2. \E i \in R!Runs(plan) : \A other \in R!Runs(plan) : i >= other
    BY <1>1, <2>1, LargestExists
  <2>3. final \in R!Runs(plan) /\ \A other \in R!Runs(plan) : final >= other
    BY <2>2 DEF R!Max
  <2> HIDE DEF final
  <2>4. \E i \in R!Runs(plan) : \A other \in R!Runs(plan) : other <= i
    BY <2>1, <2>3
  <2>5. FinalRun \in R!Runs(plan) /\ \A other \in R!Runs(plan) : other <= FinalRun
    BY <2>4 DEF FinalRun
  <2> QED BY <2>1, <2>3, <2>5
<1> HIDE DEF final
<1>3. final \in Instances /\ plan.actions[final].actionId = "tx.run" /\ Instances \subseteq Nat
  BY <1>2 DEF R!Runs, R!Positions, Instances, PlanOK
<1>4. stage = "action" /\ at = final
  <2>1. runs \in [Instances -> {"idle", "pending"} \cup Settlements]
    BY DEF TypeOK
  <2>2. ~UNCHANGED runs
    BY <1>2
  <2>3. ~Package
    <3>1. ASSUME PackageSettles
          PROVE  FALSE
      <4>1. PICK i \in Instances, outcome \in Settlements :
              runs[i] = "pending" /\ runs' = [runs EXCEPT ![i] = outcome]
        BY <3>1 DEF PackageSettles
      <4> QED BY <1>2, <1>3, <2>1, <4>1
    <3> QED BY <2>2, <3>1 DEF Package, PackageSetsTimer, PackageClearsTimer
  <2>4. Run \/ RunGated \/ Commit
    <3>1. Interpret
      BY <2>2, <2>3 DEF NextAny, InterpretAny, Over, allVars, vars
    <3> QED
      BY <2>2, <3>1 DEF Interpret, Start, ActionsOver, Settled, SettlingFiresTimer, Blocked,
            CommitSettled, CommitStarves, ApplyAdvance, AdvanceFiresTimer, AdvanceEnds,
            AdvancesApplied, BeginRelease, NothingReady, OpenGate, EndRelease
  <2>5. stage = "action" /\ at <= Len(plan.actions) /\ runs' = [runs EXCEPT ![at] = "pending"]
    BY <2>4 DEF Run, RunGated, Commit, AtAction
  <2>6. at \in Instances
    BY <2>5 DEF TypeOK, PlanOK
  <2> QED BY <1>2, <1>3, <2>1, <2>5, <2>6
<1>5. PICK p \in R!Producers(plan) :
        /\ plan.actions[p].bind = plan.actions[final].tx
        /\ SumOf(plan.transformations,
                 {t \in R!Advances(plan) :
                    plan.transformations[t].ids[1] \in (p..(final - 1)) \ R!Gated(plan)})
             > plan.actions[p].timeoutMs
  BY <1>1, TimeoutIsASum
<1>6. Producer(FinalRun) = p
  <2>1. \A q \in R!Producers(plan) : plan.actions[q].bind = plan.actions[p].bind => q = p
    BY DEF R!Structure, R!BindingsAreUnique
  <2>2. Producer(FinalRun) \in R!Producers(plan)
        /\ plan.actions[Producer(FinalRun)].bind = plan.actions[final].tx
    BY <1>2, <1>5 DEF Producer
  <2> QED BY <1>5, <2>1, <2>2
<1> DEFINE effective == {t \in R!Advances(plan) :
                           plan.transformations[t].ids[1] \in (p..(final - 1)) \ R!Gated(plan)}
<1>7. p \in Instances /\ p \in Nat
  BY <1>3 DEF R!Producers, R!Positions, Instances
<1>8. effective \in SUBSET ExecutedFrom(p)
  <2>1. ASSUME NEW t \in effective
        PROVE  t \in ExecutedFrom(p)
    <3>1. t \in Advances /\ Ids(t)[1] \in p..(final - 1) /\ Ids(t)[1] \notin Gated
      BY DEF Advances, Ids, Gated
    <3>2. Ids(t)[1] \in Instances /\ Ids(t)[1] \in Nat /\ Ids(t)[1] < at /\ Ids(t)[1] >= p
      BY <1>3, <1>4, <1>7, <3>1 DEF PlanOK
    <3>3. Done(Ids(t)[1])
      <4>1. WorkOK
        BY <1>4 DEF Active, Ends
      <4> QED BY <3>1, <3>2, <4>1 DEF WorkOK, LoopOK
    <3>4. t \in executedControls
      BY <3>1, <3>3 DEF Done
    <3> QED BY <3>1, <3>2, <3>4 DEF ExecutedFrom
  <2> QED BY <2>1
<1>9. effective \in SUBSET Advances
  BY DEF Advances
<1>10. SumOf(plan.transformations, effective) > plan.actions[p].timeoutMs
  BY <1>5
<1> HIDE DEF effective
<1>11. startedAt[p] + SumOf(plan.transformations, effective) <= now
  BY <1>4, <1>7, <1>8 DEF LateOK, ElapsedOK, Reached
<1>12. /\ SumOf(plan.transformations, effective) \in Nat
       /\ startedAt[p] \in Nat /\ now \in Nat /\ plan.actions[p].timeoutMs \in Nat
  BY <1>7, <1>9, AdvanceSums, AdvancesAreFinite DEF LateOK, TypeOK
<1> QED BY <1>6, <1>10, <1>11, <1>12

\* What validateInvariantApplicability added up before the run comes true on the clock: the
\* final run of a total-timeout plan is launched by the trust interpreter after the timeout
\* of its transaction has passed.  Plans, advances and timers may be any number; an advance
\* that waits for a gated run does not count, since it may come after the final run.
THEOREM FinalRunsAreLate == SpecAny => FinalRunIsLate
<1>1. InitAny => LateOK
  BY LateStarts
<1>2. ASSUME InterpretersInvariant, InterpretersInvariant', LateOK, [NextAny]_allVars
      PROVE  /\ LateOK'
             /\ (harness = "trust" /\ plan.invariant = "tx.total-timeout"
                   /\ runs[FinalRun] = "idle" /\ runs'[FinalRun] # "idle")
                  => now - startedAt[Producer(FinalRun)] > plan.actions[Producer(FinalRun)].timeoutMs
  <2>1. PlanOK
    BY <1>2, PlanIsSound DEF InterpretersInvariant
  <2>2. /\ TypeOK /\ TypeOK' /\ (Active => WorkOK) /\ R!Structure(plan)
        /\ plan \in Plans \cup BenchmarkPlans
    BY <1>2 DEF InterpretersInvariant, ProgressOK
  <2>3. plan' = plan
    BY <1>2, PlanStays
  <2>4. LateOK'
    BY <1>2, <2>1, <2>2, <2>3, LateIsKept
  <2> QED BY <1>2, <2>1, <2>2, <2>4, FinalLaunchIsLate
<1> QED BY <1>1, <1>2, InterpretersInvariantHolds, PTL DEF SpecAny, FinalRunIsLate
=============================================================================
