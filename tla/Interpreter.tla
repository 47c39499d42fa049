------------------------------ MODULE Interpreter ------------------------------
(***************************************************************************)
(* interpret, executeRun and settleRun (harness-v0.3/trust/evaluator.mjs)  *)
(* on the virtual clock.  The interpreter is one asynchronous function:    *)
(* each action is its code between two awaits.  Between them the evaluated *)
(* package (@firsttx/tx, external and possibly defective) may settle any   *)
(* pending run, set and clear timers, or do nothing; so the eight turns a  *)
(* settling run is given are one wait here.                                *)
(*                                                                         *)
(* A plan is a valid input of ReductionRules, whose transformations become *)
(* the schedule controls one by one; faults only change outcomes, which    *)
(* the package may disregard.                                              *)
(***************************************************************************)
EXTENDS VirtualClock, Sequences

R == INSTANCE ReductionRules

CONSTANT Plans   \* bound: the inputs the plans are taken from, if they are valid

\* The schema of the fields of a control and of a timeout: an advance names one instance
\* and a duration.
ControlFields(p) ==
  /\ Len(p.actions) \in Nat
  /\ Len(p.transformations) \in Nat
  /\ \A t \in R!Positions(p.transformations) : p.transformations[t].ids \in Seq(Nat)
  /\ \A t \in R!Advances(p) :
       Len(p.transformations[t].ids) = 1 /\ p.transformations[t].advanceMs \in Nat
  /\ \A i \in R!Producers(p) : p.actions[i].timeoutMs \in Nat

ASSUME PlansAssumption == \A p \in Plans : ControlFields(p)

VARIABLES
  plan,
  stage,      \* what the interpreter awaits, or how it ended
  at,         \* the position of the loop over plan.actions
  anchor,     \* the instance that is settled, or whose advances are applied
  release,    \* the control releaseReady is in (0: none) and the position in its ids
  target,     \* the target of the running advance
  executedControls,
  gates,      \* the instances whose gate was opened
  runs,       \* per instance: "idle", "pending", or how its run or commit settled
  startedAt   \* per instance: the virtual time of its start

interpreterVars == <<plan, stage, at, anchor, release, target, executedControls, gates, startedAt>>
vars == <<clockVars, interpreterVars, runs>>

Instances == R!Positions(plan.actions)
Advances == R!Advances(plan)
ReleaseOrders == R!ReleaseOrders(plan)
Gated == R!Gated(plan)
Ids(control) == plan.transformations[control].ids
NoRelease == [control |-> 0, k |-> 0]

Settlements == {"returned", "thrown", "infrastructure"}
Ends == {"interpreted", "blocked", "infrastructure", "leftover", "drained"}
Active == stage \notin Ends

Launched == {i \in Gated : runs[i] # "idle"}

\* An interpretation that has not taken a step.
Begin ==
  /\ ClockInit
  /\ stage = "action"
  /\ at = 1
  /\ anchor = 1
  /\ release = NoRelease
  /\ target = 0
  /\ executedControls = {}
  /\ gates = {}
  /\ runs = [i \in Instances |-> "idle"]
  /\ startedAt = [i \in Instances |-> 0]

Init ==
  /\ plan \in {p \in Plans : R!Valid(p)}
  /\ Begin

-----------------------------------------------------------------------------
\* The loop over the actions.
AtAction(actionId) ==
  /\ stage = "action"
  /\ at <= Len(plan.actions)
  /\ plan.actions[at].actionId = actionId

Start ==
  /\ AtAction("tx.start")
  /\ startedAt' = [startedAt EXCEPT ![at] = now]
  /\ anchor' = at
  /\ stage' = "applying"
  /\ UNCHANGED <<clockVars, plan, at, release, target, executedControls, gates, runs>>

Run ==
  /\ AtAction("tx.run")
  /\ at \notin Gated
  /\ runs' = [runs EXCEPT ![at] = "pending"]
  /\ anchor' = at
  /\ stage' = "settling"
  /\ UNCHANGED <<clockVars, plan, at, release, target, executedControls, gates, startedAt>>

RunGated ==
  /\ AtAction("tx.run")
  /\ at \in Gated
  /\ runs' = [runs EXCEPT ![at] = "pending"]
  /\ stage' = "releasing"
  /\ UNCHANGED <<clockVars, plan, at, anchor, release, target, executedControls, gates, startedAt>>

Commit ==
  /\ AtAction("tx.commit")
  /\ runs' = [runs EXCEPT ![at] = "pending"]
  /\ anchor' = at
  /\ stage' = "committing"
  /\ UNCHANGED <<clockVars, plan, at, release, target, executedControls, gates, startedAt>>

\* Behind the loop every control must have been executed.
ActionsOver ==
  /\ stage = "action"
  /\ at > Len(plan.actions)
  /\ stage' = IF Advances \cup ReleaseOrders \subseteq executedControls
              THEN "interpreted" ELSE "leftover"
  /\ UNCHANGED <<clockVars, plan, at, anchor, release, target, executedControls, gates, runs, startedAt>>

-----------------------------------------------------------------------------
\* settleRun.  An infrastructure error is rethrown by executeRun; any other outcome is
\* an observation, after which the advances of the instance are applied.
AfterSettling(outcome) == IF outcome = "infrastructure" THEN "infrastructure" ELSE "applying"

Settled ==
  /\ stage = "settling"
  /\ runs[anchor] # "pending"
  /\ stage' = AfterSettling(runs[anchor])
  /\ UNCHANGED <<clockVars, plan, at, anchor, release, target, executedControls, gates, runs, startedAt>>

SettlingFiresTimer ==
  /\ stage = "settling"
  /\ runs[anchor] = "pending"
  /\ \E timer \in timers : Earliest(timer) /\ Fire(timer)
  /\ UNCHANGED <<interpreterVars, runs>>

\* Plausible bug: a blocked run is waited for.
BlockedWaits ==
  /\ stage = "settling"
  /\ runs[anchor] = "pending"
  /\ timers = {}
  /\ UNCHANGED vars

Blocked ==
  /\ stage = "settling"
  /\ runs[anchor] = "pending"
  /\ timers = {}
  /\ stage' = "blocked"
  /\ UNCHANGED <<clockVars, plan, at, anchor, release, target, executedControls, gates, runs, startedAt>>

\* The commit is awaited as it is: no timer fires meanwhile, and when nothing else
\* settles it the event loop runs dry and the process exits.
CommitSettled ==
  /\ stage = "committing"
  /\ runs[anchor] # "pending"
  /\ stage' = AfterSettling(runs[anchor])
  /\ UNCHANGED <<clockVars, plan, at, anchor, release, target, executedControls, gates, runs, startedAt>>

CommitStarves ==
  /\ stage = "committing"
  /\ runs[anchor] = "pending"
  /\ stage' = "drained"
  /\ UNCHANGED <<clockVars, plan, at, anchor, release, target, executedControls, gates, runs, startedAt>>

-----------------------------------------------------------------------------
\* applyAdvances(anchor), and clock.advance.
\* Plausible bug: releasing a gated run does not apply its advances.
DueAdvancesUngated ==
  {c \in Advances \ executedControls : Ids(c)[1] = anchor /\ anchor \notin Gated}
DueAdvances == {c \in Advances \ executedControls : Ids(c)[1] = anchor}

ApplyAdvance ==
  /\ stage = "applying"
  /\ DueAdvances # {}
  /\ LET control == CHOOSE c \in DueAdvances : \A other \in DueAdvances : c <= other IN
       /\ executedControls' = executedControls \cup {control}
       /\ target' = now + plan.transformations[control].advanceMs
  /\ stage' = "advancing"
  /\ UNCHANGED <<clockVars, plan, at, anchor, release, gates, runs, startedAt>>

AdvanceFiresTimer ==
  /\ stage = "advancing"
  /\ \E timer \in timers : timer.due <= target /\ Earliest(timer) /\ Fire(timer)
  /\ UNCHANGED <<interpreterVars, runs>>

AdvanceEnds ==
  /\ stage = "advancing"
  /\ \A timer \in timers : timer.due > target
  /\ now' = target
  /\ stage' = "applying"
  /\ UNCHANGED <<timers, nextHandle, plan, at, anchor, release, target, executedControls, gates, runs, startedAt>>

\* Back to the next released instance, or to the next action.
AdvancesApplied ==
  /\ stage = "applying"
  /\ DueAdvances = {}
  /\ IF release = NoRelease
     THEN stage' = "action" /\ at' = at + 1 /\ UNCHANGED release
     ELSE stage' = "releasing" /\ release' = [release EXCEPT !.k = @ + 1] /\ UNCHANGED at
  /\ UNCHANGED <<clockVars, plan, anchor, target, executedControls, gates, runs, startedAt>>

-----------------------------------------------------------------------------
\* releaseReady: the first control not executed whose instances are all launched.
Ready ==
  {c \in ReleaseOrders \ executedControls :
     \A k \in R!Positions(Ids(c)) : Ids(c)[k] \in Launched}

BeginRelease ==
  /\ stage = "releasing"
  /\ release = NoRelease
  /\ Ready # {}
  /\ LET control == CHOOSE c \in Ready : \A other \in Ready : c <= other IN
       /\ executedControls' = executedControls \cup {control}
       /\ release' = [control |-> control, k |-> 1]
  /\ UNCHANGED <<clockVars, plan, stage, at, anchor, target, gates, runs, startedAt>>

NothingReady ==
  /\ stage = "releasing"
  /\ release = NoRelease
  /\ Ready = {}
  /\ stage' = "action"
  /\ at' = at + 1
  /\ UNCHANGED <<clockVars, plan, anchor, release, target, executedControls, gates, runs, startedAt>>

\* Plausible bug: the gates of a release order are opened together.
OpenAllGates ==
  /\ stage = "releasing"
  /\ release # NoRelease
  /\ release.k <= Len(Ids(release.control))
  /\ gates' = gates \cup {Ids(release.control)[k] : k \in R!Positions(Ids(release.control))}
  /\ anchor' = Ids(release.control)[release.k]
  /\ stage' = "settling"
  /\ UNCHANGED <<clockVars, plan, at, release, target, executedControls, runs, startedAt>>

OpenGate ==
  /\ stage = "releasing"
  /\ release # NoRelease
  /\ release.k <= Len(Ids(release.control))
  /\ gates' = gates \cup {Ids(release.control)[release.k]}
  /\ anchor' = Ids(release.control)[release.k]
  /\ stage' = "settling"
  /\ UNCHANGED <<clockVars, plan, at, release, target, executedControls, runs, startedAt>>

EndRelease ==
  /\ stage = "releasing"
  /\ release # NoRelease
  /\ release.k > Len(Ids(release.control))
  /\ release' = NoRelease
  /\ UNCHANGED <<clockVars, plan, stage, at, anchor, target, executedControls, gates, runs, startedAt>>

-----------------------------------------------------------------------------
\* The package under evaluation.
PackageSettles ==
  /\ Active
  /\ \E i \in Instances, outcome \in Settlements :
       /\ runs[i] = "pending"
       /\ runs' = [runs EXCEPT ![i] = outcome]
  /\ UNCHANGED <<clockVars, interpreterVars>>

PackageSetsTimer ==
  /\ Active
  /\ \E i \in Instances : runs[i] # "idle"
  /\ \E delay \in Delays : SetTimeout(delay)
  /\ UNCHANGED <<interpreterVars, runs>>

PackageClearsTimer ==
  /\ Active
  /\ \E timer \in timers : ClearTimeout(timer)
  /\ UNCHANGED <<interpreterVars, runs>>

Interpret ==
  \/ Start \/ Run \/ RunGated \/ Commit \/ ActionsOver
  \/ Settled \/ SettlingFiresTimer \/ Blocked
  \/ CommitSettled \/ CommitStarves
  \/ ApplyAdvance \/ AdvanceFiresTimer \/ AdvanceEnds \/ AdvancesApplied
  \/ BeginRelease \/ NothingReady \/ OpenGate \/ EndRelease

Package == PackageSettles \/ PackageSetsTimer \/ PackageClearsTimer

=============================================================================
