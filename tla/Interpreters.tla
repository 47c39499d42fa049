----------------------------- MODULE Interpreters -----------------------------
(***************************************************************************)
(* The three executions of tx actions that share the virtual clock: the    *)
(* interpreter of the trust evaluator (Interpreter), the interpreter of    *)
(* the benchmark (executePlan of                                           *)
(* harness-v0.3/benchmark/interpreter-main.mjs on tx.mjs), and the direct  *)
(* comparison (tx-direct.mjs).                                             *)
(*                                                                         *)
(* In the benchmark every run and commit has a settle loop of its own      *)
(* (settleTxPromise), from its launch on: the loops of the runs that wait  *)
(* for their group turn while the interpreter awaits another action, and   *)
(* each of them may fire a timer.  Their turns are not counted, since the  *)
(* package may take any number of them to settle.  A gate is opened for a  *)
(* run; as the package need not care for it, a run whose gate no control   *)
(* opens is like any other.                                                *)
(***************************************************************************)
EXTENDS Interpreter

CONSTANT BenchmarkPlans   \* bound: plans that validateBenchmarkPlan accepts

ASSUME BenchmarkPlansAssumption ==
  \A p \in BenchmarkPlans : R!Structure(p) /\ ControlFields(p)

VARIABLES
  harness,    \* "trust", "interpreter" or "direct"
  pending     \* the runs launched for a group and not awaited yet

allVars == <<vars, harness, pending>>

\* materializeComparison: a comparison has no completion gates.
DirectAdmits(p) == R!ReleaseOrders(p) = {}

InitAny ==
  /\ pending = {}
  /\ \/ harness = "trust" /\ Init
     \/ harness = "interpreter" /\ plan \in BenchmarkPlans /\ Begin
     \/ harness = "direct" /\ plan \in {p \in BenchmarkPlans : DirectAdmits(p)} /\ Begin

-----------------------------------------------------------------------------
\* executeRun and tx.commit call the package.  What the package then does with the step
\* it was given (the wait for the gate, the attempts, the compensation) is its own.
Launch(i) == runs' = [runs EXCEPT ![i] = "pending"]

\* settleTxPromise of a run, and the await of what it returns.
Await(i) == anchor' = i /\ stage' = "settling"

\* The actions that return at once.
Create ==
  /\ AtAction("tx.start") \/ AtAction("env.abort-controller")
  /\ startedAt' = [startedAt EXCEPT ![at] = now]
  /\ anchor' = at
  /\ stage' = "applying"
  /\ UNCHANGED <<clockVars, plan, at, release, target, executedControls, gates, runs, pending>>

RunScripted ==
  /\ harness = "interpreter"
  /\ AtAction("tx.run") /\ at \notin Gated
  /\ Launch(at) /\ Await(at)
  /\ UNCHANGED <<clockVars, plan, at, release, target, executedControls, gates, startedAt, pending>>

CommitSettling ==
  /\ harness = "interpreter"
  /\ AtAction("tx.commit")
  /\ Launch(at) /\ Await(at)
  /\ UNCHANGED <<clockVars, plan, at, release, target, executedControls, gates, startedAt, pending>>

\* executeDirectRun, and the commit of runDirectInput.
DirectCall ==
  /\ harness = "direct"
  /\ AtAction("tx.run") \/ AtAction("tx.commit")
  /\ Launch(at) /\ Await(at)
  /\ UNCHANGED <<clockVars, plan, at, release, target, executedControls, gates, startedAt, pending>>

\* completionControlFor: the first control that names the run.
CompletionControl(i) ==
  LET controls == {c \in ReleaseOrders : \E k \in R!Positions(Ids(c)) : Ids(c)[k] = i}
  IN CHOOSE c \in controls : \A other \in controls : c <= other
Group(control) == {Ids(control)[k] : k \in R!Positions(Ids(control))}

\* A run of a group waits for the others without being awaited; the last one opens the
\* gates of all (releaseCompletionGroup).
RunOfGroup ==
  /\ harness = "interpreter"
  /\ AtAction("tx.run") /\ at \in Gated
  /\ Launch(at)
  /\ pending' = pending \cup {at}
  /\ IF Group(CompletionControl(at)) \subseteq pending'
     THEN /\ gates' = gates \cup Group(CompletionControl(at))
          /\ release' = [control |-> CompletionControl(at), k |-> 1]
          /\ stage' = "releasing"
          /\ UNCHANGED at
     ELSE at' = at + 1 /\ UNCHANGED <<gates, release, stage>>
  /\ UNCHANGED <<clockVars, plan, anchor, target, executedControls, startedAt>>

\* The runs of a group are awaited in its order.
AwaitNext ==
  /\ stage = "releasing"
  /\ release.k <= Len(Ids(release.control))
  /\ Await(Ids(release.control)[release.k])
  /\ UNCHANGED <<clockVars, plan, at, release, target, executedControls, gates, runs, startedAt,
                 pending>>

GroupIsOver ==
  /\ stage = "releasing"
  /\ release.k > Len(Ids(release.control))
  /\ release' = NoRelease
  /\ stage' = "action" /\ at' = at + 1
  /\ UNCHANGED <<clockVars, plan, anchor, target, executedControls, gates, runs, startedAt, pending>>

\* Only the runs of a group that was never complete are asked for.
PlanIsOver ==
  /\ stage = "action"
  /\ at > Len(plan.actions)
  /\ stage' = IF pending = {} THEN "interpreted" ELSE "leftover"
  /\ UNCHANGED <<clockVars, plan, at, anchor, release, target, executedControls, gates, runs,
                 startedAt, pending>>

-----------------------------------------------------------------------------
\* The loops turn while a run is awaited, and while an advance lets the package react.
Turning == stage \in {"settling", "draining"}
Watched == {i \in Instances : runs[i] = "pending"}

AwaitedSettles ==
  /\ stage = "settling"
  /\ runs[anchor] # "pending"
  /\ stage' = AfterSettling(runs[anchor])
  /\ pending' = pending \ {anchor}
  /\ UNCHANGED <<clockVars, plan, at, anchor, release, target, executedControls, gates, runs, startedAt>>

LoopFiresTimer ==
  /\ Turning /\ Watched # {}
  /\ \E timer \in timers : Earliest(timer) /\ Fire(timer)
  /\ UNCHANGED <<interpreterVars, runs, pending>>

\* The failure of a loop is thrown where its run is awaited, or, when it is not awaited
\* yet, ends the process as an unhandled rejection.
LoopIsBlocked ==
  /\ Turning /\ Watched # {}
  /\ timers = {}
  /\ stage' = "blocked"
  /\ UNCHANGED <<clockVars, plan, at, anchor, release, target, executedControls, gates, runs,
                 startedAt, pending>>

\* rethrowInfrastructureError of a run that is not awaited yet.
UnawaitedFails ==
  /\ Turning
  /\ \E i \in pending : runs[i] = "infrastructure"
  /\ stage' = "infrastructure"
  /\ UNCHANGED <<clockVars, plan, at, anchor, release, target, executedControls, gates, runs,
                 startedAt, pending>>

\* clock.advance, with a turn after each timer.
AdvanceFires ==
  /\ stage \in {"advancing", "draining"}
  /\ \E timer \in timers : timer.due <= target /\ Earliest(timer) /\ Fire(timer)
  /\ stage' = "draining"
  /\ UNCHANGED <<plan, at, anchor, release, target, executedControls, gates, startedAt, runs, pending>>

AdvanceIsOver ==
  /\ stage \in {"advancing", "draining"}
  /\ \A timer \in timers : timer.due > target
  /\ now' = target
  /\ stage' = "applying"
  /\ UNCHANGED <<timers, nextHandle, plan, at, anchor, release, target, executedControls, gates,
                 runs, startedAt, pending>>

\* applyMainScheduleControls and applyVirtualAdvances, as in Interpreter.
ApplyControls == ApplyAdvance /\ UNCHANGED pending
ControlsApplied == AdvancesApplied /\ UNCHANGED pending

BenchmarkInterpret ==
  \/ Create \/ RunScripted \/ CommitSettling \/ DirectCall
  \/ RunOfGroup \/ AwaitNext \/ GroupIsOver \/ PlanIsOver
  \/ AwaitedSettles \/ LoopFiresTimer \/ LoopIsBlocked \/ UnawaitedFails
  \/ AdvanceFires \/ AdvanceIsOver
  \/ ApplyControls \/ ControlsApplied

InterpretAny ==
  /\ \/ harness = "trust" /\ Interpret /\ UNCHANGED pending
     \/ harness # "trust" /\ BenchmarkInterpret
  /\ UNCHANGED harness

Over == ~Active /\ UNCHANGED allVars

NextAny ==
  \/ InterpretAny
  \/ Package /\ UNCHANGED <<harness, pending>>
  \/ Over

\* The event loop always gets back to the interpreter; nothing is assumed of the package.
SpecAny == InitAny /\ [][NextAny]_allVars /\ WF_allVars(InterpretAny)

-----------------------------------------------------------------------------
Concluded(i) == runs[i] \in Settlements

\* The completions of a release order happen in its order: a gate is open only when all
\* runs of one of its orders are launched and, in the trust interpreter, those before it
\* in the order have settled.  The benchmark opens the gates of a group together.
GatesOpenInOrder ==
  \A i \in gates :
    \E c \in ReleaseOrders : \E k \in R!Positions(Ids(c)) :
      /\ Ids(c)[k] = i
      /\ \A l \in R!Positions(Ids(c)) : runs[Ids(c)[l]] # "idle"
      /\ harness = "trust" =>
           c \in executedControls /\ \A l \in 1..(k - 1) : Concluded(Ids(c)[l])

SharedRuns == \E c1, c2 \in ReleaseOrders : c1 # c2 /\ Group(c1) \cap Group(c2) # {}

\* A plan that is interpreted to its end has had every control executed and has an
\* observation of every run and commit, none of them the interpreter's own failure.  The
\* closing assertion never fires for a valid plan, except in the benchmark when two
\* orders share a run.
InterpretationIsComplete ==
  /\ stage = "leftover" => harness = "interpreter" /\ SharedRuns
  /\ stage = "interpreted" =>
       /\ Advances \subseteq executedControls /\ Gated \subseteq gates
       /\ \A i \in Instances :
            plan.actions[i].actionId \in {"tx.run", "tx.commit"} => runs[i] \in {"returned", "thrown"}

FinalRun ==
  CHOOSE i \in R!Runs(plan) : \A other \in R!Runs(plan) : other <= i
Producer(i) ==
  CHOOSE p \in R!Producers(plan) : plan.actions[p].bind = plan.actions[i].tx

\* What validateInvariantApplicability computes from the controls comes true on the
\* clock of the trust interpreter: the final run of a total-timeout plan is launched after
\* the timeout of its transaction has passed.  (The benchmark's plans are not asked for it.)
FinalRunIsLate ==
  [][(harness = "trust" /\ plan.invariant = "tx.total-timeout"
        /\ runs[FinalRun] = "idle" /\ runs'[FinalRun] # "idle")
       => now - startedAt[Producer(FinalRun)] > plan.actions[Producer(FinalRun)].timeoutMs]_allVars

\* Whatever a package that sets finitely many timers does, the interpretation comes to
\* an end: a blocked run is found out after the last of them.
InterpretationEnds == <>(stage \in Ends)
=============================================================================
