----------------------------- MODULE MCInterpreter -----------------------------
(***************************************************************************)
(* Small plans for Interpreters.  Of the trust evaluator: a commit between *)
(* advances, a release order against the order of launch with an advance   *)
(* after each completion, two orders that share a run, and a plan that is  *)
(* not valid because its only advance waits for a gated run.               *)
(***************************************************************************)
EXTENDS Interpreters

Action(actionId, name, timeoutMs) ==
  [actionId |-> actionId, actor |-> "checkout",
   bind |-> IF actionId = "tx.start" THEN name ELSE "null",
   tx |-> IF actionId = "tx.start" THEN "none" ELSE name,
   outcome |-> IF actionId = "tx.run" THEN "return" ELSE "none",
   timeoutMs |-> timeoutMs]
TxStart == Action("tx.start", "tx", 2)
TxRun == Action("tx.run", "tx", 0)
TxCommit == Action("tx.commit", "tx", 0)

TimeAdvance(id, ms) ==
  [operatorId |-> "time.advance/v1", ids |-> <<id>>, advanceMs |-> ms, outcome |-> "none"]
Order(ids) ==
  [operatorId |-> "schedule.release-order/v1", ids |-> ids, advanceMs |-> 0,
   outcome |-> "none"]

PlanOf(actions, transformations, invariant) ==
  [actors |-> <<"checkout">>, actions |-> actions, transformations |-> transformations,
   invariant |-> invariant]

LateRun ==
  PlanOf(<<TxStart, TxRun, TxCommit, TxRun>>,
         <<TimeAdvance(3, 1), TimeAdvance(1, 2), TimeAdvance(4, 1)>>, "tx.total-timeout")
Reordered ==
  PlanOf(<<TxStart, TxRun, TxRun>>,
         <<TimeAdvance(2, 1), Order(<<3, 2>>), TimeAdvance(3, 2)>>, "tx.successful-step-return")
SharedRun ==
  PlanOf(<<TxStart, TxRun, TxRun, TxRun>>,
         <<Order(<<2, 4>>), Order(<<3, 2>>)>>, "tx.successful-step-return")
GatedAdvance ==
  PlanOf(<<TxStart, TxRun, TxRun>>,
         <<Order(<<3, 2>>), TimeAdvance(2, 3)>>, "tx.total-timeout")

\* Of the benchmark: a group against the order of launch with another run between its
\* runs, the same with an advance after that one, two orders that share a run, and a
\* plan without an order, which is a comparison too.
AroundARun ==
  PlanOf(<<TxStart, TxRun, TxRun, TxRun>>, <<Order(<<4, 2>>)>>, "none")
AroundAnAdvance ==
  PlanOf(<<TxStart, TxRun, TxRun, TxRun>>, <<Order(<<2, 4>>), TimeAdvance(3, 1)>>, "none")
Signal == [Action("env.abort-controller", "none", 0) EXCEPT !.bind = "signal"]
Unordered ==
  PlanOf(<<TxStart, Signal, TxRun, TxCommit>>, <<TimeAdvance(3, 1)>>, "none")

MCBenchmarkPlans == {AroundARun, AroundAnAdvance, SharedRun, Unordered}

MCPlans == {LateRun, Reordered, SharedRun, GatedAdvance}
=============================================================================
