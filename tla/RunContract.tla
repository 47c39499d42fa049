----------------------------- MODULE RunContract -----------------------------
(***************************************************************************)
(* What the execution-budget paragraph of docs/V0.3-CONTRACT.md promises   *)
(* of one container run, without saying how: the run record is resolved    *)
(* exactly once (or the run is rejected, once), no later than Deadline     *)
(* after the container client was started, and an unflagged record never   *)
(* carries a cleanup failure.  CaseRunner implements this specification.   *)
(***************************************************************************)
EXTENDS Naturals

CONSTANTS
  Deadline,   \* the latest time at which the run may still be pending
  Horizon     \* bound: the clock stops here

VARIABLES
  now,        \* time since the client was started
  outcome,    \* what the promise returned by runCase has become
  flagged,    \* the settled record says the run exceeded its budget
  clean       \* the settled record reports no cleanup failure

vars == <<now, outcome, flagged, clean>>

Init ==
  /\ now = 0
  /\ outcome = "pending"
  /\ flagged = FALSE
  /\ clean = TRUE

\* A pending run becomes a record; only a run that exceeded its budget was
\* cleaned up by the host, so only a flagged record can lack a clean removal.
Resolve ==
  /\ outcome = "pending"
  /\ outcome' = "resolved"
  /\ flagged' \in BOOLEAN
  /\ clean' \in BOOLEAN
  /\ clean' \/ flagged'
  /\ UNCHANGED now

Reject ==
  /\ outcome = "pending"
  /\ outcome' = "rejected"
  /\ UNCHANGED <<now, flagged, clean>>

\* Time never passes the deadline of a pending run.
Tick ==
  /\ now < Horizon
  /\ outcome = "pending" => now < Deadline
  /\ now' = now + 1
  /\ UNCHANGED <<outcome, flagged, clean>>

Next == Resolve \/ Reject \/ Tick

SafetySpec == Init /\ [][Next]_vars

\* Every run settles.
Settles == <>(outcome # "pending")

Spec == SafetySpec /\ Settles
=============================================================================
