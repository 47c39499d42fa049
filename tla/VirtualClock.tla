----------------------------- MODULE VirtualClock -----------------------------
(***************************************************************************)
(* createVirtualClock (harness-v0.3/trust/virtual-clock.mjs): the timers   *)
(* of the evaluated code live in a queue, and time stands still unless the *)
(* interpreter fires a timer or advances.  A timer is its due time and its *)
(* handle, which is also its sequence number; its callback is whatever the *)
(* evaluated code does next.                                               *)
(***************************************************************************)
EXTENDS Integers, FiniteSets

CONSTANTS
  Delays,      \* bound: the delays setTimeout is called with
  MaxHandles   \* bound: the calls of setTimeout

ASSUME ClockAssumption == Delays \subseteq Nat /\ MaxHandles \in Nat

VARIABLES
  now,         \* the virtual time, from originMs
  timers,      \* the pending timers
  nextHandle

clockVars == <<now, timers, nextHandle>>

ClockInit ==
  /\ now = 0
  /\ timers = {}
  /\ nextHandle = 1

Precedes(timer1, timer2) ==
  \/ timer1.due < timer2.due
  \/ timer1.due = timer2.due /\ timer1.sequence <= timer2.sequence

\* Plausible bug: timers fire in the order they were set.
EarliestSet(timer) ==
  /\ timer \in timers
  /\ \A other \in timers : timer.sequence <= other.sequence

\* earliestHandle(null).
Earliest(timer) ==
  /\ timer \in timers
  /\ \A other \in timers : Precedes(timer, other)

\* fireTimer.
Fire(timer) ==
  /\ timers' = timers \ {timer}
  /\ now' = IF timer.due > now THEN timer.due ELSE now
  /\ UNCHANGED nextHandle

SetTimeout(delay) ==
  /\ nextHandle <= MaxHandles
  /\ timers' = timers \cup {[due |-> now + delay, sequence |-> nextHandle]}
  /\ nextHandle' = nextHandle + 1
  /\ UNCHANGED now

ClearTimeout(timer) ==
  /\ timer \in timers
  /\ timers' = timers \ {timer}
  /\ UNCHANGED <<now, nextHandle>>

-----------------------------------------------------------------------------
\* No timer is late: time never passes the due time of a pending timer, so the code
\* under evaluation cannot observe a timeout that should have fired and did not.
NoTimerIsLate == \A timer \in timers : now <= timer.due
=============================================================================
