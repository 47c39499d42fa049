------------------------------ MODULE CaseRunner ------------------------------
(***************************************************************************)
(* createCaseRunner/runCase of src/v03-runner.mjs: the host side of one    *)
(* container run.  The module's variables are the closure's variables; an  *)
(* action is one turn of the event loop (a timer, or an event of the       *)
(* Docker client `child` or of the `docker rm --force` process `remover`). *)
(* The continuation of `await removeContainer()` is a microtask, which no  *)
(* other handler can precede, so it is part of the action that settles the *)
(* removal.  Docker is external: it may print, close, create, keep or lose *)
(* the container at any moment its interface allows.                       *)
(***************************************************************************)
EXTENDS Integers

CONSTANTS
  evaluationTimeoutMs,  \* execution budget, in ticks
  removeGraceMs,        \* CONTAINER_REMOVE_GRACE_MS, in ticks
  limitBytes,           \* [Streams -> Nat]: stdoutLimitBytes, stderrLimitBytes
  recordedOutputBytes,  \* raw bytes kept per stream
  charWidth,            \* [Streams -> 1..4]: bytes per UTF-8 character printed
  ChunkSizes,           \* bound: the sizes a data event may have
  MaxBytes              \* bound: bytes printed per stream

Streams == {"stdout", "stderr"}
Timers == {"budget", "remove", "stop"}

ASSUME BudgetAssumption ==
  /\ evaluationTimeoutMs \in Nat \ {0}
  /\ removeGraceMs \in Nat \ {0}
  /\ limitBytes \in [Streams -> Nat]
  /\ recordedOutputBytes \in Nat
  /\ charWidth \in [Streams -> 1..4]
  /\ ChunkSizes \subseteq Nat \ {0}
  /\ MaxBytes \in Nat

VARIABLES
  now,             \* the host's clock
  armed,           \* the timers that are set
  due,             \* when an armed timer fires
  child,           \* the docker client: not spawned, spawned, or failing to spawn
  closed,          \* its 'close' event was handled
  closeExitCode,   \* and carried this exit code
  timedOut,
  outputTruncated,
  stopped,         \* stop() was entered
  cleanupDone,     \* and has its answer from removeContainer()
  cleanupError,    \* "null", or the reason
  remover,         \* the `docker rm --force` process
  bytes,           \* observed bytes per stream
  recordedBytes,   \* recorded bytes per stream
  container,       \* the named container (external)
  outcome,         \* the promise of runCase
  report           \* the run record it was resolved with

clientVars == <<child, closed, closeExitCode>>
flagVars == <<timedOut, outputTruncated>>
cleanupVars == <<stopped, cleanupDone, cleanupError, remover>>
streamVars == <<bytes, recordedBytes>>
timerVars == <<armed, due>>
resultVars == <<outcome, report>>
vars == <<now, timerVars, clientVars, flagVars, cleanupVars, streamVars,
          container, resultVars>>

ExitCodes == {"zero", "nonzero", "null"}
CleanupErrors ==
  {"null", "stop failed", "could not start", "exceeded", "failed", "exited nonzero"}
Records ==
  [exitCode: ExitCodes, timedOut: BOOLEAN, outputTruncated: BOOLEAN,
   cleanupError: CleanupErrors, bytes: [Streams -> Nat],
   storedBytes: [Streams -> Nat]]

\* Bound on the clock: one grace beyond the latest time a run can settle.
Deadline == evaluationTimeoutMs + 2 * removeGraceMs
Horizon == Deadline + removeGraceMs

Init ==
  /\ now = 0
  /\ armed = {}
  /\ due = [t \in Timers |-> 0]
  /\ child = "unspawned"
  /\ closed = FALSE
  /\ closeExitCode = "null"
  /\ timedOut = FALSE
  /\ outputTruncated = FALSE
  /\ stopped = FALSE
  /\ cleanupDone = FALSE
  /\ cleanupError = "null"
  /\ remover = "none"
  /\ bytes = [s \in Streams |-> 0]
  /\ recordedBytes = [s \in Streams |-> 0]
  /\ container = "none"
  /\ outcome = "pending"
  /\ report = [exitCode |-> "null", timedOut |-> FALSE, outputTruncated |-> FALSE,
               cleanupError |-> "null", bytes |-> [s \in Streams |-> 0],
               storedBytes |-> [s \in Streams |-> 0]]

-----------------------------------------------------------------------------
\* Buffer.concat(recorded).toString('utf8') measured as the record stores it: a
\* character cut by the end of the recorded bytes becomes U+FFFD, three bytes.
StoredBytes(s, n) ==
  LET cut == n % charWidth[s] IN IF cut = 0 THEN n ELSE (n - cut) + 3

\* The timers that settling a pending run leaves armed.
AfterSettling(timers) ==
  IF outcome = "pending" THEN timers \ {"budget", "stop"} ELSE timers

\* finish(exitCode): the first call resolves the run with a snapshot of the
\* closure's variables, a later one does nothing.
Finish(exitCode) ==
  IF outcome = "pending"
  THEN /\ outcome' = "resolved"
       /\ report' = [exitCode |-> exitCode,
                     timedOut |-> timedOut',
                     outputTruncated |-> outputTruncated',
                     cleanupError |-> cleanupError',
                     bytes |-> bytes',
                     storedBytes |->
                       [s \in Streams |-> StoredBytes(s, recordedBytes'[s])]]
  ELSE UNCHANGED resultVars

\* Plausible bug: a client that is still open gets no last grace.
AfterRemovalWithoutGrace(timers, error) ==
  /\ cleanupError' = error
  /\ cleanupDone' = TRUE
  /\ armed' = AfterSettling(timers)
  /\ UNCHANGED due
  /\ IF closed THEN Finish(closeExitCode) ELSE UNCHANGED resultVars

\* Plausible bug: stop() forgets that the client closed during the removal.
AfterRemovalIgnoringClose(timers, error) ==
  /\ cleanupError' = error
  /\ cleanupDone' = TRUE
  /\ armed' = timers \cup {"stop"}
  /\ due' = [due EXCEPT !["stop"] = now + removeGraceMs]
  /\ UNCHANGED resultVars

\* The rest of stop() once the removal has an answer: a client that already
\* closed is reported now, another one gets a last grace.
AfterRemoval(timers, error) ==
  /\ cleanupError' = error
  /\ cleanupDone' = TRUE
  /\ IF closed
     THEN /\ Finish(closeExitCode)
          /\ armed' = AfterSettling(timers)
          /\ UNCHANGED due
     ELSE /\ armed' = timers \cup {"stop"}
          /\ due' = [due EXCEPT !["stop"] = now + removeGraceMs]
          /\ UNCHANGED resultVars

\* stop(), up to its await: child.kill may throw, the removal may fail to start.
Stop(timers) ==
  IF stopped
  THEN /\ armed' = timers
       /\ UNCHANGED <<cleanupVars, due, resultVars>>
  ELSE /\ stopped' = TRUE
       /\ \/ /\ remover' = "running"
             /\ armed' = timers \cup {"remove"}
             /\ due' = [due EXCEPT !["remove"] = now + removeGraceMs]
             /\ UNCHANGED <<cleanupDone, cleanupError, resultVars>>
          \/ /\ remover' = "none"
             /\ \E error \in {"stop failed", "could not start"} : AfterRemoval(timers, error)

-----------------------------------------------------------------------------
\* spawn('docker', args) throws inside the promise executor.
SpawnThrows ==
  /\ child = "unspawned"
  /\ outcome = "pending"
  /\ outcome' = "rejected"
  /\ UNCHANGED <<now, timerVars, clientVars, flagVars, cleanupVars, streamVars,
                 container, report>>

\* The client is spawned, or its spawn will be reported as an 'error' event.
Spawn ==
  /\ child = "unspawned"
  /\ outcome = "pending"
  /\ child' \in {"spawned", "failing"}
  /\ armed' = {"budget"}
  /\ due' = [due EXCEPT !["budget"] = now + evaluationTimeoutMs]
  /\ UNCHANGED <<now, closed, closeExitCode, flagVars, cleanupVars, streamVars,
                 container, resultVars>>

\* child 'error'
ChildError ==
  /\ child = "failing"
  /\ outcome = "pending"
  /\ outcome' = "rejected"
  /\ armed' = AfterSettling(armed)
  /\ UNCHANGED <<now, due, clientVars, flagVars, cleanupVars, streamVars,
                 container, report>>

\* 'data' on a stream of the client
Data(s, n) ==
  /\ child = "spawned"
  /\ ~closed
  /\ bytes[s] + n <= MaxBytes
  /\ bytes' = [bytes EXCEPT ![s] = @ + n]
  /\ recordedBytes' =
       [recordedBytes EXCEPT ![s] = IF @ + n <= recordedOutputBytes
                                    THEN @ + n ELSE recordedOutputBytes]
  /\ IF bytes'[s] > limitBytes[s]
     THEN /\ outputTruncated' = TRUE
          /\ UNCHANGED timedOut
          /\ Stop(armed)
     ELSE UNCHANGED <<flagVars, cleanupVars, timerVars, resultVars>>
  /\ UNCHANGED <<now, clientVars, container>>

\* Plausible bug: the client's close settles a run whose removal is unanswered.
ChildCloseSettlesAtOnce(exitCode) ==
  /\ child # "unspawned"
  /\ child = "failing" => outcome # "pending" /\ exitCode = "nonzero"
  /\ ~closed
  /\ exitCode = "zero" => container = "gone"
  /\ closed' = TRUE
  /\ closeExitCode' = exitCode
  /\ UNCHANGED <<now, due, child, flagVars, cleanupVars, streamVars, container>>
  /\ Finish(exitCode)
  /\ armed' = AfterSettling(armed)

\* child 'close'.  The client of a foreground run exits 0 only when its
\* container did; any other code says nothing about the container.
ChildClose(exitCode) ==
  /\ child # "unspawned"
  /\ child = "failing" => outcome # "pending" /\ exitCode = "nonzero"
  /\ ~closed
  /\ exitCode = "zero" => container = "gone"
  /\ closed' = TRUE
  /\ closeExitCode' = exitCode
  /\ UNCHANGED <<now, due, child, flagVars, cleanupVars, streamVars, container>>
  /\ IF ~stopped \/ cleanupDone
     THEN Finish(exitCode) /\ armed' = AfterSettling(armed)
     ELSE UNCHANGED <<armed, resultVars>>

-----------------------------------------------------------------------------
Fires(t) == t \in armed /\ now >= due[t]

\* The budget timer: it is cleared by settling only, so it also fires during the
\* cleanup of an overflow.
BudgetExpires ==
  /\ Fires("budget")
  /\ timedOut' = TRUE
  /\ UNCHANGED outputTruncated
  /\ UNCHANGED <<now, clientVars, streamVars, container>>
  /\ Stop(armed \ {"budget"})

\* settleRemove through the grace timer, which also kills the remover.
RemoveGraceExpires ==
  /\ Fires("remove")
  /\ remover' = "abandoned"
  /\ UNCHANGED <<now, clientVars, flagVars, streamVars, stopped, container>>
  /\ AfterRemoval(armed \ {"remove"}, "exceeded")

\* settleRemove through the remover's 'close' 0: the container that existed is
\* removed.  A container may still be created later by a slow client.
RemoverSucceeds ==
  /\ remover = "running"
  /\ remover' = "confirmed"
  /\ container' = IF container = "up" THEN "gone" ELSE container
  /\ UNCHANGED <<now, clientVars, flagVars, streamVars, stopped>>
  /\ AfterRemoval(armed \ {"remove"}, "null")

\* Plausible bug: the remover's failure is answered like a removal.
RemoverFailsSilently ==
  /\ remover = "running"
  /\ remover' = "failed"
  /\ UNCHANGED <<now, clientVars, flagVars, streamVars, stopped, container>>
  /\ AfterRemoval(armed \ {"remove"}, "null")

\* settleRemove through the remover's 'error', or 'close' with another code.
RemoverFails ==
  /\ remover = "running"
  /\ remover' = "failed"
  /\ UNCHANGED <<now, clientVars, flagVars, streamVars, stopped, container>>
  /\ \E error \in {"failed", "exited nonzero"} : AfterRemoval(armed \ {"remove"}, error)

\* The stop timer: kill the client and report without its exit code.
StopGraceExpires ==
  /\ Fires("stop")
  /\ UNCHANGED <<now, due, clientVars, flagVars, cleanupVars, streamVars, container>>
  /\ Finish("null")
  /\ armed' = AfterSettling(armed \ {"stop"})

\* The clock: it does not pass a timer that is due, nor the 'error' event that
\* the event loop delivers before its timers.
Tick ==
  /\ child # "unspawned"
  /\ ~(child = "failing" /\ outcome = "pending")
  /\ now < Horizon
  /\ \A t \in armed : now < due[t]
  /\ now' = now + 1
  /\ UNCHANGED <<timerVars, clientVars, flagVars, cleanupVars, streamVars,
                 container, resultVars>>

\* Docker creates the container; "late" is one created after a confirmed removal.
ContainerStarts ==
  /\ child = "spawned"
  /\ ~closed
  /\ container = "none"
  /\ container' = IF remover = "confirmed" THEN "late" ELSE "up"
  /\ UNCHANGED <<now, timerVars, clientVars, flagVars, cleanupVars, streamVars,
                 resultVars>>

ContainerExits ==
  /\ container \in {"up", "late"}
  /\ container' = "gone"
  /\ UNCHANGED <<now, timerVars, clientVars, flagVars, cleanupVars, streamVars,
                 resultVars>>

\* The caller has its answer.
Settled == outcome # "pending" /\ UNCHANGED vars

Next ==
  \/ SpawnThrows
  \/ Spawn
  \/ ChildError
  \/ \E s \in Streams, n \in ChunkSizes : Data(s, n)
  \/ \E exitCode \in ExitCodes : ChildClose(exitCode)
  \/ BudgetExpires
  \/ RemoveGraceExpires
  \/ RemoverSucceeds
  \/ RemoverFails
  \/ StopGraceExpires
  \/ Tick
  \/ ContainerStarts
  \/ ContainerExits
  \/ Settled

\* The host's event loop runs what is due and time passes; nothing is assumed
\* of Docker, of the client or of the remover.
Fairness ==
  /\ WF_vars(Spawn \/ SpawnThrows)
  /\ WF_vars(ChildError)
  /\ WF_vars(BudgetExpires)
  /\ WF_vars(RemoveGraceExpires)
  /\ WF_vars(StopGraceExpires)
  /\ WF_vars(Tick)

SafetySpec == Init /\ [][Next]_vars
Spec == SafetySpec /\ Fairness

-----------------------------------------------------------------------------
TypeOK ==
  /\ now \in 0..Horizon
  /\ armed \subseteq Timers
  /\ due \in [Timers -> Nat]
  /\ child \in {"unspawned", "spawned", "failing"}
  /\ closed \in BOOLEAN
  /\ closeExitCode \in ExitCodes
  /\ timedOut \in BOOLEAN
  /\ outputTruncated \in BOOLEAN
  /\ stopped \in BOOLEAN
  /\ cleanupDone \in BOOLEAN
  /\ cleanupError \in CleanupErrors
  /\ remover \in {"none", "running", "confirmed", "failed", "abandoned"}
  /\ bytes \in [Streams -> Nat]
  /\ recordedBytes \in [Streams -> Nat]
  /\ container \in {"none", "up", "gone", "late"}
  /\ outcome \in {"pending", "resolved", "rejected"}
  /\ report \in Records

(***************************************************************************)
(* The run contract: resolved or rejected exactly once, within the budget  *)
(* and two graces, whatever Docker does (V0.3-CONTRACT: "waits within a    *)
(* bounded grace [...] and resolves the run record exactly once").         *)
(***************************************************************************)
Contract ==
  INSTANCE RunContract WITH
    Deadline <- Deadline,
    Horizon <- Horizon,
    flagged <- report.timedOut \/ report.outputTruncated,
    clean <- report.cleanupError = "null"

ImplementsContract == Contract!Spec

\* A record of a stopped run waits for the removal's answer, even when the client
\* closes first: cleanupError is never read before it is final (lines 119-123).
RecordWaitsForRemoval ==
  outcome = "resolved" /\ stopped =>
    /\ cleanupDone
    /\ remover # "running"
    /\ report.cleanupError = cleanupError

\* A record with a null cleanupError of a run that was stopped, or that exited 0,
\* leaves no container behind that existed when the host asked for its removal.
EvidenceLeavesNoContainer ==
  /\ outcome = "resolved"
  /\ report.cleanupError = "null"
  /\ stopped \/ report.exitCode = "zero"
  => container # "up"

\* An unflagged record is that of a client that closed by itself: the host neither
\* stopped it nor will, and the exit code is the client's own.
UnflaggedRunIsUntouched ==
  /\ outcome = "resolved"
  /\ ~report.timedOut
  /\ ~report.outputTruncated
  => /\ closed
     /\ ~stopped
     /\ report.exitCode = closeExitCode
     /\ armed = {}

\* The truncation flag of a record agrees with its byte counts, as
\* validateRunRecord requires (v03-run-record.mjs line 25).
TruncationMatchesBytes ==
  outcome = "resolved" =>
    (report.outputTruncated <=> \E s \in Streams : report.bytes[s] > limitBytes[s])

\* The stored output stays within the record cap and is complete when the observed
\* output is (v03-run-record.mjs lines 21-23).  True of one-byte characters only.
RecordFitsCap ==
  outcome = "resolved" =>
    \A s \in Streams :
      /\ report.storedBytes[s] <= recordedOutputBytes
      /\ report.bytes[s] <= recordedOutputBytes => report.storedBytes[s] = report.bytes[s]

-----------------------------------------------------------------------------
(***************************************************************************)
(* The inductive invariant behind the properties above, in named parts.    *)
(***************************************************************************)

\* Before the client is spawned nothing has happened, and a rejected run is one
\* that was never stopped.
StartInv ==
  /\ child = "unspawned" => now = 0 /\ armed = {} /\ ~closed /\ ~stopped
                             /\ outcome # "resolved" /\ container = "none"
  /\ child = "failing" /\ outcome = "pending" => ~stopped /\ now = 0
  /\ outcome = "rejected" => child # "spawned" /\ ~stopped /\ armed = {}

\* Where stop() is: not entered, waiting for the removal, or past it.
StopInv ==
  /\ "remove" \in armed <=> remover = "running"
  /\ remover # "none" => stopped
  /\ cleanupDone => stopped
  /\ stopped /\ ~cleanupDone <=> remover = "running"
  /\ stopped <=> timedOut \/ outputTruncated
  /\ ~cleanupDone => cleanupError = "null"
  /\ cleanupDone /\ cleanupError = "null" => remover = "confirmed"

\* Which timer is responsible for settling a pending run, and what settled it.
SettleInv ==
  /\ outcome = "pending" /\ child # "unspawned" /\ ~stopped => "budget" \in armed /\ ~closed
  /\ outcome = "pending" /\ cleanupDone => "stop" \in armed /\ ~closed
  /\ outcome = "resolved" /\ stopped => cleanupDone
  /\ outcome = "resolved" /\ ~stopped => closed
  /\ outcome = "resolved" => armed = {}
  /\ "stop" \in armed => cleanupDone
  /\ child = "failing" /\ outcome = "pending" => ~closed

\* No armed timer is overdue, and the timers chain up to the deadline.
TimerInv ==
  /\ \A t \in armed : now <= due[t]
  /\ "budget" \in armed => due["budget"] = evaluationTimeoutMs
  /\ "remove" \in armed => due["remove"] <= evaluationTimeoutMs + removeGraceMs
  /\ "stop" \in armed => due["stop"] <= Deadline

\* The record is a snapshot of variables that were final when it was taken.
ReportInv ==
  /\ outcome = "resolved" =>
       /\ report.cleanupError = cleanupError
       /\ report.timedOut \/ report.outputTruncated <=> stopped
       /\ report.exitCode # "null" => closed
       /\ closed /\ report.exitCode # "null" => report.exitCode = closeExitCode
       /\ ~stopped => report.exitCode = closeExitCode
       /\ report.outputTruncated <=> \E s \in Streams : report.bytes[s] > limitBytes[s]
  /\ outcome # "resolved" =>
       /\ report.cleanupError = "null"
       /\ ~report.timedOut
       /\ ~report.outputTruncated

\* The container is down once its removal is confirmed or its client exited 0.
ContainerInv ==
  /\ remover = "confirmed" => container # "up"
  /\ closed /\ closeExitCode = "zero" => container = "gone"

\* The truncation flag and the recorded bytes follow the observed bytes.
OutputInv ==
  /\ outputTruncated <=> \E s \in Streams : bytes[s] > limitBytes[s]
  /\ \A s \in Streams :
       recordedBytes[s] = IF bytes[s] <= recordedOutputBytes
                          THEN bytes[s] ELSE recordedOutputBytes

\* What every step of the runner preserves.
IInv ==
  /\ TypeOK
  /\ StartInv
  /\ StopInv
  /\ SettleInv
  /\ TimerInv
  /\ ReportInv
  /\ ContainerInv
  /\ OutputInv
=============================================================================
