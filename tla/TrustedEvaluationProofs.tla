------------------------ MODULE TrustedEvaluationProofs ------------------------
(***************************************************************************)
(* Proofs about a trusted case.  First those about its runner, which is    *)
(* CaseRunner, for every budget, grace, output limit, record cap, text and *)
(* chunk size.  On top of them, that a verdict about the product is the    *)
(* production evaluator's, whatever interleaving of the evaluator, Docker, *)
(* the runner's timers and the host's reads led to it.                     *)
(***************************************************************************)
EXTENDS TrustedEvaluation, TLAPS

-----------------------------------------------------------------------------
(***************************************************************************)
(* Arithmetic of the budget and of the recorded text.                      *)
(***************************************************************************)

\* Deadline and Horizon are natural numbers, the deadline is the budget and two
\* graces.
LEMMA Times ==
  /\ evaluationTimeoutMs \in Nat /\ evaluationTimeoutMs > 0
  /\ removeGraceMs \in Nat /\ removeGraceMs > 0
  /\ Deadline \in Nat /\ Horizon \in Nat
  /\ Deadline = evaluationTimeoutMs + removeGraceMs + removeGraceMs
  /\ Horizon = Deadline + removeGraceMs
BY BudgetAssumption DEF Deadline, Horizon

\* A grace started within the budget ends before the deadline.
LEMMA GraceFits ==
  ASSUME NEW t \in Nat, t <= evaluationTimeoutMs
  PROVE  t <= t + removeGraceMs /\ t + removeGraceMs <= Deadline
BY Times

\* The size of a stored stream is a natural number.
LEMMA StoredBytesType ==
  ASSUME NEW s \in Streams, NEW n \in Nat
  PROVE  StoredBytes(s, n) \in Nat
<1>1. charWidth[s] \in {1, 2, 3, 4}
  BY BudgetAssumption
<1>2. CASE charWidth[s] = 1
  BY <1>2 DEF StoredBytes
<1>3. CASE charWidth[s] = 2
  BY <1>3 DEF StoredBytes
<1>4. CASE charWidth[s] = 3
  BY <1>4 DEF StoredBytes
<1>5. CASE charWidth[s] = 4
  BY <1>5 DEF StoredBytes
<1>6. QED
  BY <1>1, <1>2, <1>3, <1>4, <1>5

\* One-byte characters are never cut: what is stored is what was recorded.
LEMMA AsciiIsStoredVerbatim ==
  ASSUME NEW s \in Streams, NEW n \in Nat, charWidth[s] = 1
  PROVE  StoredBytes(s, n) = n
BY DEF StoredBytes

-----------------------------------------------------------------------------
(***************************************************************************)
(* What the code paths shared by several handlers do.                      *)
(***************************************************************************)

\* finish() leaves a typed promise and record.
LEMMA FinishType ==
  ASSUME TypeOK, NEW code \in ExitCodes, Finish(code),
         timedOut' \in BOOLEAN, outputTruncated' \in BOOLEAN,
         cleanupError' \in CleanupErrors,
         bytes' \in [Streams -> Nat], recordedBytes' \in [Streams -> Nat]
  PROVE  outcome' \in {"pending", "resolved", "rejected"} /\ report' \in Records
<1>1. CASE outcome # "pending"
  BY <1>1 DEF Finish, TypeOK, resultVars
<1>2. CASE outcome = "pending"
  <2>1. [s \in Streams |-> StoredBytes(s, recordedBytes'[s])] \in [Streams -> Nat]
    BY StoredBytesType
  <2>2. QED
    BY <1>2, <2>1 DEF Finish, Records
<1>3. QED
  BY <1>1, <1>2

-----------------------------------------------------------------------------
(***************************************************************************)
(* Type correctness.                                                       *)
(***************************************************************************)

\* The closure's variables are typed before the client is spawned.
LEMMA InitType == Init => TypeOK
<1> SUFFICES ASSUME Init PROVE TypeOK
  OBVIOUS
<1>1. [s \in Streams |-> 0] \in [Streams -> Nat] /\ [t \in Timers |-> 0] \in [Timers -> Nat]
  OBVIOUS
<1>2. "null" \in ExitCodes /\ "null" \in CleanupErrors
  BY DEF ExitCodes, CleanupErrors
<1>3. report \in Records
  BY <1>1, <1>2 DEF Init, Records
<1>4. now \in 0..Horizon
  BY Times DEF Init
<1>5. QED
  BY <1>1, <1>2, <1>3, <1>4 DEF Init, TypeOK

\* The tail of stop() keeps the types of what it assigns.
LEMMA AfterRemovalType ==
  ASSUME TypeOK, NEW T \in SUBSET Timers, NEW error \in CleanupErrors, AfterRemoval(T, error),
         timedOut' \in BOOLEAN, outputTruncated' \in BOOLEAN,
         bytes' \in [Streams -> Nat], recordedBytes' \in [Streams -> Nat]
  PROVE  /\ cleanupError' \in CleanupErrors
         /\ cleanupDone' \in BOOLEAN
         /\ armed' \subseteq Timers
         /\ due' \in [Timers -> Nat]
         /\ outcome' \in {"pending", "resolved", "rejected"}
         /\ report' \in Records
<1>1. cleanupError' \in CleanupErrors /\ cleanupDone' \in BOOLEAN
  BY DEF AfterRemoval
<1>2. CASE closed
  <2>1. Finish(closeExitCode) /\ closeExitCode \in ExitCodes
    BY <1>2 DEF AfterRemoval, TypeOK
  <2>2. outcome' \in {"pending", "resolved", "rejected"} /\ report' \in Records
    BY <1>1, <2>1, FinishType
  <2>3. QED
    BY <1>1, <1>2, <2>2 DEF AfterRemoval, TypeOK, AfterSettling
<1>3. CASE ~closed
  <2>1. now + removeGraceMs \in Nat
    BY Times DEF TypeOK
  <2>2. armed' \subseteq Timers /\ due' \in [Timers -> Nat]
    BY <1>3, <2>1 DEF AfterRemoval, TypeOK, Timers
  <2>3. QED
    BY <1>1, <1>3, <2>2 DEF AfterRemoval, TypeOK, resultVars
<1>4. QED
  BY <1>2, <1>3

\* So does stop() as a whole, entered for the first time or again.
LEMMA StopType ==
  ASSUME TypeOK, NEW T \in SUBSET Timers, Stop(T),
         timedOut' \in BOOLEAN, outputTruncated' \in BOOLEAN,
         bytes' \in [Streams -> Nat], recordedBytes' \in [Streams -> Nat]
  PROVE  /\ cleanupError' \in CleanupErrors
         /\ cleanupDone' \in BOOLEAN
         /\ stopped' \in BOOLEAN
         /\ remover' \in {"none", "running", "confirmed", "failed", "abandoned"}
         /\ armed' \subseteq Timers
         /\ due' \in [Timers -> Nat]
         /\ outcome' \in {"pending", "resolved", "rejected"}
         /\ report' \in Records
<1>1. CASE stopped
  BY <1>1 DEF Stop, TypeOK, cleanupVars, resultVars
<1>2. CASE ~stopped /\ remover' = "running"
  <2>1. now + removeGraceMs \in Nat
    BY Times DEF TypeOK
  <2>2. /\ stopped' = TRUE
        /\ armed' = T \cup {"remove"}
        /\ due' = [due EXCEPT !["remove"] = now + removeGraceMs]
        /\ UNCHANGED <<cleanupDone, cleanupError, resultVars>>
    BY <1>2 DEF Stop
  <2>3. QED
    BY <1>2, <2>1, <2>2 DEF TypeOK, Timers, resultVars
<1>3. CASE ~stopped /\ remover' # "running"
  <2>1. PICK error \in {"stop failed", "could not start"} : AfterRemoval(T, error)
    BY <1>3 DEF Stop
  <2>2. error \in CleanupErrors
    BY DEF CleanupErrors
  <2>3. stopped' = TRUE /\ remover' = "none"
    BY <1>3 DEF Stop
  <2>4. QED
    BY <2>1, <2>2, <2>3, AfterRemovalType
<1>4. QED
  BY <1>1, <1>2, <1>3

\* Every turn of the event loop keeps the types.
LEMMA NextType ==
  ASSUME TypeOK, [Next]_vars
  PROVE  TypeOK'
<1> USE DEF vars, timerVars, clientVars, flagVars, cleanupVars, streamVars, resultVars
<1>1. CASE SpawnThrows
  BY <1>1 DEF SpawnThrows, TypeOK
<1>2. CASE Spawn
  <2>1. now + evaluationTimeoutMs \in Nat
    BY Times DEF TypeOK
  <2>2. QED
    BY <1>2, <2>1 DEF Spawn, TypeOK, Timers
<1>3. CASE ChildError
  BY <1>3 DEF ChildError, TypeOK, AfterSettling
<1>4. ASSUME NEW s \in Streams, NEW n \in ChunkSizes, Data(s, n)
      PROVE  TypeOK'
  <2>1. n \in Nat /\ recordedOutputBytes \in Nat
    BY BudgetAssumption
  <2>2. bytes' \in [Streams -> Nat]
    BY <1>4, <2>1 DEF Data, TypeOK
  <2>3. recordedBytes' \in [Streams -> Nat]
    BY <1>4, <2>1 DEF Data, TypeOK
  <2>4. CASE bytes'[s] > limitBytes[s]
    <3>1. Stop(armed) /\ timedOut' \in BOOLEAN /\ outputTruncated' \in BOOLEAN
      BY <1>4, <2>4 DEF Data, TypeOK
    <3>2. armed \in SUBSET Timers
      BY DEF TypeOK
    <3>3. /\ cleanupError' \in CleanupErrors
          /\ cleanupDone' \in BOOLEAN
          /\ stopped' \in BOOLEAN
          /\ remover' \in {"none", "running", "confirmed", "failed", "abandoned"}
          /\ armed' \subseteq Timers
          /\ due' \in [Timers -> Nat]
          /\ outcome' \in {"pending", "resolved", "rejected"}
          /\ report' \in Records
      BY <2>2, <2>3, <3>1, <3>2, StopType
    <3>4. QED
      BY <1>4, <2>2, <2>3, <3>1, <3>3 DEF Data, TypeOK
  <2>5. CASE ~(bytes'[s] > limitBytes[s])
    BY <1>4, <2>2, <2>3, <2>5 DEF Data, TypeOK
  <2>6. QED
    BY <2>4, <2>5
<1>5. ASSUME NEW code \in ExitCodes, ChildClose(code)
      PROVE  TypeOK'
  <2>1. CASE ~stopped \/ cleanupDone
    <3>1. outcome' \in {"pending", "resolved", "rejected"} /\ report' \in Records
      BY <1>5, <2>1, FinishType DEF ChildClose, TypeOK
    <3>2. QED
      BY <1>5, <2>1, <3>1 DEF ChildClose, TypeOK, AfterSettling
  <2>2. CASE ~(~stopped \/ cleanupDone)
    BY <1>5, <2>2 DEF ChildClose, TypeOK
  <2>3. QED
    BY <2>1, <2>2
<1>6. CASE BudgetExpires
  <2>1. Stop(armed \ {"budget"}) /\ timedOut' \in BOOLEAN /\ outputTruncated' \in BOOLEAN
    BY <1>6 DEF BudgetExpires, TypeOK
  <2>2. /\ armed \ {"budget"} \in SUBSET Timers
        /\ bytes' \in [Streams -> Nat]
        /\ recordedBytes' \in [Streams -> Nat]
    BY <1>6 DEF BudgetExpires, TypeOK
  <2>3. /\ cleanupError' \in CleanupErrors
        /\ cleanupDone' \in BOOLEAN
        /\ stopped' \in BOOLEAN
        /\ remover' \in {"none", "running", "confirmed", "failed", "abandoned"}
        /\ armed' \subseteq Timers
        /\ due' \in [Timers -> Nat]
        /\ outcome' \in {"pending", "resolved", "rejected"}
        /\ report' \in Records
    BY <2>1, <2>2, StopType
  <2>4. QED
    BY <1>6, <2>1, <2>3 DEF BudgetExpires, TypeOK
<1>7. ASSUME NEW error \in CleanupErrors, AfterRemoval(armed \ {"remove"}, error),
             remover' \in {"confirmed", "failed", "abandoned"},
             container' \in {"none", "up", "gone", "late"},
             UNCHANGED <<now, clientVars, flagVars, streamVars, stopped>>
      PROVE  TypeOK'
  <2>1. /\ timedOut' \in BOOLEAN /\ outputTruncated' \in BOOLEAN
        /\ bytes' \in [Streams -> Nat] /\ recordedBytes' \in [Streams -> Nat]
    BY <1>7 DEF TypeOK
  <2>2. /\ cleanupError' \in CleanupErrors
        /\ cleanupDone' \in BOOLEAN
        /\ armed' \subseteq Timers
        /\ due' \in [Timers -> Nat]
        /\ outcome' \in {"pending", "resolved", "rejected"}
        /\ report' \in Records
    BY <1>7, <2>1, AfterRemovalType DEF TypeOK
  <2>3. QED
    BY <1>7, <2>2 DEF TypeOK
<1>8. CASE RemoveGraceExpires
  BY <1>7, <1>8 DEF RemoveGraceExpires, CleanupErrors, TypeOK
<1>9. CASE RemoverSucceeds
  BY <1>7, <1>9 DEF RemoverSucceeds, CleanupErrors, TypeOK
<1>10. CASE RemoverFails
  <2>1. PICK error \in {"failed", "exited nonzero"} : AfterRemoval(armed \ {"remove"}, error)
    BY <1>10 DEF RemoverFails
  <2>2. QED
    BY <1>7, <1>10, <2>1 DEF RemoverFails, CleanupErrors, TypeOK
<1>11. CASE StopGraceExpires
  <2>1. Finish("null") /\ "null" \in ExitCodes
    BY <1>11 DEF StopGraceExpires, ExitCodes
  <2>2. outcome' \in {"pending", "resolved", "rejected"} /\ report' \in Records
    BY <1>11, <2>1, FinishType DEF StopGraceExpires, TypeOK
  <2>3. QED
    BY <1>11, <2>2 DEF StopGraceExpires, TypeOK, AfterSettling
<1>12. CASE Tick
  BY <1>12, Times DEF Tick, TypeOK
<1>13. CASE ContainerStarts
  BY <1>13 DEF ContainerStarts, TypeOK
<1>14. CASE ContainerExits
  BY <1>14 DEF ContainerExits, TypeOK
<1>15. CASE UNCHANGED vars
  BY <1>15 DEF TypeOK
<1>16. QED
  BY <1>1, <1>2, <1>3, <1>4, <1>5, <1>6, <1>8, <1>9, <1>10, <1>11, <1>12, <1>13,
     <1>14, <1>15 DEF Next, Settled

-----------------------------------------------------------------------------
(***************************************************************************)
(* The inductive invariant.                                                *)
(***************************************************************************)

\* The fields of the record finish() resolves a pending run with.
LEMMA FinishReport ==
  ASSUME NEW code, Finish(code), outcome = "pending"
  PROVE  /\ outcome' = "resolved"
         /\ report'.exitCode = code
         /\ report'.timedOut = timedOut'
         /\ report'.outputTruncated = outputTruncated'
         /\ report'.cleanupError = cleanupError'
         /\ report'.bytes = bytes'
         /\ report'.storedBytes = [s \in Streams |-> StoredBytes(s, recordedBytes'[s])]
BY DEF Finish

\* The invariant holds before the client is spawned.
LEMMA InitInv == Init => IInv
<1> SUFFICES ASSUME Init PROVE IInv
  OBVIOUS
<1>1. TypeOK
  BY InitType
<1>2. /\ report.exitCode = "null" /\ report.cleanupError = "null"
      /\ report.timedOut = FALSE /\ report.outputTruncated = FALSE
  BY DEF Init
<1>3. StartInv /\ StopInv /\ SettleInv /\ TimerInv /\ ReportInv /\ ContainerInv
  BY <1>2 DEF Init, StartInv, StopInv, SettleInv, TimerInv, ReportInv, ContainerInv
<1>4. OutputInv
  <2>1. \A s \in Streams : limitBytes[s] \in Nat /\ recordedOutputBytes \in Nat
    BY BudgetAssumption
  <2>2. QED
    BY <2>1 DEF Init, OutputInv
<1>5. QED
  BY <1>1, <1>3, <1>4 DEF IInv

\* The answer of a removal in progress, however it arrives, preserves the invariant.
LEMMA AfterRemovalInv ==
  ASSUME IInv, TypeOK', NEW error \in CleanupErrors, AfterRemoval(armed \ {"remove"}, error),
         remover = "running", remover' \in {"confirmed", "failed", "abandoned"},
         error = "null" => remover' = "confirmed",
         remover' = "confirmed" => container' # "up",
         container' = container \/ container' = "gone",
         UNCHANGED <<now, clientVars, flagVars, streamVars, stopped>>
  PROVE  IInv'
<1> USE DEF clientVars, flagVars, streamVars
<1>1. stopped /\ ~cleanupDone /\ outcome = "pending" /\ child = "spawned" /\ "remove" \in armed
      /\ "stop" \notin armed
  BY DEF IInv, TypeOK, StartInv, StopInv, SettleInv
<1>2. cleanupError' = error /\ cleanupDone'
  BY DEF AfterRemoval
<1>3. now <= evaluationTimeoutMs + removeGraceMs /\ now \in Nat
  BY <1>1, Times DEF IInv, TypeOK, TimerInv
<1>4. CASE closed
  <2>1. Finish(closeExitCode) /\ armed' = armed \ {"remove", "budget", "stop"} /\ due' = due
    BY <1>1, <1>4 DEF AfterRemoval, AfterSettling
  <2>2. armed' = {}
    BY <2>1 DEF IInv, TypeOK, Timers
  <2>3. /\ outcome' = "resolved"
        /\ report'.exitCode = closeExitCode
        /\ report'.timedOut = timedOut'
        /\ report'.outputTruncated = outputTruncated'
        /\ report'.cleanupError = cleanupError'
        /\ report'.bytes = bytes'
    BY <1>1, <2>1, FinishReport
  <2>4. StartInv' /\ StopInv' /\ SettleInv' /\ TimerInv'
    BY <1>1, <1>2, <1>4, <2>2, <2>3 DEF IInv, StartInv, StopInv, SettleInv, TimerInv
  <2>5. ReportInv' /\ ContainerInv' /\ OutputInv'
    BY <1>1, <1>2, <1>4, <2>3 DEF IInv, StopInv, ReportInv, ContainerInv, OutputInv
  <2>6. QED
    BY <2>4, <2>5 DEF IInv
<1>5. CASE ~closed
  <2>1. /\ armed' = (armed \ {"remove"}) \cup {"stop"}
        /\ due' = [due EXCEPT !["stop"] = now + removeGraceMs]
        /\ outcome' = outcome /\ report' = report
    BY <1>5 DEF AfterRemoval, resultVars
  <2>2. StartInv' /\ StopInv' /\ SettleInv'
    BY <1>1, <1>2, <1>5, <2>1 DEF IInv, StartInv, StopInv, SettleInv
  <2>3. TimerInv'
    BY <1>1, <1>3, <2>1, Times DEF IInv, TypeOK, Timers, TimerInv
  <2>4. ReportInv' /\ ContainerInv' /\ OutputInv'
    BY <1>1, <1>2, <1>5, <2>1 DEF IInv, StopInv, ReportInv, ContainerInv, OutputInv
  <2>5. QED
    BY <2>2, <2>3, <2>4 DEF IInv
<1>6. QED
  BY <1>4, <1>5

\* A handler that raises a budget flag and calls stop() preserves the invariant.
LEMMA StopStepInv ==
  ASSUME IInv, TypeOK', OutputInv', NEW T, T \in {armed, armed \ {"budget"}}, Stop(T),
         timedOut' \/ outputTruncated',
         outcome = "pending" \/ stopped, child = "spawned", ~closed \/ stopped,
         now' = now, container' = container,
         child' = child, closed' = closed, closeExitCode' = closeExitCode
  PROVE  IInv'
<1>1. CASE stopped
  <2>1. armed' = T /\ UNCHANGED <<cleanupVars, due, resultVars>>
    BY <1>1 DEF Stop
  <2>2. StartInv' /\ StopInv' /\ SettleInv' /\ TimerInv'
    BY <1>1, <2>1 DEF IInv, StartInv, StopInv, SettleInv, TimerInv, cleanupVars, resultVars
  <2>3. ReportInv' /\ ContainerInv'
    BY <1>1, <2>1 DEF IInv, ReportInv, ContainerInv, cleanupVars, resultVars
  <2>4. QED
    BY <2>2, <2>3 DEF IInv
<1>2. CASE ~stopped
  <2>1. /\ outcome = "pending" /\ ~closed /\ ~cleanupDone /\ cleanupError = "null"
        /\ "budget" \in armed /\ "remove" \notin armed /\ "stop" \notin armed
        /\ remover # "running" /\ stopped'
    BY <1>2 DEF IInv, StopInv, SettleInv, Stop
  <2>2. now <= evaluationTimeoutMs /\ now \in Nat
    BY <2>1, Times DEF IInv, TypeOK, TimerInv
  <2>3. CASE remover' = "running"
    <3>1. /\ armed' = T \cup {"remove"}
          /\ due' = [due EXCEPT !["remove"] = now + removeGraceMs]
          /\ UNCHANGED <<cleanupDone, cleanupError, outcome, report>>
      BY <1>2, <2>3 DEF Stop, resultVars
    <3>2. StartInv' /\ StopInv' /\ SettleInv'
      BY <1>2, <2>1, <2>3, <3>1 DEF IInv, StartInv, StopInv, SettleInv
    <3>3. TimerInv'
      BY <2>1, <2>2, <3>1, Times DEF IInv, TypeOK, Timers, TimerInv
    <3>4. ReportInv' /\ ContainerInv'
      BY <1>2, <2>1, <2>3, <3>1 DEF IInv, ReportInv, ContainerInv
    <3>5. QED
      BY <3>2, <3>3, <3>4 DEF IInv
  <2>4. CASE remover' # "running"
    <3>1. PICK error \in {"stop failed", "could not start"} : AfterRemoval(T, error)
      BY <1>2, <2>4 DEF Stop
    <3>2. remover' = "none"
      BY <1>2, <2>4 DEF Stop
    <3>3. /\ armed' = T \cup {"stop"}
          /\ due' = [due EXCEPT !["stop"] = now + removeGraceMs]
          /\ outcome' = outcome /\ report' = report
          /\ cleanupError' = error /\ error # "null" /\ cleanupDone'
      BY <2>1, <3>1 DEF AfterRemoval, resultVars
    <3>4. StartInv' /\ StopInv' /\ SettleInv'
      BY <1>2, <2>1, <3>2, <3>3 DEF IInv, StartInv, StopInv, SettleInv
    <3>5. TimerInv'
      <4>1. armed' \subseteq {"budget", "stop"}
        BY <2>1, <3>3 DEF IInv, TypeOK, Timers
      <4>2. due'["stop"] = now + removeGraceMs /\ due'["budget"] = due["budget"]
        BY <3>3 DEF IInv, TypeOK, Timers
      <4>3. "budget" \in armed' => due["budget"] = evaluationTimeoutMs
        BY <2>1 DEF IInv, TimerInv
      <4>4. now <= now + removeGraceMs /\ now + removeGraceMs <= Deadline
        BY <2>2, GraceFits
      <4>5. /\ "stop" \in armed' => now' <= due'["stop"] /\ due'["stop"] <= Deadline
            /\ "budget" \in armed' => now' <= due'["budget"]
        BY <2>2, <4>2, <4>3, <4>4
      <4>6. QED
        BY <4>1, <4>2, <4>3, <4>5 DEF TimerInv
    <3>6. ReportInv' /\ ContainerInv'
      BY <1>2, <2>1, <3>2, <3>3 DEF IInv, ReportInv, ContainerInv
    <3>7. QED
      BY <3>4, <3>5, <3>6 DEF IInv
  <2>5. QED
    BY <2>3, <2>4
<1>3. QED
  BY <1>1, <1>2

\* Output keeps the invariant, whether it overflows the stream or not (lines 96-108).
LEMMA DataInv ==
  ASSUME IInv, TypeOK', NEW s \in Streams, NEW n \in ChunkSizes, Data(s, n)
  PROVE  IInv'
<1>1. n \in Nat /\ recordedOutputBytes \in Nat /\ limitBytes \in [Streams -> Nat]
  BY BudgetAssumption
<1>2. /\ bytes' = [bytes EXCEPT ![s] = @ + n]
      /\ bytes[s] \in Nat /\ recordedBytes[s] \in Nat
      /\ recordedBytes' = [recordedBytes EXCEPT ![s] = IF @ + n <= recordedOutputBytes
                                                      THEN @ + n ELSE recordedOutputBytes]
  BY DEF Data, IInv, TypeOK
<1>3. recordedBytes'[s] = IF bytes'[s] <= recordedOutputBytes
                          THEN bytes'[s] ELSE recordedOutputBytes
  BY <1>1, <1>2 DEF IInv, TypeOK, OutputInv
<1>4. \A r \in Streams : recordedBytes'[r] = IF bytes'[r] <= recordedOutputBytes
                                              THEN bytes'[r] ELSE recordedOutputBytes
  BY <1>2, <1>3 DEF IInv, TypeOK, OutputInv
<1>5. /\ child = "spawned" /\ ~closed /\ now' = now /\ container' = container
      /\ child' = child /\ closed' = closed /\ closeExitCode' = closeExitCode
  BY DEF Data, clientVars
<1>6. outcome = "pending" \/ stopped
  BY <1>5 DEF IInv, TypeOK, StartInv, SettleInv
<1>7. CASE bytes'[s] > limitBytes[s]
  <2>1. outputTruncated' = TRUE /\ Stop(armed)
    BY <1>7 DEF Data
  <2>2. OutputInv'
    BY <1>4, <1>7, <2>1 DEF OutputInv
  <2>3. QED
    BY <1>5, <1>6, <2>1, <2>2, StopStepInv
<1>8. CASE ~(bytes'[s] > limitBytes[s])
  <2>1. UNCHANGED <<flagVars, cleanupVars, timerVars, resultVars>>
    BY <1>8 DEF Data
  <2>2. outputTruncated => \E r \in Streams : bytes'[r] > limitBytes[r]
    <3>1. ASSUME NEW r \in Streams, bytes[r] > limitBytes[r]
          PROVE  bytes'[r] > limitBytes[r]
      BY <1>1, <1>2, <3>1 DEF IInv, TypeOK
    <3>2. QED
      BY <3>1 DEF IInv, OutputInv
  <2>3. (\E r \in Streams : bytes'[r] > limitBytes[r]) => outputTruncated
    BY <1>2, <1>8 DEF IInv, TypeOK, OutputInv
  <2>4. OutputInv'
    BY <1>4, <2>1, <2>2, <2>3 DEF OutputInv, flagVars
  <2>5. StartInv' /\ StopInv' /\ SettleInv' /\ TimerInv' /\ ReportInv' /\ ContainerInv'
    BY <1>5, <2>1 DEF IInv, StartInv, StopInv, SettleInv, TimerInv, ReportInv, ContainerInv,
       flagVars, cleanupVars, timerVars, resultVars, clientVars
  <2>6. QED
    BY <2>4, <2>5 DEF IInv
<1>9. QED
  BY <1>7, <1>8

\* So does the budget timer, on a running client and during a cleanup (lines 29-32).
LEMMA BudgetExpiresInv ==
  ASSUME IInv, TypeOK', BudgetExpires
  PROVE  IInv'
<1>1. "budget" \in armed /\ now >= due["budget"] /\ Stop(armed \ {"budget"}) /\ timedOut'
  BY DEF BudgetExpires, Fires
<1>2. now > 0
  BY <1>1, Times DEF IInv, TypeOK, TimerInv
<1>3. outcome = "pending" /\ child = "spawned"
  BY <1>1, <1>2, Times DEF IInv, TypeOK, StartInv, SettleInv
<1>4. ~closed \/ stopped
  BY <1>3 DEF IInv, SettleInv
<1>5. /\ OutputInv' /\ now' = now /\ container' = container
      /\ child' = child /\ closed' = closed /\ closeExitCode' = closeExitCode
  BY DEF BudgetExpires, IInv, OutputInv, streamVars, clientVars
<1>6. QED
  BY <1>1, <1>3, <1>4, <1>5, StopStepInv

\* So does the client's 'close', before, during and after the removal (lines 119-123).
LEMMA ChildCloseInv ==
  ASSUME IInv, TypeOK', NEW code \in ExitCodes, ChildClose(code)
  PROVE  IInv'
<1> USE DEF flagVars, cleanupVars, streamVars
<1>1. /\ child # "unspawned" /\ ~closed /\ closed' = TRUE /\ closeExitCode' = code
      /\ code = "zero" => container = "gone"
      /\ UNCHANGED <<now, due, child, flagVars, cleanupVars, streamVars, container>>
  BY DEF ChildClose
<1>2. ContainerInv' /\ OutputInv'
  BY <1>1 DEF IInv, ContainerInv, OutputInv
<1>3. CASE outcome # "pending" \/ (stopped /\ ~cleanupDone)
  <2>1. UNCHANGED <<outcome, report, armed>>
    BY <1>3 DEF ChildClose, Finish, AfterSettling, resultVars
  <2>2. StartInv' /\ StopInv' /\ SettleInv' /\ TimerInv'
    BY <1>1, <1>3, <2>1 DEF IInv, StartInv, StopInv, SettleInv, TimerInv, ChildClose
  <2>3. ReportInv'
    BY <1>1, <1>3, <2>1 DEF IInv, SettleInv, ReportInv
  <2>4. QED
    BY <1>2, <2>2, <2>3 DEF IInv
<1>4. CASE outcome = "pending" /\ (~stopped \/ cleanupDone)
  <2>1. Finish(code) /\ armed' = armed \ {"budget", "stop"}
    BY <1>4 DEF ChildClose, AfterSettling
  <2>2. armed' = {}
    BY <1>4, <2>1 DEF IInv, TypeOK, StopInv, Timers
  <2>3. /\ outcome' = "resolved"
        /\ report'.exitCode = code
        /\ report'.timedOut = timedOut'
        /\ report'.outputTruncated = outputTruncated'
        /\ report'.cleanupError = cleanupError'
        /\ report'.bytes = bytes'
    BY <1>4, <2>1, FinishReport
  <2>4. StartInv' /\ StopInv' /\ SettleInv' /\ TimerInv'
    BY <1>1, <1>4, <2>2, <2>3 DEF IInv, StartInv, StopInv, SettleInv, TimerInv
  <2>5. ReportInv'
    BY <1>1, <1>2, <1>4, <2>3 DEF IInv, StopInv, ReportInv, OutputInv
  <2>6. QED
    BY <1>2, <2>4, <2>5 DEF IInv
<1>5. QED
  BY <1>3, <1>4

\* So does the last grace: only a run whose removal is answered reaches it (lines 90-93).
LEMMA StopGraceExpiresInv ==
  ASSUME IInv, TypeOK', StopGraceExpires
  PROVE  IInv'
<1> USE DEF clientVars, flagVars, cleanupVars, streamVars
<1>1. "stop" \in armed /\ cleanupDone /\ stopped /\ outcome = "pending" /\ child # "unspawned"
      /\ remover # "running" /\ "remove" \notin armed
  BY DEF StopGraceExpires, Fires, IInv, TypeOK, StartInv, StopInv, SettleInv
<1>2. /\ Finish("null") /\ armed' = armed \ {"budget", "stop"}
      /\ UNCHANGED <<now, due, clientVars, flagVars, cleanupVars, streamVars, container>>
  BY <1>1 DEF StopGraceExpires, AfterSettling
<1>3. armed' = {}
  BY <1>1, <1>2 DEF IInv, TypeOK, Timers
<1>4. /\ outcome' = "resolved"
      /\ report'.exitCode = "null"
      /\ report'.timedOut = timedOut'
      /\ report'.outputTruncated = outputTruncated'
      /\ report'.cleanupError = cleanupError'
      /\ report'.bytes = bytes'
  BY <1>1, <1>2, FinishReport
<1>5. StartInv' /\ StopInv' /\ SettleInv' /\ TimerInv'
  BY <1>1, <1>2, <1>3, <1>4 DEF IInv, StartInv, StopInv, SettleInv, TimerInv
<1>6. ReportInv' /\ ContainerInv' /\ OutputInv'
  BY <1>1, <1>2, <1>4 DEF IInv, StopInv, ReportInv, ContainerInv, OutputInv
<1>7. QED
  BY <1>5, <1>6 DEF IInv

\* So does each of the three answers of removeContainer (lines 67-72).
LEMMA RemoverAnswersInv ==
  ASSUME IInv, TypeOK', RemoveGraceExpires \/ RemoverSucceeds \/ RemoverFails
  PROVE  IInv'
<1>1. remover = "running"
  BY DEF IInv, StopInv, RemoveGraceExpires, RemoverSucceeds, RemoverFails, Fires
<1>2. remover # "confirmed"
  BY <1>1
<1>3. CASE RemoveGraceExpires
  BY <1>1, <1>3, AfterRemovalInv DEF RemoveGraceExpires, CleanupErrors
<1>4. CASE RemoverSucceeds
  BY <1>1, <1>4, AfterRemovalInv DEF RemoverSucceeds, CleanupErrors
<1>5. CASE RemoverFails
  <2>1. PICK error \in {"failed", "exited nonzero"} : AfterRemoval(armed \ {"remove"}, error)
    BY <1>5 DEF RemoverFails
  <2>2. QED
    BY <1>1, <1>5, <2>1, AfterRemovalInv DEF RemoverFails, CleanupErrors
<1>6. QED
  BY <1>3, <1>4, <1>5

\* Every turn of the event loop keeps the invariant.
LEMMA NextInv ==
  ASSUME IInv, [Next]_vars
  PROVE  IInv'
<1> USE DEF timerVars, clientVars, flagVars, cleanupVars, streamVars, resultVars
<1>t. TypeOK'
  BY NextType DEF IInv
<1>1. CASE SpawnThrows
  <2>1. StartInv' /\ StopInv' /\ SettleInv'
    BY <1>1, Times DEF SpawnThrows, IInv, TypeOK, StartInv, StopInv, SettleInv
  <2>2. TimerInv'
    BY <1>1, Times DEF SpawnThrows, IInv, TypeOK, Timers, StartInv, SettleInv, TimerInv
  <2>3. ReportInv' /\ ContainerInv' /\ OutputInv'
    BY <1>1 DEF SpawnThrows, IInv, StartInv, SettleInv, ReportInv, ContainerInv, OutputInv
  <2>4. QED
    BY <1>t, <2>1, <2>2, <2>3 DEF IInv
<1>2. CASE Spawn
  <2>1. StartInv' /\ StopInv' /\ SettleInv'
    BY <1>2, Times DEF Spawn, IInv, TypeOK, StartInv, StopInv, SettleInv
  <2>2. TimerInv'
    BY <1>2, Times DEF Spawn, IInv, TypeOK, Timers, StartInv, SettleInv, TimerInv
  <2>3. ReportInv' /\ ContainerInv' /\ OutputInv'
    BY <1>2 DEF Spawn, IInv, StartInv, SettleInv, ReportInv, ContainerInv, OutputInv
  <2>4. QED
    BY <1>t, <2>1, <2>2, <2>3 DEF IInv
<1>3. CASE ChildError
  <2>0. ~stopped /\ "remove" \notin armed /\ armed' = {}
    BY <1>3 DEF ChildError, AfterSettling, IInv, TypeOK, Timers, StartInv, StopInv
  <2>1. StartInv' /\ StopInv' /\ SettleInv'
    BY <1>3, <2>0 DEF ChildError, IInv, StartInv, StopInv, SettleInv
  <2>2. TimerInv'
    BY <1>3, Times DEF ChildError, AfterSettling, IInv, TypeOK, Timers, StartInv, SettleInv, TimerInv
  <2>3. ReportInv' /\ ContainerInv' /\ OutputInv'
    BY <1>3 DEF ChildError, AfterSettling, IInv, StartInv, SettleInv, ReportInv, ContainerInv, OutputInv
  <2>4. QED
    BY <1>t, <2>1, <2>2, <2>3 DEF IInv
<1>4. CASE Tick
  <2>1. StartInv' /\ StopInv' /\ SettleInv'
    BY <1>4, Times DEF Tick, IInv, TypeOK, StartInv, StopInv, SettleInv
  <2>2. TimerInv'
    BY <1>4, Times DEF Tick, IInv, TypeOK, Timers, StartInv, SettleInv, TimerInv
  <2>3. ReportInv' /\ ContainerInv' /\ OutputInv'
    BY <1>4 DEF Tick, IInv, StartInv, SettleInv, ReportInv, ContainerInv, OutputInv
  <2>4. QED
    BY <1>t, <2>1, <2>2, <2>3 DEF IInv
<1>5. CASE ContainerStarts
  <2>1. StartInv' /\ StopInv' /\ SettleInv'
    BY <1>5, Times DEF ContainerStarts, IInv, TypeOK, StartInv, StopInv, SettleInv
  <2>2. TimerInv'
    BY <1>5, Times DEF ContainerStarts, IInv, TypeOK, Timers, StartInv, SettleInv, TimerInv
  <2>3. ReportInv' /\ ContainerInv' /\ OutputInv'
    BY <1>5 DEF ContainerStarts, IInv, StartInv, SettleInv, ReportInv, ContainerInv, OutputInv
  <2>4. QED
    BY <1>t, <2>1, <2>2, <2>3 DEF IInv
<1>6. CASE ContainerExits
  <2>1. StartInv' /\ StopInv' /\ SettleInv'
    BY <1>6, Times DEF ContainerExits, IInv, TypeOK, StartInv, StopInv, SettleInv
  <2>2. TimerInv'
    BY <1>6, Times DEF ContainerExits, IInv, TypeOK, Timers, StartInv, SettleInv, TimerInv
  <2>3. ReportInv' /\ ContainerInv' /\ OutputInv'
    BY <1>6 DEF ContainerExits, IInv, StartInv, SettleInv, ReportInv, ContainerInv, OutputInv
  <2>4. QED
    BY <1>t, <2>1, <2>2, <2>3 DEF IInv
<1>7. CASE UNCHANGED vars
  BY <1>t, <1>7 DEF IInv, StartInv, StopInv, SettleInv, TimerInv, ReportInv, ContainerInv,
     OutputInv, vars
<1>8. QED
  BY <1>t, <1>1, <1>2, <1>3, <1>4, <1>5, <1>6, <1>7, DataInv, ChildCloseInv, BudgetExpiresInv,
     RemoverAnswersInv, StopGraceExpiresInv DEF Next, Settled

\* A run settles in three ways only: it does not, it is rejected, or finish() is
\* called while it is pending.
LEMMA HowARunSettles ==
  ASSUME [Next]_vars
  PROVE  \/ UNCHANGED <<outcome, report>>
         \/ outcome = "pending" /\ outcome' = "rejected" /\ UNCHANGED <<now, report>>
         \/ outcome = "pending" /\ now' = now /\ \E code : Finish(code)
<1> USE DEF timerVars, clientVars, flagVars, cleanupVars, streamVars, resultVars
<1> DEFINE Step == \/ UNCHANGED <<outcome, report>>
                   \/ outcome = "pending" /\ \E code : Finish(code)
<1>1. ASSUME NEW code, Finish(code)
      PROVE  Step
  BY <1>1 DEF Finish
<1>2. ASSUME NEW T, NEW error, AfterRemoval(T, error)
      PROVE  Step
  BY <1>1, <1>2 DEF AfterRemoval
<1>3. ASSUME NEW T, Stop(T)
      PROVE  Step
  BY <1>2, <1>3 DEF Stop
<1>4. CASE SpawnThrows \/ ChildError
  BY <1>4 DEF SpawnThrows, ChildError
<1>5. CASE Spawn \/ Tick \/ ContainerStarts \/ ContainerExits \/ UNCHANGED vars
  BY <1>5 DEF Spawn, Tick, ContainerStarts, ContainerExits, vars
<1>6. ASSUME NEW s \in Streams, NEW n \in ChunkSizes, Data(s, n)
      PROVE  Step /\ now' = now
  BY <1>3, <1>6 DEF Data
<1>7. ASSUME NEW code \in ExitCodes, ChildClose(code)
      PROVE  Step /\ now' = now
  BY <1>1, <1>7 DEF ChildClose
<1>8. CASE BudgetExpires
  <2>1. Step /\ now' = now
    BY <1>3, <1>8 DEF BudgetExpires
  <2>2. QED
    BY <2>1
<1>9. CASE RemoveGraceExpires \/ RemoverSucceeds \/ RemoverFails
  <2>1. Step /\ now' = now
    BY <1>2, <1>9 DEF RemoveGraceExpires, RemoverSucceeds, RemoverFails
  <2>2. QED
    BY <2>1
<1>10. CASE StopGraceExpires
  <2>1. Step /\ now' = now
    BY <1>1, <1>10 DEF StopGraceExpires
  <2>2. QED
    BY <2>1
<1>11. QED
  BY <1>4, <1>5, <1>6, <1>7, <1>8, <1>9, <1>10 DEF Next, Settled

-----------------------------------------------------------------------------
(***************************************************************************)
(* The theorems.                                                           *)
(***************************************************************************)

\* The variables of the runner keep their types.
THEOREM TypeCorrect == Spec => []TypeOK
<1>1. Init => TypeOK
  BY InitType
<1>2. TypeOK /\ [Next]_vars => TypeOK'
  BY NextType
<1>3. QED
  BY <1>1, <1>2, PTL DEF Spec, SafetySpec

\* The invariant that relates the flags, the removal, the timers and the record
\* holds whatever Docker does.
THEOREM Invariant == SafetySpec => []IInv
<1>1. Init => IInv
  BY InitInv
<1>2. IInv /\ [Next]_vars => IInv'
  BY NextInv
<1>3. QED
  BY <1>1, <1>2, PTL DEF SafetySpec

\* A record of a stopped run is taken after the removal has answered, and reports
\* that answer (lines 84-94 and 119-123 of src/v03-runner.mjs).
THEOREM RecordsWaitForRemoval == Spec => []RecordWaitsForRemoval
<1>1. IInv => RecordWaitsForRemoval
  BY DEF IInv, StopInv, SettleInv, ReportInv, RecordWaitsForRemoval
<1>2. QED
  BY <1>1, Invariant, PTL DEF Spec

\* A run that counts as evidence leaves no container that existed when its removal
\* was asked for.
THEOREM EvidenceIsClean == Spec => []EvidenceLeavesNoContainer
<1>1. IInv => EvidenceLeavesNoContainer
  BY DEF IInv, StopInv, SettleInv, ReportInv, ContainerInv, EvidenceLeavesNoContainer
<1>2. QED
  BY <1>1, Invariant, PTL DEF Spec

\* The host never stops a run that it reports without a budget flag.
THEOREM UnflaggedRunsAreUntouched == Spec => []UnflaggedRunIsUntouched
<1>1. IInv => UnflaggedRunIsUntouched
  BY DEF IInv, SettleInv, ReportInv, UnflaggedRunIsUntouched
<1>2. QED
  BY <1>1, Invariant, PTL DEF Spec

\* The truncation flag of a record agrees with the byte counts beside it.
THEOREM TruncationAgrees == Spec => []TruncationMatchesBytes
<1>1. IInv => TruncationMatchesBytes
  BY DEF IInv, ReportInv, TruncationMatchesBytes
<1>2. QED
  BY <1>1, Invariant, PTL DEF Spec

\* The record cap holds of output made of one-byte characters.
THEOREM AsciiRecordsFitTheCap ==
  ASSUME \A s \in Streams : charWidth[s] = 1
  PROVE  Spec => []RecordFitsCap
<1>1. Init => RecordFitsCap
  BY DEF Init, RecordFitsCap
<1>2. IInv /\ RecordFitsCap /\ [Next]_vars => RecordFitsCap'
  <2> SUFFICES ASSUME IInv, RecordFitsCap, [Next]_vars
               PROVE  RecordFitsCap'
    OBVIOUS
  <2>1. CASE UNCHANGED <<outcome, report>>
    BY <2>1 DEF RecordFitsCap
  <2>2. CASE outcome' = "rejected"
    BY <2>2 DEF RecordFitsCap
  <2>3. ASSUME NEW code, outcome = "pending", Finish(code)
        PROVE  RecordFitsCap'
    <3>1. IInv'
      BY NextInv
    <3>2. ASSUME NEW s \in Streams
          PROVE  /\ report'.bytes[s] = bytes'[s]
                 /\ report'.storedBytes[s] = recordedBytes'[s]
                 /\ bytes'[s] \in Nat
      BY <2>3, <3>1, FinishReport, AsciiIsStoredVerbatim DEF IInv, TypeOK
    <3>3. recordedOutputBytes \in Nat
      BY BudgetAssumption
    <3>4. QED
      BY <3>1, <3>2, <3>3 DEF IInv, OutputInv, RecordFitsCap
  <2>4. QED
    BY <2>1, <2>2, <2>3, HowARunSettles
<1>3. QED
  BY <1>1, <1>2, Invariant, PTL DEF Spec, SafetySpec

\* The runner implements the safety part of the run contract: one outcome, no
\* later than the budget and two graces.
THEOREM ImplementsSafety == Spec => Contract!SafetySpec
<1>1. Init => Contract!Init
  BY DEF Init, Contract!Init
<1>2. IInv /\ [Next]_vars => [Contract!Next]_(Contract!vars)
  <2> SUFFICES ASSUME IInv, [Next]_vars
               PROVE  [Contract!Next]_(Contract!vars)
    OBVIOUS
  <2>1. IInv'
    BY NextInv
  <2>2. CASE outcome = "pending" /\ outcome' = "rejected" /\ UNCHANGED <<now, report>>
    BY <2>2 DEF Contract!Next, Contract!Reject
  <2>3. ASSUME NEW code, outcome = "pending", now' = now, Finish(code)
        PROVE  Contract!Resolve
    <3>1. outcome' = "resolved"
      BY <2>3, FinishReport
    <3>2. (report'.timedOut \/ report'.outputTruncated) \/ report'.cleanupError = "null"
      BY <2>1, <3>1 DEF IInv, StopInv, ReportInv
    <3>3. QED
      BY <2>3, <3>1, <3>2 DEF Contract!Resolve
  <2>4. CASE UNCHANGED <<outcome, report>> /\ ~Tick
    <3>1. now' = now
      BY <2>4 DEF Next, Settled, vars, SpawnThrows, Spawn, ChildError, Data, ChildClose,
         BudgetExpires, RemoveGraceExpires, RemoverSucceeds, RemoverFails, StopGraceExpires,
         ContainerStarts, ContainerExits
    <3>2. QED
      BY <2>4, <3>1 DEF Contract!vars
  <2>5. CASE Tick
    <3>1. now < Horizon /\ now' = now + 1 /\ UNCHANGED <<outcome, report>>
      BY <2>5 DEF Tick, resultVars
    <3>2. ASSUME outcome = "pending" PROVE now < Deadline
      <4>1. PICK t \in armed : due[t] <= Deadline /\ t \in Timers
        BY <2>5, <3>2, Times DEF Tick, IInv, TypeOK, Timers, StopInv, SettleInv, TimerInv
      <4>2. now < due[t] /\ now \in Nat /\ due[t] \in Nat
        BY <2>5, <4>1 DEF Tick, IInv, TypeOK
      <4>3. QED
        BY <4>1, <4>2, Times
    <3>3. QED
      BY <3>1, <3>2 DEF Contract!Next, Contract!Tick
  <2>6. QED
    BY <2>2, <2>3, <2>4, <2>5, HowARunSettles DEF Contract!Next
<1>3. QED
  BY <1>1, <1>2, Invariant, PTL DEF Spec, SafetySpec, Contract!SafetySpec

-----------------------------------------------------------------------------
(***************************************************************************)
(* The invariant.  The host looks at the exit code the client reported and *)
(* at a file; that both come from the same finished evaluation takes a     *)
(* relation between the client, the container and the process, and one     *)
(* between the process and the directory, at every moment.                 *)
(***************************************************************************)

Contents == {"absent", "partial", "wrong-digest"} \cup Evaluations

\* What the directory holds at each step of the evaluator.
DirectoryInv ==
  /\ files \in [Names -> Contents]
  /\ step \in {"evaluating", "evaluated", "created", "filled", "done"}
  /\ step # "evaluating" => evaluation \in Evaluations
  /\ step # "done" => files["result.json"] = "absent"
  /\ step \in {"created", "filled"} => WritesTrustedResult
  /\ step = "filled" =>
       files["result.json.tmp"] = IF mode = "wrong-digest" THEN "wrong-digest" ELSE evaluation
  /\ step = "done" =>
       \/ mode = "malformed" /\ files["result.json"] = "partial"
       \/ mode = "wrong-digest" /\ files["result.json"] = "wrong-digest"
       \/ /\ mode \in {"main", "timeout", "log-overflow"}
          /\ files["result.json"] = evaluation

\* A process that has exited has no container, and exited 0 where its code could.
ExitInv ==
  /\ exitStatus # "none" => container = "gone"
  /\ exitStatus = "zero" => ExitsZero
  /\ closed /\ closeExitCode = "zero" => exitStatus = "zero"

\* The host reads after the run was resolved, and concludes from its record.
HostInv ==
  /\ host \in {"listed", "accepted", "classified"} => outcome = "resolved"
  /\ verdict # "none" => host = "classified"
  /\ verdict \in Evaluations =>
       /\ report.exitCode = "zero" /\ ~report.timedOut /\ ~report.outputTruncated
       /\ step = "done" /\ mode = "main" /\ verdict = evaluation

CInv == IInv /\ DirectoryInv /\ ExitInv /\ HostInv

LEMMA CaseInitInv == CaseInit => CInv
<1> SUFFICES ASSUME CaseInit PROVE CInv
  OBVIOUS
<1>1. IInv
  BY InitInv DEF CaseInit
<1>2. DirectoryInv
  BY DEF CaseInit, DirectoryInv, Contents, Names
<1>3. ExitInv
  BY DEF CaseInit, Init, ExitInv
<1>4. HostInv
  BY DEF CaseInit, HostInv, Evaluations
<1>5. QED
  BY <1>1, <1>2, <1>3, <1>4 DEF CInv

\* The record of a resolved run is final.
LEMMA RecordIsFinal ==
  ASSUME [Next]_vars, outcome = "resolved"
  PROVE  UNCHANGED <<outcome, report>>
BY HowARunSettles

\* A resolved and unflagged run with exit code 0 is that of a process that exited 0.
LEMMA ExitCodeIsTheProcess ==
  ASSUME CInv, outcome = "resolved", ~report.timedOut, ~report.outputTruncated
  PROVE  /\ report.cleanupError = "null"
         /\ report.exitCode = "zero" => exitStatus = "zero"
BY DEF CInv, IInv, StopInv, SettleInv, ReportInv, ExitInv

\* The steps of the evaluator up to its exit.
LEMMA EvaluatorKeeps ==
  ASSUME CInv, Evaluate \/ CreateTemporary \/ FillTemporary \/ Rename \/ WriteMalformed
  PROVE  CInv'
<1>1. /\ Running /\ step # "done" /\ UNCHANGED <<vars, mode, exitStatus, hostVars>>
  BY DEF Evaluate, CreateTemporary, FillTemporary, Rename, WriteMalformed, EvaluatorStep
<1>2. IInv'
  BY <1>1, NextInv DEF CInv
<1>3. exitStatus = "none" /\ ExitInv'
  <2>1. exitStatus = "none"
    BY <1>1 DEF Running, CInv, ExitInv
  <2>2. QED
    BY <1>1, <2>1 DEF CInv, ExitInv, vars, clientVars
<1>4. HostInv'
  <2>1. verdict \notin Evaluations
    BY <1>1 DEF CInv, HostInv
  <2>2. QED
    BY <1>1, <2>1 DEF CInv, HostInv, hostVars, vars, resultVars
<1>5. DirectoryInv'
  <2>1. CASE Evaluate
    BY <2>1 DEF Evaluate, EvaluatorStep, CInv, DirectoryInv
  <2>2. CASE CreateTemporary
    BY <2>2 DEF CreateTemporary, EvaluatorStep, CInv, DirectoryInv, Contents, Names,
                WritesTrustedResult
  <2>3. CASE FillTemporary
    BY <2>3 DEF FillTemporary, EvaluatorStep, CInv, DirectoryInv, Contents, Names,
                WritesTrustedResult
  <2>4. CASE Rename
    BY <2>4 DEF Rename, EvaluatorStep, CInv, DirectoryInv, Contents, Names,
                WritesTrustedResult
  <2>5. CASE WriteMalformed
    BY <2>5 DEF WriteMalformed, EvaluatorStep, CInv, DirectoryInv, Contents, Names
  <2>6. QED
    BY <2>1, <2>2, <2>3, <2>4, <2>5
<1>6. QED
  BY <1>2, <1>3, <1>4, <1>5 DEF CInv

\* A step of the runner or of Docker leaves the directory and the host alone.
LEMMA RunnerKeeps ==
  ASSUME CInv, RunnerStep
  PROVE  CInv'
<1>1. Next /\ UNCHANGED <<mode, evaluatorVars, hostVars>>
  BY DEF RunnerStep, Next
<1>2. IInv'
  BY <1>1, NextInv DEF CInv
<1>3. DirectoryInv'
  BY <1>1 DEF CInv, DirectoryInv, evaluatorVars, WritesTrustedResult
<1>4. HostInv'
  BY <1>1, RecordIsFinal DEF CInv, HostInv, Evaluations, hostVars, evaluatorVars
<1>5. container = "gone" => container' = "gone"
  BY DEF RunnerStep, SpawnThrows, Spawn, ChildError, Data, ChildClose, BudgetExpires,
         RemoveGraceExpires, RemoverSucceeds, RemoverFails, StopGraceExpires, Tick,
         ContainerStarts
<1>6. closed' /\ closeExitCode' = "zero" => exitStatus = "zero"
  <2>1. ASSUME NEW code \in ExitCodes, ChildClose(code), code = "zero" => exitStatus = "zero"
        PROVE  closed' /\ closeExitCode' = "zero" => exitStatus = "zero"
    BY <2>1 DEF ChildClose
  <2>2. CASE UNCHANGED <<closed, closeExitCode>>
    BY <2>2 DEF CInv, ExitInv
  <2>3. QED
    BY <2>1, <2>2 DEF RunnerStep, SpawnThrows, Spawn, ChildError, Data, BudgetExpires,
         RemoveGraceExpires, RemoverSucceeds, RemoverFails, StopGraceExpires, Tick,
         ContainerStarts, clientVars
<1>7. ExitInv'
  BY <1>1, <1>5, <1>6 DEF CInv, ExitInv, evaluatorVars, ExitsZero
<1>8. QED
  BY <1>2, <1>3, <1>4, <1>7 DEF CInv

\* The exit of the process ends its container.
LEMMA ExitKeeps ==
  ASSUME CInv, EvaluatorExits
  PROVE  CInv'
<1>1. /\ ContainerExits /\ UNCHANGED <<mode, step, evaluation, files, hostVars>>
      /\ exitStatus' = "zero" => ExitsZero
  BY DEF EvaluatorExits
<1>2. IInv'
  BY <1>1, NextInv DEF CInv, Next
<1>3. DirectoryInv'
  BY <1>1 DEF CInv, DirectoryInv, WritesTrustedResult
<1>4. HostInv'
  BY <1>1 DEF CInv, HostInv, hostVars, ContainerExits, resultVars
<1>5. ExitInv'
  <2>1. container \in {"up", "late"} /\ container' = "gone"
    BY <1>1 DEF ContainerExits
  <2>2. ~(closed' /\ closeExitCode' = "zero")
    BY <1>1, <2>1 DEF ContainerExits, clientVars, CInv, ExitInv, IInv, ContainerInv
  <2>3. QED
    BY <1>1, <2>1, <2>2 DEF ExitInv, ExitsZero
<1>6. QED
  BY <1>2, <1>3, <1>4, <1>5 DEF CInv

\* A verdict is only taken from a finished result of the production evaluator.
LEMMA ClassificationIsTrusted ==
  ASSUME CInv, outcome = "resolved",
         NEW bytesRead, bytesRead \in {"null", files["result.json"]},
         Classification(bytesRead) \in Evaluations
  PROVE  /\ report.exitCode = "zero" /\ ~report.timedOut /\ ~report.outputTruncated
         /\ step = "done" /\ mode = "main" /\ Classification(bytesRead) = evaluation
<1>1. /\ ~report.timedOut /\ ~report.outputTruncated /\ report.exitCode = "zero"
      /\ bytesRead \in Evaluations /\ Classification(bytesRead) = bytesRead
  BY DEF Classification, Evaluations, ValidateTrustedResult
<1>2. bytesRead = files["result.json"]
  BY <1>1 DEF Evaluations
<1>3. step = "done" /\ mode \in {"main", "timeout", "log-overflow"} /\ bytesRead = evaluation
  BY <1>1, <1>2 DEF CInv, DirectoryInv, Evaluations
<1>4. ExitsZero
  BY <1>1, ExitCodeIsTheProcess DEF CInv, ExitInv
<1>5. mode = "main"
  BY <1>3, <1>4 DEF ExitsZero
<1>6. QED
  BY <1>1, <1>3, <1>5

\* The host's reads.
LEMMA HostKeeps ==
  ASSUME CInv, RunRejected \/ ListResults \/ StatResults \/ ReadResult \/ UNCHANGED allVars
  PROVE  CInv'
<1>1. UNCHANGED <<vars, mode, evaluatorVars>>
  BY DEF RunRejected, ListResults, StatResults, ReadResult, HostStep, allVars
<1>2. IInv'
  BY <1>1, NextInv DEF CInv
<1>3. DirectoryInv' /\ ExitInv'
  BY <1>1 DEF CInv, DirectoryInv, WritesTrustedResult, ExitInv, ExitsZero, evaluatorVars, vars,
              clientVars
<1>4. HostInv'
  <2>1. ASSUME NEW bytesRead, bytesRead \in {"null", files["result.json"]},
               outcome = "resolved", Classify(bytesRead)
        PROVE  HostInv'
    BY <1>1, <2>1, ClassificationIsTrusted DEF Classify, HostInv, evaluatorVars, vars, resultVars
  <2>2. CASE ~(\E bytesRead \in {"null", files["result.json"]} :
                 outcome = "resolved" /\ Classify(bytesRead))
    <3>1. verdict' = verdict
      BY <2>2 DEF RunRejected, ListResults, StatResults, ReadResult, HostStep, CInv, HostInv,
                  allVars, hostVars
    <3>2. verdict # "none" => host' = host
      BY DEF RunRejected, ListResults, StatResults, ReadResult, HostStep, CInv, HostInv,
             allVars, hostVars
    <3>3. host' \in {"listed", "accepted", "classified"} => outcome = "resolved"
      BY DEF RunRejected, ListResults, StatResults, ReadResult, HostStep, CInv, HostInv,
             allVars, hostVars
    <3>4. QED
      BY <1>1, <3>1, <3>2, <3>3 DEF CInv, HostInv, evaluatorVars, vars, resultVars
  <2>3. QED
    BY <2>1, <2>2
<1>5. QED
  BY <1>2, <1>3, <1>4 DEF CInv

-----------------------------------------------------------------------------
\* The runner, the evaluator, the directory and the host keep these relations in every
\* reachable state of a case.
THEOREM CaseInvariant == CaseSpec => []CInv
<1>1. CaseInit => CInv
  BY CaseInitInv
<1>2. CInv /\ [CaseNext]_allVars => CInv'
  BY EvaluatorKeeps, RunnerKeeps, ExitKeeps, HostKeeps DEF CaseNext, CaseOver
<1>3. QED
  BY <1>1, <1>2, PTL DEF CaseSpec, CaseSafetySpec

\* A verdict about the product is what main.mjs computed, of a process that exited 0 by
\* itself and whose run was neither stopped nor left with a cleanup error
\* (classifyTrustedResult and readTrustedResultChannel of src/v03-trust.mjs).
THEOREM VerdictsAreTrusted == CaseSpec => []VerdictIsTheEvaluation
<1>1. CInv => VerdictIsTheEvaluation
  BY ExitCodeIsTheProcess DEF CInv, HostInv, ExitInv, Evaluations, VerdictIsTheEvaluation
<1>2. QED
  BY <1>1, CaseInvariant, PTL
=============================================================================
