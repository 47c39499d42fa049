-------------------------- MODULE ScenarioBatchProofs --------------------------
(***************************************************************************)
(* Proofs about ScenarioBatch for any number of attempts, any length of    *)
(* the log and any number of violations the oracle can tell apart: what a  *)
(* verdict of an attempt and a reported batch rest on.                     *)
(***************************************************************************)
EXTENDS ScenarioBatch, SequenceTheorems, FiniteSetTheorems, TLAPS

-----------------------------------------------------------------------------
(***************************************************************************)
(* The invariant.  The host decides from the log and the exit code of the  *)
(* client, the properties speak of the oracle in the container.  Between   *)
(* them: what a marker says of the scenario (LogInv), which a full log     *)
(* must not turn into something else, and which exit code the client can   *)
(* have taken over from which end of the container (HostInv).  A late      *)
(* container of a client that was stopped may go on after its attempt was  *)
(* recorded (RunInv), and runs without a verdict only.                     *)
(***************************************************************************)

Entries == {"noise", "P1", "P2", "P3", "P4", "CONTROL_FAILURE"} \cup Signatures
Verdicts == {"running", "unrunnable", "pass", "candidate-failure"}
Seen == Signatures \cup {"none"}
Evidences ==
  [outcome : Verdicts, signature : Seen, observed : Seen, undisturbed : BOOLEAN,
   cut : BOOLEAN]

ScenarioType ==
  /\ body \in {"none", "control", "act", "assert", "over"}
  /\ control \in {"none", "passed", "failed"}
  /\ oracle \in {"none", "satisfied", "violated", "threw"}
  /\ observed \in Seen
  /\ test \in {"none", "running", "passed", "failed", "timed out"}
  /\ container \in {"none", "up", "gone"}
  /\ exitCode \in {"none", "zero", "one", "137", "125", "signal"}
LogType == log \in Seq(Entries) /\ lost \in BOOLEAN
HostType ==
  /\ client \in {"running", "closed", "failed"}
  /\ timedOut \in BOOLEAN
  /\ cleanup \in {"none", "running", "removed", "failed"}
  /\ run.outcome \in Verdicts /\ run.signature \in Seen
BatchType ==
  /\ evidences \in Seq(Evidences) /\ Len(evidences) <= attempts
  /\ digest \in {"none", "listed", "excluded", "failed"}

TypeOK == ScenarioType /\ LogType /\ HostType /\ BatchType

\* How far the test function, its control and its oracle can have come.
ScenarioInv ==
  /\ container = "none" => test = "none"
  /\ test = "none" => body = "none"
  /\ body \in {"none", "control"} => control = "none"
  /\ body \in {"act", "assert"} => control = "passed"
  /\ body = "over" => test # "running"
  /\ oracle # "none" => body = "over" /\ control = "passed"
  /\ oracle = "violated" <=> observed \in Signatures
  /\ test = "passed" => oracle = "satisfied"

\* At most one entry of the log is a violation.
OneViolation ==
  \A m, n \in 1..Len(log) : log[m] \in Signatures /\ log[n] \in Signatures => m = n

\* What a marker in the log says of the scenario, however much of the log was lost, and
\* what the log of an attempt holds of which nothing was lost.
LogInv ==
  /\ Logged("CONTROL_FAILURE") => control = "failed"
  /\ \A signature \in Signatures :
       Logged(signature) => oracle = "violated" /\ observed = signature
  /\ OneViolation
  /\ ~lost /\ ~timedOut =>
       /\ container # "none" => Logged("P1")
       /\ body # "none" => Logged("P2")
       /\ body = "assert" \/ oracle # "none" => Logged("P4")
       /\ \A signature \in Signatures : observed = signature => Logged(signature)

\* Which end of the container an exit code stands for, and whose container can be up.
HostInv ==
  /\ container = "up" => client = "running" \/ timedOut
  /\ exitCode \in {"zero", "one", "137"} => container = "gone"
  /\ exitCode = "zero" => test = "passed"
  /\ exitCode = "signal" => timedOut /\ client = "closed"
  /\ exitCode = "125" => container = "none" /\ client = "closed"
  /\ client = "closed" => container = "gone" \/ exitCode \in {"125", "signal"}
  /\ client = "failed" => container = "none" /\ exitCode = "none"
  /\ client = "running" => run = Running

Undisturbed == ~lost /\ ~timedOut /\ exitCode # "137"

\* A verdict is of a scenario that is over, and an undisturbed violation has one.
RunInv ==
  /\ run.outcome \in {"pass", "candidate-failure"} => container = "gone"
  /\ run.outcome = "candidate-failure" => run.signature \in Signatures
  /\ VerdictIsTheOracles
  /\ run # Running /\ Undisturbed /\ observed \in Signatures =>
       run.outcome = "candidate-failure"

AttemptInv == ScenarioInv /\ LogInv /\ HostInv /\ RunInv

\* What a record says of its attempt: a violation nothing disturbed is missing only from
\* evidence that was cut.
Sound(evidence) ==
  /\ evidence.outcome = "candidate-failure" =>
       evidence.observed \in Signatures /\ evidence.signature = evidence.observed
  /\ evidence.observed \in Signatures /\ evidence.undisturbed =>
       \/ evidence.outcome = "candidate-failure"
       \/ evidence.outcome = "unrunnable" /\ evidence.cut

\* The aggregate is that of all attempts, and the digest that of the aggregate.
BatchInv ==
  /\ \A n \in 1..Len(evidences) : Sound(evidences[n])
  /\ IF Len(evidences) = attempts
     THEN aggregate = Aggregate(evidences)
     ELSE aggregate.outcome = "none" /\ ~aggregate.reportable /\ digest = "none"
  /\ digest = "listed" => aggregate.reportable
  /\ digest = "excluded" => ~aggregate.reportable

SInv == TypeOK /\ AttemptInv /\ BatchInv

-----------------------------------------------------------------------------
(***************************************************************************)
(* The log.                                                                *)
(***************************************************************************)

\* A violation is none of the markers.
LEMMA ViolationsAreNotMarkers ==
  \A signature \in Signatures :
    signature \notin {"none", "noise", "P1", "P2", "P3", "P4", "CONTROL_FAILURE"}
BY BatchAssumption

\* A longer sequence has its entries and the new one.
LEMMA Appended ==
  ASSUME NEW s \in Seq(Entries), NEW e \in Entries
  PROVE  /\ Append(s, e) \in Seq(Entries)
         /\ Len(s) \in Nat /\ Len(Append(s, e)) = Len(s) + 1
         /\ \A n \in 1..Len(s) : Append(s, e)[n] = s[n]
         /\ Append(s, e)[Len(s) + 1] = e
BY AppendProperties, LenProperties

\* What is printed adds at most its own entry to the log, and nothing else is missing
\* than what is lost; a second violation is not printed.
LEMMA LogGrows ==
  ASSUME TypeOK, NEW entry \in Entries, AppendLog(entry)
  PROVE  /\ log' \in Seq(Entries) /\ lost' \in BOOLEAN
         /\ lost => lost'
         /\ \A e : Logged(e) => Logged(e)'
         /\ \A e : e # entry /\ Logged(e)' => Logged(e)
         /\ client = "running" /\ ~lost' => Logged(entry)'
         /\ OneViolation /\ (entry \in Signatures => \A s \in Signatures : ~Logged(s))
              => OneViolation'
<1>0. log \in Seq(Entries) /\ lost \in BOOLEAN /\ Len(log) \in Nat /\ MaxLogLength \in Nat
  BY BatchAssumption, LenProperties DEF TypeOK, LogType
<1>1. CASE UNCHANGED <<log, lost>> /\ ~(client = "running" /\ ~lost')
  BY <1>0, <1>1 DEF Logged, OneViolation
<1>2. CASE log' = Append(log, entry) /\ lost' = lost
  <2>1. /\ log' \in Seq(Entries) /\ Len(log') = Len(log) + 1
        /\ \A n \in 1..Len(log) : log'[n] = log[n]
        /\ log'[Len(log) + 1] = entry
    BY <1>0, <1>2, Appended
  <2>2. \A e : Logged(e) => Logged(e)'
    BY <1>0, <2>1 DEF Logged
  <2>3. ASSUME NEW e, e # entry, Logged(e)' PROVE Logged(e)
    <3>1. PICK n \in 1..Len(log') : log'[n] = e
      BY <2>3 DEF Logged
    <3>2. n \in 1..Len(log)
      BY <1>0, <2>1, <2>3, <3>1
    <3>3. QED
      BY <2>1, <3>1, <3>2 DEF Logged
  <2>4. Logged(entry)'
    <3>1. Len(log) + 1 \in 1..Len(log')
      BY <1>0, <2>1
    <3>2. QED
      BY <2>1, <3>1 DEF Logged
  <2>5. ASSUME OneViolation, entry \in Signatures => \A s \in Signatures : ~Logged(s),
               NEW m \in 1..Len(log'), NEW n \in 1..Len(log'),
               log'[m] \in Signatures, log'[n] \in Signatures
        PROVE  m = n
    <3>1. CASE entry \in Signatures
      <4>1. \A k \in 1..Len(log) : log[k] \notin Signatures
        BY <2>5, <3>1 DEF Logged
      <4>2. m \notin 1..Len(log) /\ n \notin 1..Len(log)
        BY <2>1, <2>5, <4>1
      <4>3. QED
        BY <1>0, <2>1, <4>2
    <3>2. CASE entry \notin Signatures
      <4>1. m \in 1..Len(log) /\ n \in 1..Len(log)
        BY <1>0, <2>1, <2>5, <3>2
      <4>2. QED
        BY <2>1, <2>5, <4>1 DEF OneViolation
    <3>3. QED
      BY <3>1, <3>2
  <2>6. QED
    BY <1>0, <1>2, <2>1, <2>2, <2>3, <2>4, <2>5 DEF OneViolation
<1>3. CASE log' = log /\ lost' = TRUE
  BY <1>0, <1>3 DEF Logged, OneViolation
<1>4. CASE client # "running"
  BY <1>1, <1>4 DEF AppendLog
<1>5. CASE client = "running" /\ Len(log) < MaxLogLength
  <2>1. log' = Append(log, entry) /\ lost' = lost
    BY <1>0, <1>5 DEF AppendLog
  <2>2. QED
    BY <1>2, <2>1
<1>6. CASE client = "running" /\ ~(Len(log) < MaxLogLength)
  <2>1. Len(log) >= MaxLogLength
    BY <1>0, <1>6
  <2>2. lost' = (lost \/ Len(log) >= MaxLogLength) /\ log' = log
    BY <1>6 DEF AppendLog
  <2>3. lost' = TRUE
    BY <2>1, <2>2
  <2>4. QED
    BY <1>3, <2>2, <2>3
<1>7. QED
  BY <1>4, <1>5, <1>6

\* What cannot change while the log stays as it is.
LEMMA LogStays ==
  ASSUME UNCHANGED log
  PROVE  /\ \A e : Logged(e)' <=> Logged(e)
         /\ OneViolation' <=> OneViolation
BY DEF Logged, OneViolation
-----------------------------------------------------------------------------
(***************************************************************************)
(* The steps of the container.  No attempt whose container is there has a  *)
(* verdict, so that what the scenario does cannot contradict one.          *)
(***************************************************************************)

\* A run without a verdict, because it is not classified yet, because there was no
\* violation, or because it was stopped.
LEMMA NoVerdict ==
  ASSUME run'.outcome \notin {"pass", "candidate-failure"},
         run' = Running \/ observed' \notin Signatures \/ timedOut'
  PROVE  RunInv'
BY DEF RunInv, VerdictIsTheOracles, Undisturbed

\* While its container is up, an attempt has no verdict.
LEMMA NoVerdictWhileUp ==
  ASSUME AttemptInv, container = "up", UNCHANGED <<run, timedOut>>
  PROVE  RunInv'
<1>1. run.outcome \notin {"pass", "candidate-failure"}
  BY DEF AttemptInv, RunInv
<1>2. run = Running \/ timedOut
  BY DEF AttemptInv, HostInv
<1>3. QED
  BY <1>1, <1>2, NoVerdict

\* What stays as it is keeps its type.
LEMMA OthersStay ==
  /\ UNCHANGED <<scenarioVars, container, exitCode>> => (ScenarioType' <=> ScenarioType)
  /\ UNCHANGED <<log, lost>> => (LogType' <=> LogType)
  /\ UNCHANGED hostVars => (HostType' <=> HostType)
  /\ UNCHANGED batchVars => (BatchType' <=> BatchType)
<1>1. UNCHANGED <<scenarioVars, container, exitCode>> => (ScenarioType' <=> ScenarioType)
  BY DEF ScenarioType, scenarioVars
<1>2. UNCHANGED <<log, lost>> => (LogType' <=> LogType)
  BY DEF LogType
<1>3. UNCHANGED hostVars => (HostType' <=> HostType)
  BY DEF HostType, hostVars
<1>4. UNCHANGED batchVars => (BatchType' <=> BatchType)
  BY DEF BatchType, batchVars
<1>5. QED
  BY <1>1, <1>2, <1>3, <1>4

LEMMA ContainerStartsKeeps ==
  ASSUME TypeOK, AttemptInv, ContainerStarts
  PROVE  TypeOK' /\ AttemptInv'
<1>0. UNCHANGED <<scenarioVars, exitCode, hostVars, batchVars>>
  BY DEF ContainerStarts
<1>1. /\ test = "none" /\ body = "none" /\ oracle = "none" /\ observed \notin Signatures
      /\ control = "none"
  BY DEF ContainerStarts, AttemptInv, ScenarioInv
<1>2. /\ "P1" \in Entries /\ AppendLog("P1") /\ "P1" \notin Signatures
  BY ViolationsAreNotMarkers DEF ContainerStarts, Entries
<1>3. TypeOK'
  <2>1. ScenarioType'
    BY <1>0 DEF TypeOK, ScenarioType, ContainerStarts, scenarioVars
  <2>2. LogType'
    BY <1>2, LogGrows DEF LogType
  <2>3. QED
    BY <1>0, <2>1, <2>2, OthersStay DEF TypeOK
<1>4. ScenarioInv'
  BY <1>0, <1>1 DEF AttemptInv, ScenarioInv, ContainerStarts, scenarioVars
<1>5. LogInv'
  <2>1. OneViolation' /\ ~Logged("CONTROL_FAILURE")'
    BY <1>1, <1>2, LogGrows DEF AttemptInv, LogInv
  <2>2. \A signature \in Signatures : ~Logged(signature)'
    BY <1>1, <1>2, LogGrows DEF AttemptInv, LogInv
  <2>3. ~lost' /\ ~timedOut' => Logged("P1")'
    BY <1>0, <1>2, LogGrows DEF AttemptInv, HostInv, ContainerStarts, hostVars
  <2>4. QED
    BY <1>0, <1>1, <2>1, <2>2, <2>3 DEF LogInv, scenarioVars
<1>6. HostInv'
  BY <1>0 DEF AttemptInv, HostInv, ContainerStarts, scenarioVars, hostVars
<1>7. RunInv'
  <2>1. run.outcome \notin {"pass", "candidate-failure"}
    BY DEF AttemptInv, RunInv, ContainerStarts
  <2>2. QED
    BY <1>0, <1>1, <2>1, NoVerdict DEF hostVars, scenarioVars
<1>8. QED
  BY <1>3, <1>4, <1>5, <1>6, <1>7 DEF AttemptInv

\* What the steps of a container that is up leave alone, for all of them.
LEMMA WhileUp ==
  ASSUME TypeOK, AttemptInv, container = "up", UNCHANGED <<container, exitCode, hostVars, batchVars>>,
         test = "passed" => test' = "passed"
  PROVE  HostInv' /\ RunInv'
<1>1. HostInv'
  BY DEF AttemptInv, HostInv, hostVars
<1>2. RunInv'
  BY NoVerdictWhileUp DEF hostVars
<1>3. QED
  BY <1>1, <1>2

LEMMA LoadKeeps ==
  ASSUME TypeOK, AttemptInv, Load
  PROVE  TypeOK' /\ AttemptInv'
<1>0. UNCHANGED <<control, oracle, observed, container, exitCode, hostVars, batchVars>>
  BY DEF Load
<1>1. body = "none" /\ control = "none" /\ oracle = "none" /\ observed \notin Signatures
  BY DEF Load, AttemptInv, ScenarioInv
<1>2. HostInv' /\ RunInv'
  BY <1>0, WhileUp DEF Load
<1>3. ScenarioInv'
  BY <1>0, <1>1 DEF AttemptInv, ScenarioInv, Load
<1>4. CASE test' = "running" /\ body' = "control" /\ AppendLog("P2")
  <2>1. "P2" \in Entries /\ "P2" \notin Signatures
    BY ViolationsAreNotMarkers DEF Entries
  <2>2. TypeOK'
    BY <1>0, <1>4, <2>1, LogGrows, OthersStay DEF TypeOK, ScenarioType, LogType, hostVars, batchVars
  <2>3. LogInv'
    <3>1. OneViolation' /\ ~Logged("CONTROL_FAILURE")'
      BY <1>1, <1>4, <2>1, LogGrows DEF AttemptInv, LogInv
    <3>2. \A signature \in Signatures : ~Logged(signature)'
      BY <1>1, <1>4, <2>1, LogGrows DEF AttemptInv, LogInv
    <3>3. ~lost' /\ ~timedOut' => Logged("P1")' /\ Logged("P2")'
      BY <1>0, <1>4, <2>1, LogGrows DEF AttemptInv, LogInv, HostInv, Load, hostVars
    <3>4. QED
      BY <1>0, <1>1, <1>4, <3>1, <3>2, <3>3 DEF LogInv
  <2>4. QED
    BY <1>2, <1>3, <2>2, <2>3 DEF AttemptInv
<1>5. CASE test' = "failed" /\ UNCHANGED <<body, log, lost>>
  <2>1. TypeOK'
    BY <1>0, <1>5, OthersStay DEF TypeOK, ScenarioType, LogType, hostVars, batchVars
  <2>2. LogInv'
    BY <1>0, <1>5, LogStays DEF AttemptInv, LogInv, hostVars
  <2>3. QED
    BY <1>2, <1>3, <2>1, <2>2 DEF AttemptInv
<1>6. QED
  BY <1>4, <1>5 DEF Load

LEMMA ControlKeeps ==
  ASSUME TypeOK, AttemptInv, Control
  PROVE  TypeOK' /\ AttemptInv'
<1>0. UNCHANGED <<oracle, observed, container, exitCode, hostVars, batchVars>>
  BY DEF Control
<1>1. container = "up" /\ body = "control"
  BY DEF Control, At
<1>2. control = "none" /\ oracle = "none" /\ observed \notin Signatures /\ test # "none" /\ test # "passed"
  BY <1>1 DEF AttemptInv, ScenarioInv
<1>3. test' \in {test, "failed"} /\ (body' = "over" => test' # "running")
  BY DEF Control, TestEnds
<1>4. HostInv' /\ RunInv'
  BY <1>0, <1>1, <1>2, WhileUp
<1>5. CASE control' = "passed" /\ body' = "act" /\ AppendLog("P3")
  <2>1. "P3" \in Entries /\ "P3" \notin Signatures
    BY ViolationsAreNotMarkers DEF Entries
  <2>2. TypeOK'
    BY <1>0, <1>3, <1>5, <2>1, LogGrows, OthersStay DEF TypeOK, ScenarioType, LogType, hostVars, batchVars
  <2>3. ScenarioInv'
    BY <1>0, <1>1, <1>2, <1>3, <1>5 DEF AttemptInv, ScenarioInv
  <2>4. LogInv'
    <3>1. OneViolation' /\ ~Logged("CONTROL_FAILURE")'
      BY <1>2, <1>5, <2>1, LogGrows DEF AttemptInv, LogInv
    <3>2. \A signature \in Signatures : ~Logged(signature)'
      BY <1>2, <1>5, <2>1, LogGrows DEF AttemptInv, LogInv
    <3>3. ~lost' /\ ~timedOut' => Logged("P1")' /\ Logged("P2")'
      BY <1>0, <1>1, <1>5, <2>1, LogGrows DEF AttemptInv, LogInv, HostInv, hostVars
    <3>4. QED
      BY <1>0, <1>2, <1>5, <3>1, <3>2, <3>3 DEF LogInv
  <2>5. QED
    BY <1>4, <2>2, <2>3, <2>4 DEF AttemptInv
<1>6. CASE control' = "failed" /\ body' = "over" /\ AppendLog("CONTROL_FAILURE")
  <2>1. "CONTROL_FAILURE" \in Entries /\ "CONTROL_FAILURE" \notin Signatures
    BY ViolationsAreNotMarkers DEF Entries
  <2>2. TypeOK'
    BY <1>0, <1>3, <1>6, <2>1, LogGrows, OthersStay DEF TypeOK, ScenarioType, LogType, hostVars, batchVars
  <2>3. ScenarioInv'
    BY <1>0, <1>1, <1>2, <1>3, <1>6 DEF AttemptInv, ScenarioInv
  <2>4. LogInv'
    <3>1. OneViolation'
      BY <1>6, <2>1, LogGrows DEF AttemptInv, LogInv
    <3>2. \A signature \in Signatures : ~Logged(signature)'
      BY <1>2, <1>6, <2>1, LogGrows DEF AttemptInv, LogInv
    <3>3. ~lost' /\ ~timedOut' => Logged("P1")' /\ Logged("P2")'
      BY <1>0, <1>1, <1>6, <2>1, LogGrows DEF AttemptInv, LogInv, HostInv, hostVars
    <3>4. QED
      BY <1>0, <1>2, <1>6, <3>1, <3>2, <3>3 DEF LogInv
  <2>5. QED
    BY <1>4, <2>2, <2>3, <2>4 DEF AttemptInv
<1>7. QED
  BY <1>5, <1>6 DEF Control
LEMMA ActKeeps ==
  ASSUME TypeOK, AttemptInv, Act
  PROVE  TypeOK' /\ AttemptInv'
<1>0. UNCHANGED <<control, oracle, observed, container, exitCode, hostVars, batchVars>>
  BY DEF Act
<1>1. container = "up" /\ body = "act"
  BY DEF Act, At
<1>2. /\ control = "passed" /\ oracle = "none" /\ observed \notin Signatures
      /\ test # "none" /\ test # "passed"
  BY <1>1 DEF AttemptInv, ScenarioInv
<1>3. /\ test' \in {test, "failed"} /\ body' \in {"assert", "over"}
      /\ body' = "over" => test' # "running"
  BY DEF Act, TestEnds
<1>4. HostInv' /\ RunInv'
  BY <1>0, <1>1, <1>2, WhileUp
<1>5. ScenarioInv'
  BY <1>0, <1>1, <1>2, <1>3 DEF AttemptInv, ScenarioInv
<1>6. CASE body' = "assert" /\ AppendLog("P4")
  <2>1. "P4" \in Entries /\ "P4" \notin Signatures
    BY ViolationsAreNotMarkers DEF Entries
  <2>2. TypeOK'
    BY <1>0, <1>3, <1>6, <2>1, LogGrows, OthersStay
    DEF TypeOK, ScenarioType, LogType, hostVars, batchVars
  <2>3. LogInv'
    <3>1. OneViolation' /\ ~Logged("CONTROL_FAILURE")'
      BY <1>2, <1>6, <2>1, LogGrows DEF AttemptInv, LogInv
    <3>2. \A signature \in Signatures : ~Logged(signature)'
      BY <1>2, <1>6, <2>1, LogGrows DEF AttemptInv, LogInv
    <3>3. ~lost' /\ ~timedOut' => Logged("P1")' /\ Logged("P2")' /\ Logged("P4")'
      BY <1>0, <1>1, <1>6, <2>1, LogGrows DEF AttemptInv, LogInv, HostInv, hostVars
    <3>4. QED
      BY <1>0, <1>2, <3>1, <3>2, <3>3 DEF LogInv
  <2>4. QED
    BY <1>4, <1>5, <2>2, <2>3 DEF AttemptInv
<1>7. CASE body' = "over" /\ UNCHANGED <<log, lost>>
  <2>1. TypeOK'
    BY <1>0, <1>3, <1>7, OthersStay DEF TypeOK, ScenarioType, LogType
  <2>2. LogInv'
    BY <1>0, <1>1, <1>2, <1>7, LogStays DEF AttemptInv, LogInv, hostVars
  <2>3. QED
    BY <1>4, <1>5, <2>1, <2>2 DEF AttemptInv
<1>8. QED
  BY <1>6, <1>7 DEF Act

\* An assertion that ends without a violation.
LEMMA OracleKeeps ==
  ASSUME TypeOK, AttemptInv, Satisfied \/ AssertThrows
  PROVE  TypeOK' /\ AttemptInv'
<1>0. UNCHANGED <<control, observed, container, exitCode, log, lost, hostVars, batchVars>>
  BY DEF Satisfied, AssertThrows
<1>1. container = "up" /\ body = "assert" /\ body' = "over"
  BY DEF Satisfied, AssertThrows, At
<1>2. /\ control = "passed" /\ oracle = "none" /\ observed \notin Signatures
      /\ test # "none" /\ test # "passed"
  BY <1>1 DEF AttemptInv, ScenarioInv
<1>3. /\ oracle' \in {"satisfied", "threw"}
      /\ test' \in {test, "failed"} \/ (test' = "passed" /\ oracle' = "satisfied")
      /\ test' # "running"
  BY DEF Satisfied, AssertThrows, TestEnds
<1>4. HostInv' /\ RunInv'
  BY <1>0, <1>1, <1>2, WhileUp
<1>5. ScenarioInv'
  BY <1>0, <1>1, <1>2, <1>3 DEF AttemptInv, ScenarioInv
<1>6. TypeOK'
  BY <1>0, <1>1, <1>3, OthersStay DEF TypeOK, ScenarioType, LogType
<1>7. LogInv'
  <2>1. \A e : Logged(e)' <=> Logged(e)
    BY <1>0, LogStays
  <2>2. OneViolation'
    BY <1>0, LogStays DEF AttemptInv, LogInv
  <2>3. \A signature \in Signatures : ~Logged(signature)
    BY <1>2 DEF AttemptInv, LogInv
  <2>4. QED
    BY <1>0, <1>1, <1>2, <2>1, <2>2, <2>3 DEF AttemptInv, LogInv, hostVars
<1>8. QED
  BY <1>4, <1>5, <1>6, <1>7 DEF AttemptInv

LEMMA ViolatedKeeps ==
  ASSUME TypeOK, AttemptInv, NEW signature \in Signatures, Violated(signature)
  PROVE  TypeOK' /\ AttemptInv'
<1>0. UNCHANGED <<control, container, exitCode, hostVars, batchVars>>
  BY DEF Violated
<1>1. container = "up" /\ body = "assert" /\ body' = "over"
  BY DEF Violated, At
<1>2. /\ control = "passed" /\ oracle = "none" /\ observed \notin Signatures
      /\ test # "none" /\ test # "passed"
  BY <1>1 DEF AttemptInv, ScenarioInv
<1>3. /\ oracle' = "violated" /\ observed' = signature /\ test' \in {test, "failed"}
      /\ test' # "running" /\ AppendLog(signature)
  BY DEF Violated, TestEnds
<1>4. /\ signature \in Entries /\ signature # "CONTROL_FAILURE"
  BY ViolationsAreNotMarkers DEF Entries
<1>5. \A s \in Signatures : ~Logged(s)
  BY <1>2 DEF AttemptInv, LogInv
<1>6. HostInv' /\ RunInv'
  BY <1>0, <1>1, <1>2, WhileUp
<1>7. ScenarioInv'
  BY <1>0, <1>1, <1>2, <1>3 DEF AttemptInv, ScenarioInv
<1>8. TypeOK'
  BY <1>0, <1>1, <1>3, <1>4, LogGrows, OthersStay
  DEF TypeOK, ScenarioType, LogType, Seen
<1>9. LogInv'
  <2>1. OneViolation' /\ ~Logged("CONTROL_FAILURE")'
    BY <1>2, <1>3, <1>4, <1>5, LogGrows DEF AttemptInv, LogInv
  <2>2. \A s \in Signatures : Logged(s)' => s = signature
    BY <1>3, <1>4, <1>5, LogGrows
  <2>3. ~lost' /\ ~timedOut' =>
          Logged("P1")' /\ Logged("P2")' /\ Logged("P4")' /\ Logged(signature)'
    BY <1>0, <1>1, <1>3, <1>4, LogGrows DEF AttemptInv, LogInv, HostInv, hostVars
  <2>4. QED
    BY <1>3, <2>1, <2>2, <2>3 DEF LogInv
<1>10. QED
  BY <1>6, <1>7, <1>8, <1>9 DEF AttemptInv

LEMMA TestTimesOutKeeps ==
  ASSUME TypeOK, AttemptInv, TestTimesOut
  PROVE  TypeOK' /\ AttemptInv'
<1>0. /\ UNCHANGED <<body, control, oracle, observed, container, exitCode, log, lost,
                     hostVars, batchVars>>
      /\ container = "up" /\ test = "running" /\ test' = "timed out"
  BY DEF TestTimesOut
<1>1. HostInv' /\ RunInv'
  BY <1>0, WhileUp
<1>2. ScenarioInv'
  BY <1>0 DEF AttemptInv, ScenarioInv
<1>3. TypeOK'
  BY <1>0, OthersStay DEF TypeOK, ScenarioType, LogType
<1>4. LogInv'
  BY <1>0, LogStays DEF AttemptInv, LogInv, hostVars
<1>5. QED
  BY <1>1, <1>2, <1>3, <1>4 DEF AttemptInv

LEMMA NoiseKeeps ==
  ASSUME TypeOK, AttemptInv, Noise
  PROVE  TypeOK' /\ AttemptInv'
<1>0. /\ UNCHANGED <<scenarioVars, container, exitCode, hostVars, batchVars>>
      /\ container = "up" /\ AppendLog("noise")
  BY DEF Noise
<1>1. "noise" \in Entries /\ "noise" \notin Signatures
  BY ViolationsAreNotMarkers DEF Entries
<1>2. HostInv' /\ RunInv'
  BY <1>0, WhileUp DEF scenarioVars
<1>3. ScenarioInv'
  BY <1>0 DEF AttemptInv, ScenarioInv, scenarioVars
<1>4. TypeOK'
  BY <1>0, <1>1, LogGrows, OthersStay DEF TypeOK, ScenarioType, LogType, scenarioVars
<1>5. LogInv'
  <2>1. OneViolation'
    BY <1>0, <1>1, LogGrows DEF AttemptInv, LogInv
  <2>2. /\ Logged("CONTROL_FAILURE")' => Logged("CONTROL_FAILURE")
        /\ \A s \in Signatures : Logged(s)' => Logged(s)
    BY <1>0, <1>1, LogGrows
  <2>3. (\A e : Logged(e) => Logged(e)') /\ (lost => lost')
    BY <1>0, <1>1, LogGrows
  <2>4. QED
    BY <1>0, <2>1, <2>2, <2>3 DEF AttemptInv, LogInv, scenarioVars, hostVars
<1>6. QED
  BY <1>2, <1>3, <1>4, <1>5 DEF AttemptInv

LEMMA ContainerExitsKeeps ==
  ASSUME TypeOK, AttemptInv, ContainerExits
  PROVE  TypeOK' /\ AttemptInv'
<1>0. /\ UNCHANGED <<scenarioVars, log, lost, hostVars, batchVars>>
      /\ container = "up" /\ container' = "gone"
  BY DEF ContainerExits, Gone
<1>1. exitCode' \in {"zero", "one", "137", exitCode}
  BY DEF ContainerExits, Gone
<1>2. /\ exitCode' = "zero" => test = "passed"
      /\ client # "running" => exitCode' = exitCode
      /\ exitCode' = "signal" => exitCode = "signal"
      /\ exitCode' # "125" /\ client # "failed"
  BY <1>0 DEF ContainerExits, Gone, AttemptInv, HostInv
<1>3. HostInv'
  BY <1>0, <1>2 DEF AttemptInv, HostInv, scenarioVars, hostVars
<1>4. RunInv'
  BY <1>0, NoVerdictWhileUp DEF hostVars
<1>5. ScenarioInv'
  BY <1>0 DEF AttemptInv, ScenarioInv, scenarioVars
<1>6. TypeOK'
  BY <1>0, <1>1, OthersStay DEF TypeOK, ScenarioType, LogType, scenarioVars
<1>7. LogInv'
  BY <1>0, LogStays DEF AttemptInv, LogInv, scenarioVars, hostVars
<1>8. QED
  BY <1>3, <1>4, <1>5, <1>6, <1>7 DEF AttemptInv
-----------------------------------------------------------------------------
(***************************************************************************)
(* The steps of the host.                                                  *)
(***************************************************************************)

\* The steps of the client, its timer and its remover, but for those that touch the
\* container: what they leave of the scenario and the log.
LEMMA HostStep ==
  ASSUME TypeOK, AttemptInv, UNCHANGED <<scenarioVars, container, log, lost, batchVars>>,
         timedOut => timedOut'
  PROVE  ScenarioInv' /\ LogInv' /\ LogType' /\ BatchType'
<1>1. ScenarioInv'
  BY DEF AttemptInv, ScenarioInv, scenarioVars
<1>2. LogInv'
  BY LogStays DEF AttemptInv, LogInv, scenarioVars
<1>3. LogType' /\ BatchType'
  BY OthersStay DEF TypeOK, LogType
<1>4. QED
  BY <1>1, <1>2, <1>3

LEMMA ClientFailsKeeps ==
  ASSUME TypeOK, AttemptInv, ClientFails
  PROVE  TypeOK' /\ AttemptInv'
<1>0. /\ client = "running" /\ container = "none" /\ ~timedOut
      /\ client' = "failed" /\ run' = Unrunnable("runner-output-parse-failure")
      /\ UNCHANGED <<scenarioVars, container, exitCode, log, lost, timedOut, cleanup, batchVars>>
  BY DEF ClientFails
<1>1. /\ run'.outcome = "unrunnable"
      /\ run'.outcome \in Verdicts /\ run'.signature \in Seen
  BY <1>0 DEF Unrunnable, Classified, Verdicts, Seen
<1>2. exitCode = "none" /\ observed \notin Signatures
  BY <1>0 DEF TypeOK, ScenarioType, AttemptInv, HostInv, ScenarioInv
<1>3. ScenarioInv' /\ LogInv' /\ LogType' /\ BatchType'
  BY <1>0, HostStep
<1>4. HostInv'
  BY <1>0, <1>2 DEF HostInv
<1>5. RunInv'
  BY <1>0, <1>1, <1>2, NoVerdict DEF scenarioVars
<1>6. ScenarioType' /\ HostType'
  <2>1. ScenarioType'
    BY <1>0, <1>1 DEF TypeOK, ScenarioType, scenarioVars
  <2>2. HostType'
    BY <1>0, <1>1 DEF TypeOK, HostType
  <2>3. QED
    BY <2>1, <2>2
<1>7. QED
  BY <1>3, <1>4, <1>5, <1>6 DEF TypeOK, AttemptInv

LEMMA TimerFiresKeeps ==
  ASSUME TypeOK, AttemptInv, TimerFires
  PROVE  TypeOK' /\ AttemptInv'
<1>0. /\ client = "running" /\ timedOut' = TRUE /\ cleanup' = "running"
      /\ UNCHANGED <<scenarioVars, container, exitCode, log, lost, client, run, batchVars>>
  BY DEF TimerFires
<1>1. ScenarioInv' /\ LogInv' /\ LogType' /\ BatchType'
  BY <1>0, HostStep
<1>2. HostInv'
  BY <1>0 DEF AttemptInv, HostInv, scenarioVars
<1>3. RunInv'
  <2>1. run = Running
    BY <1>0 DEF AttemptInv, HostInv
  <2>2. run.outcome \notin {"pass", "candidate-failure"}
    BY <2>1 DEF Running, Classified
  <2>3. QED
    BY <1>0, <2>1, <2>2, NoVerdict
<1>4. ScenarioType' /\ HostType'
  <2>1. ScenarioType'
    BY <1>0 DEF TypeOK, ScenarioType, scenarioVars
  <2>2. HostType'
    BY <1>0 DEF TypeOK, HostType
  <2>3. QED
    BY <2>1, <2>2
<1>5. QED
  BY <1>1, <1>2, <1>3, <1>4 DEF TypeOK, AttemptInv

LEMMA RemoverRemovesKeeps ==
  ASSUME TypeOK, AttemptInv, RemoverRemoves
  PROVE  TypeOK' /\ AttemptInv'
<1>0. /\ cleanup' = "removed" /\ container # "none"
      /\ UNCHANGED <<scenarioVars, log, lost, client, timedOut, run, batchVars>>
  BY DEF RemoverRemoves
<1>1. ScenarioInv' /\ container' # "none"
  BY <1>0 DEF RemoverRemoves, Gone, AttemptInv, ScenarioInv, scenarioVars
<1>2. LogInv'
  BY <1>0, <1>1, LogStays DEF AttemptInv, LogInv, scenarioVars
<1>3. LogType' /\ BatchType'
  BY <1>0, OthersStay DEF TypeOK, LogType
<1>4. CASE container = "up" /\ Gone("137")
  <2>1. /\ container' = "gone"
        /\ exitCode' = IF client = "running" THEN "137" ELSE exitCode
    BY <1>4 DEF Gone
  <2>2. HostInv'
    BY <1>0, <1>4, <2>1 DEF AttemptInv, HostInv, scenarioVars
  <2>3. RunInv'
    BY <1>0, <1>4, NoVerdictWhileUp
  <2>4. ScenarioType' /\ HostType'
    <3>1. ScenarioType'
      BY <1>0, <2>1 DEF TypeOK, ScenarioType, scenarioVars
    <3>2. HostType'
      BY <1>0, <2>1 DEF TypeOK, HostType
    <3>3. QED
      BY <3>1, <3>2
  <2>5. QED
    BY <1>1, <1>2, <1>3, <2>2, <2>3, <2>4 DEF TypeOK, AttemptInv
<1>5. CASE UNCHANGED <<container, exitCode>>
  <2>1. HostInv'
    BY <1>0, <1>5 DEF AttemptInv, HostInv, scenarioVars
  <2>2. RunInv'
    BY <1>0, <1>5 DEF AttemptInv, RunInv, VerdictIsTheOracles, Undisturbed, scenarioVars
  <2>3. ScenarioType' /\ HostType'
    <3>1. ScenarioType'
      BY <1>0, <1>5 DEF TypeOK, ScenarioType, scenarioVars
    <3>2. HostType'
      BY <1>0, <1>5 DEF TypeOK, HostType
    <3>3. QED
      BY <3>1, <3>2
  <2>4. QED
    BY <1>1, <1>2, <1>3, <2>1, <2>2, <2>3 DEF TypeOK, AttemptInv
<1>6. QED
  BY <1>4, <1>5 DEF RemoverRemoves

LEMMA RemoverFailsKeeps ==
  ASSUME TypeOK, AttemptInv, RemoverFails
  PROVE  TypeOK' /\ AttemptInv'
<1>0. /\ cleanup' = "failed"
      /\ UNCHANGED <<scenarioVars, container, exitCode, log, lost, client, timedOut, run, batchVars>>
  BY DEF RemoverFails
<1>1. ScenarioInv' /\ LogInv' /\ LogType' /\ BatchType'
  BY <1>0, HostStep
<1>2. HostInv'
  BY <1>0 DEF AttemptInv, HostInv, scenarioVars
<1>3. RunInv'
  BY <1>0 DEF AttemptInv, RunInv, VerdictIsTheOracles, Undisturbed, scenarioVars
<1>4. ScenarioType' /\ HostType'
  <2>1. ScenarioType'
    BY <1>0 DEF TypeOK, ScenarioType, scenarioVars
  <2>2. HostType'
    BY <1>0 DEF TypeOK, HostType
  <2>3. QED
    BY <2>1, <2>2
<1>5. QED
  BY <1>1, <1>2, <1>3, <1>4 DEF TypeOK, AttemptInv

LEMMA ClientClosesKeeps ==
  ASSUME TypeOK, AttemptInv, ClientCloses
  PROVE  TypeOK' /\ AttemptInv'
<1>0. /\ client = "running" /\ client' = "closed"
      /\ UNCHANGED <<scenarioVars, container, log, lost, timedOut, cleanup, run, batchVars>>
  BY DEF ClientCloses
<1>1. \/ container = "gone" /\ exitCode' = exitCode
      \/ container = "none" /\ timedOut /\ exitCode' = "signal"
      \/ container = "none" /\ exitCode' = "125"
  BY DEF ClientCloses
<1>2. ScenarioInv' /\ LogInv' /\ LogType' /\ BatchType'
  BY <1>0, HostStep
<1>3. HostInv'
  BY <1>0, <1>1 DEF AttemptInv, HostInv, scenarioVars
<1>4. RunInv'
  <2>1. run = Running
    BY <1>0 DEF AttemptInv, HostInv
  <2>2. run.outcome \notin {"pass", "candidate-failure"}
    BY <2>1 DEF Running, Classified
  <2>3. QED
    BY <1>0, <2>1, <2>2, NoVerdict
<1>5. ScenarioType' /\ HostType'
  <2>1. ScenarioType'
    BY <1>0, <1>1 DEF TypeOK, ScenarioType, scenarioVars
  <2>2. HostType'
    BY <1>0, <1>1 DEF TypeOK, HostType
  <2>3. QED
    BY <2>1, <2>2
<1>6. QED
  BY <1>2, <1>3, <1>4, <1>5 DEF TypeOK, AttemptInv

\* The last violation of a log with one violation.
LEMMA LastViolationIsTheOne ==
  ASSUME LogType, OneViolation, NEW signature \in Signatures, Logged(signature)
  PROVE  LastViolation = signature
<1> DEFINE Last(s) == \E n \in 1..Len(log) :
                        log[n] = s /\ \A later \in (n + 1)..Len(log) : log[later] \notin Signatures
<1>1. Len(log) \in Nat
  BY LenProperties DEF LogType
<1>2. PICK n \in 1..Len(log) : log[n] = signature
  BY DEF Logged
<1>3. \A later \in (n + 1)..Len(log) : later \in 1..Len(log) /\ later # n
  BY <1>1
<1>4. \A later \in (n + 1)..Len(log) : log[later] \notin Signatures
  BY <1>2, <1>3 DEF OneViolation
<1>5. Last(signature)
  BY <1>2, <1>4
<1>6. ASSUME NEW s \in Signatures, Last(s) PROVE s = signature
  BY <1>2, <1>6 DEF OneViolation
<1>7. LastViolation = CHOOSE s \in Signatures : Last(s)
  BY DEF LastViolation
<1> HIDE DEF Last
<1>8. QED
  BY <1>5, <1>6, <1>7

LEMMA ClassifyKeeps ==
  ASSUME TypeOK, AttemptInv, Classify
  PROVE  TypeOK' /\ AttemptInv'
<1>0. /\ client = "closed" /\ run = Running /\ run' = Classification
      /\ UNCHANGED <<scenarioVars, container, exitCode, log, lost, client, timedOut, cleanup, batchVars>>
  BY DEF Classify
<1>1. ScenarioInv' /\ LogInv' /\ LogType' /\ BatchType'
  BY <1>0, HostStep
<1>2. HostInv'
  BY <1>0 DEF AttemptInv, HostInv, scenarioVars
<1>3. LogType /\ OneViolation
  BY DEF TypeOK, AttemptInv, LogInv
<1>4. ASSUME Classification = Classified("candidate-failure", "oracle-violation", LastViolation),
             ~timedOut, exitCode # "137", Logged("P1"),
             \E signature \in Signatures : Logged(signature)
      PROVE  RunInv' /\ HostType'
  <2>1. PICK signature \in Signatures : Logged(signature)
    BY <1>4
  <2>2. /\ run'.outcome = "candidate-failure" /\ run'.signature = signature
        /\ run'.outcome \in Verdicts /\ run'.signature \in Seen
    BY <1>0, <1>3, <1>4, <2>1, LastViolationIsTheOne DEF Classified, Verdicts, Seen
  <2>3. oracle = "violated" /\ observed = signature
    BY <2>1 DEF AttemptInv, LogInv
  <2>4. /\ control = "passed" /\ container # "none"
        /\ test \in {"failed", "timed out"}
    BY <2>3 DEF AttemptInv, ScenarioInv, TypeOK, ScenarioType
  <2>5. container = "gone"
    BY <1>0, <1>4, <2>4 DEF AttemptInv, HostInv
  <2>6. RunInv'
    BY <1>0, <2>2, <2>3, <2>4, <2>5 DEF RunInv, VerdictIsTheOracles, scenarioVars
  <2>7. QED
    BY <1>0, <2>2, <2>6 DEF TypeOK, HostType
<1>5. ASSUME Classification = Classified("pass", "oracle-satisfied", "none"), exitCode = "zero"
      PROVE  RunInv' /\ HostType'
  <2>1. /\ run'.outcome = "pass"
        /\ run'.outcome \in Verdicts /\ run'.signature \in Seen
    BY <1>0, <1>5 DEF Classified, Verdicts, Seen
  <2>2. test = "passed" /\ container = "gone"
    BY <1>5 DEF AttemptInv, HostInv
  <2>3. oracle = "satisfied" /\ control = "passed" /\ observed \notin Signatures
    BY <2>2 DEF AttemptInv, ScenarioInv
  <2>4. RunInv'
    BY <1>0, <2>1, <2>2, <2>3 DEF RunInv, VerdictIsTheOracles, scenarioVars
  <2>5. QED
    BY <1>0, <2>1, <2>4 DEF TypeOK, HostType
<1>6. ASSUME NEW rule, Classification = Unrunnable(rule),
             ~(Undisturbed /\ observed \in Signatures)
      PROVE  RunInv' /\ HostType'
  <2>1. /\ run'.outcome = "unrunnable"
        /\ run'.outcome \in Verdicts /\ run'.signature \in Seen
    BY <1>0, <1>6 DEF Unrunnable, Classified, Verdicts, Seen
  <2>2. ~(Undisturbed' /\ observed' \in Signatures)
    BY <1>0, <1>6 DEF Undisturbed, scenarioVars
  <2>3. RunInv'
    BY <2>1, <2>2 DEF RunInv, VerdictIsTheOracles
  <2>4. QED
    BY <1>0, <2>1, <2>3 DEF TypeOK, HostType
<1>7. ASSUME Undisturbed, observed \in Signatures
      PROVE  /\ Logged("P1") /\ Logged("P2") /\ ~Logged("CONTROL_FAILURE") /\ Logged("P4")
             /\ exitCode # "zero" /\ \E signature \in Signatures : Logged(signature)
  <2>1. oracle = "violated" /\ control = "passed" /\ body = "over" /\ container # "none"
    BY <1>7 DEF AttemptInv, ScenarioInv
  <2>2. test # "passed"
    BY <2>1 DEF AttemptInv, ScenarioInv
  <2>3. QED
    BY <1>7, <2>1, <2>2 DEF Undisturbed, AttemptInv, LogInv, HostInv
<1>8. RunInv' /\ HostType'
  <2>1. \/ /\ Classification = Classified("candidate-failure", "oracle-violation", LastViolation)
           /\ ~timedOut /\ exitCode # "137" /\ Logged("P1")
           /\ \E signature \in Signatures : Logged(signature)
        \/ /\ Classification = Classified("pass", "oracle-satisfied", "none")
           /\ exitCode = "zero"
        \/ /\ \E rule : Classification = Unrunnable(rule)
           /\ ~(Undisturbed /\ observed \in Signatures)
    <3>1. timedOut \/ exitCode = "137" => ~Undisturbed
      BY DEF Undisturbed
    <3>2. CASE timedOut \/ exitCode = "137" \/ ~Logged("P1") \/ ~Logged("P2")
                 \/ Logged("CONTROL_FAILURE")
      <4>1. \E rule : Classification = Unrunnable(rule)
        BY <3>2 DEF Classification
      <4>2. QED
        BY <1>7, <3>1, <3>2, <4>1
    <3>3. CASE /\ ~timedOut /\ exitCode # "137" /\ Logged("P1") /\ Logged("P2")
               /\ ~Logged("CONTROL_FAILURE")
      <4>1. CASE exitCode = "zero" /\ Logged("P3") /\ Logged("P4")
        BY <3>3, <4>1 DEF Classification
      <4>2. CASE /\ ~(exitCode = "zero" /\ Logged("P3") /\ Logged("P4"))
                 /\ Logged("P4") /\ \E signature \in Signatures : Logged(signature)
        BY <3>3, <4>2 DEF Classification
      <4>3. CASE /\ ~(exitCode = "zero" /\ Logged("P3") /\ Logged("P4"))
                 /\ ~(Logged("P4") /\ \E signature \in Signatures : Logged(signature))
        <5>1. \E rule : Classification = Unrunnable(rule)
          BY <3>3, <4>3 DEF Classification
        <5>2. QED
          BY <1>7, <4>3, <5>1
      <4>4. QED
        BY <4>1, <4>2, <4>3
    <3>4. QED
      BY <3>2, <3>3
  <2>2. QED
    BY <1>4, <1>5, <1>6, <2>1
<1>9. ScenarioType'
  BY <1>0 DEF TypeOK, ScenarioType, scenarioVars
<1>10. QED
  BY <1>1, <1>2, <1>8, <1>9 DEF TypeOK, AttemptInv
-----------------------------------------------------------------------------
(***************************************************************************)
(* The batch.                                                              *)
(***************************************************************************)

\* The values of a sequence are one value, or their number is not one.
LEMMA OneValue ==
  ASSUME NEW N \in Nat \ {0}, NEW S, NEW f \in [1..N -> S]
  PROVE  Cardinality({f[n] : n \in 1..N}) = 1 <=> \A n \in 1..N : f[n] = f[1]
<1> DEFINE V == {f[n] : n \in 1..N}
<1>1. IsFiniteSet(1..N)
  BY FS_Interval
<1>2. f \in Surjection(1..N, V)
  <2>1. f \in [1..N -> V]
    OBVIOUS
  <2>2. QED
    BY <2>1 DEF Surjection
<1>3. IsFiniteSet(V)
  BY <1>1, <1>2, FS_Surjection
<1>4. f[1] \in V
  OBVIOUS
<1>5. ASSUME Cardinality(V) = 1, NEW n \in 1..N PROVE f[n] = f[1]
  <2>1. PICK v : V = {v}
    BY <1>3, <1>5, FS_Singleton
  <2>2. f[n] \in V
    OBVIOUS
  <2>3. QED
    BY <1>4, <2>1, <2>2
<1>6. ASSUME \A n \in 1..N : f[n] = f[1] PROVE Cardinality(V) = 1
  <2>1. V = {f[1]}
    BY <1>6
  <2>2. QED
    BY <2>1, FS_Singleton
<1>7. QED
  BY <1>5, <1>6

\* The attempts have one outcome when they have that of the first.
LEMMA AllAlike ==
  ASSUME NEW runs \in Seq(Evidences), Len(runs) > 0
  PROVE  Cardinality(Outcomes(runs)) = 1 <=>
           \A n \in 1..Len(runs) : runs[n].outcome = runs[1].outcome
<1> DEFINE N == Len(runs)
           f == [n \in 1..N |-> runs[n].outcome]
<1>1. N \in Nat \ {0} /\ 1 \in 1..N
  BY LenProperties
<1>2. f \in [1..N -> Outcomes(runs)]
  BY DEF Outcomes
<1>3. {f[n] : n \in 1..N} = Outcomes(runs)
  BY DEF Outcomes
<1>4. \A n \in 1..N : f[n] = runs[n].outcome
  OBVIOUS
<1> HIDE DEF f
<1>5. Cardinality({f[n] : n \in 1..N}) = 1 <=> \A n \in 1..N : f[n] = f[1]
  BY <1>1, <1>2, OneValue
<1>6. QED
  BY <1>1, <1>3, <1>4, <1>5

\* A batch is reported when there are three attempts or more and all of them failed with
\* one violation.
LEMMA Reported ==
  ASSUME NEW runs \in Seq(Evidences), Len(runs) > 0, \A n \in 1..Len(runs) : Sound(runs[n])
  PROVE  Aggregate(runs).reportable <=>
           /\ Len(runs) >= 3
           /\ \E signature \in Signatures : \A n \in 1..Len(runs) :
                runs[n].outcome = "candidate-failure" /\ runs[n].observed = signature
<1> DEFINE N == Len(runs)
           g == [n \in 1..N |-> runs[n].signature]
<1>1. N \in Nat \ {0} /\ 1 \in 1..N
  BY LenProperties
<1>2. Cardinality(Outcomes(runs)) = 1 <=> \A n \in 1..N : runs[n].outcome = runs[1].outcome
  BY AllAlike
<1>3. Cardinality(Keys(runs)) = 1 <=> \A n \in 1..N : runs[n].signature = runs[1].signature
  <2>1. g \in [1..N -> Keys(runs)]
    BY DEF Keys
  <2>2. {g[n] : n \in 1..N} = Keys(runs)
    BY DEF Keys
  <2>3. \A n \in 1..N : g[n] = runs[n].signature
    OBVIOUS
  <2> HIDE DEF g
  <2>4. Cardinality({g[n] : n \in 1..N}) = 1 <=> \A n \in 1..N : g[n] = g[1]
    BY <1>1, <2>1, OneValue
  <2>5. QED
    BY <1>1, <2>2, <2>3, <2>4
<1>4. AggregateOutcome(runs) = "candidate-failure" <=>
        \A n \in 1..N : runs[n].outcome = "candidate-failure"
  BY <1>1, <1>2 DEF AggregateOutcome
<1>5. Aggregate(runs).reportable <=>
        /\ \A n \in 1..N : runs[n].outcome = "candidate-failure"
        /\ \A n \in 1..N : runs[n].signature = runs[1].signature
        /\ N >= 3
  BY <1>3, <1>4 DEF Aggregate
<1>6. ASSUME NEW n \in 1..N, runs[n].outcome = "candidate-failure"
      PROVE  runs[n].observed \in Signatures /\ runs[n].signature = runs[n].observed
  BY <1>6 DEF Sound
<1>7. QED
  BY <1>1, <1>5, <1>6

\* An attempt that starts satisfies the invariant.
LEMMA FreshAttempt ==
  AttemptInit => ScenarioType /\ LogType /\ HostType /\ AttemptInv
<1> SUFFICES ASSUME AttemptInit PROVE ScenarioType /\ LogType /\ HostType /\ AttemptInv
  OBVIOUS
<1>1. ScenarioType /\ LogType /\ HostType
  <2>1. ScenarioType
    BY DEF AttemptInit, ScenarioType, Seen
  <2>2. LogType
    BY EmptySeq DEF AttemptInit, LogType
  <2>3. HostType
    BY DEF AttemptInit, HostType, Running, Classified, Seen, Verdicts
  <2>4. QED
    BY <2>1, <2>2, <2>3
<1>2. ScenarioInv /\ HostInv
  BY ViolationsAreNotMarkers DEF AttemptInit, ScenarioInv, HostInv
<1>3. LogInv
  BY ViolationsAreNotMarkers DEF AttemptInit, LogInv, Logged, OneViolation
<1>4. RunInv
  BY DEF AttemptInit, RunInv, VerdictIsTheOracles, Running, Classified
<1>5. QED
  BY <1>1, <1>2, <1>3, <1>4 DEF AttemptInv

LEMMA FreshAttemptNext ==
  AttemptInit' => (ScenarioType /\ LogType /\ HostType /\ AttemptInv)'
BY FreshAttempt, PTL

\* What an attempt that is over leaves behind says what happened in it, or that its
\* evidence was cut.
LEMMA EvidenceIsSound ==
  ASSUME TypeOK, AttemptInv, run # Running, NEW record \in Parsed
  PROVE  Evidence(record) \in Evidences /\ Sound(Evidence(record))
<1>1. record = run \/ (record # run /\ record.outcome = "unrunnable" /\ record.signature = "none")
  BY DEF Parsed, Unrunnable, Classified
<1>2. record.outcome \in Verdicts /\ record.signature \in Seen
  BY <1>1 DEF TypeOK, HostType, Verdicts, Seen
<1>3. observed \in Seen
  BY DEF TypeOK, ScenarioType
<1>4. Evidence(record) \in Evidences
  BY <1>2, <1>3 DEF Evidence, Evidences
<1>5. /\ run.outcome = "candidate-failure" =>
           observed \in Signatures /\ run.signature = observed
      /\ observed \in Signatures /\ Undisturbed => run.outcome = "candidate-failure"
  BY DEF AttemptInv, ScenarioInv, RunInv, VerdictIsTheOracles
<1>6. observed \in Signatures => observed # "none"
  BY ViolationsAreNotMarkers
<1>7. QED
  BY <1>1, <1>4, <1>5, <1>6 DEF Evidence, Sound, Undisturbed

LEMMA AttemptOverKeeps ==
  ASSUME SInv, AttemptOver
  PROVE  SInv'
<1>0. /\ run # Running /\ Len(evidences) < attempts
      /\ UNCHANGED digest
  BY DEF AttemptOver
<1>. PICK record \in Parsed : evidences' = Append(evidences, Evidence(record))
  BY DEF AttemptOver
<1>1. /\ evidences \in Seq(Evidences) /\ Len(evidences) \in Nat /\ attempts \in Nat \ {0}
      /\ \A n \in 1..Len(evidences) : Sound(evidences[n])
  BY BatchAssumption, LenProperties DEF SInv, TypeOK, BatchType, BatchInv
<1>2. Evidence(record) \in Evidences /\ Sound(Evidence(record))
  BY <1>0, EvidenceIsSound DEF SInv
<1>3. /\ evidences' \in Seq(Evidences) /\ Len(evidences') = Len(evidences) + 1
      /\ \A n \in 1..Len(evidences) : evidences'[n] = evidences[n]
      /\ evidences'[Len(evidences) + 1] = Evidence(record)
  BY <1>1, <1>2, AppendProperties
<1>4. \A n \in 1..Len(evidences') : Sound(evidences'[n])
  BY <1>1, <1>2, <1>3
<1>5. BatchType'
  BY <1>0, <1>1, <1>3 DEF SInv, TypeOK, BatchType
<1>6. digest = "none"
  BY <1>0, <1>1 DEF SInv, BatchInv
<1>7. CASE Len(evidences') = attempts
  <2>1. /\ aggregate' = Aggregate(evidences')
        /\ UNCHANGED <<scenarioVars, container, exitCode, log, lost, hostVars>>
    BY <1>7 DEF AttemptOver
  <2>2. BatchInv'
    BY <1>0, <1>4, <1>7, <1>6, <2>1 DEF BatchInv
  <2>3. ScenarioType' /\ LogType' /\ HostType'
    BY <2>1, OthersStay DEF SInv, TypeOK
  <2>4. ScenarioInv' /\ HostInv'
    BY <2>1 DEF SInv, AttemptInv, ScenarioInv, HostInv, scenarioVars, hostVars
  <2>5. LogInv'
    BY <2>1, LogStays DEF SInv, AttemptInv, LogInv, scenarioVars, hostVars
  <2>6. RunInv'
    BY <2>1 DEF SInv, AttemptInv, RunInv, VerdictIsTheOracles, Undisturbed, scenarioVars, hostVars
  <2>7. QED
    BY <1>5, <2>2, <2>3, <2>4, <2>5, <2>6 DEF SInv, TypeOK, AttemptInv
<1>8. CASE Len(evidences') # attempts
  <2>1. NextAttempt /\ UNCHANGED aggregate
    BY <1>8 DEF AttemptOver
  <2>2. AttemptInit'
    BY <2>1 DEF NextAttempt, AttemptInit
  <2>3. aggregate.outcome = "none" /\ ~aggregate.reportable
    BY <1>0, <1>1 DEF SInv, BatchInv
  <2>4. BatchInv'
    BY <1>0, <1>4, <1>8, <1>6, <2>1, <2>3 DEF BatchInv
  <2>5. QED
    BY <1>5, <2>2, <2>4, FreshAttemptNext DEF SInv, TypeOK
<1>9. QED
  BY <1>7, <1>8

LEMMA DigestKeeps ==
  ASSUME SInv, Digest
  PROVE  SInv'
<1>0. /\ UNCHANGED <<scenarioVars, container, exitCode, log, lost, hostVars, evidences, aggregate>>
      /\ aggregate.outcome # "none"
      /\ \/ digest' = "failed"
         \/ digest' = IF aggregate.reportable THEN "listed" ELSE "excluded"
  BY DEF Digest
<1>1. ScenarioType' /\ LogType' /\ HostType'
  BY <1>0, OthersStay DEF SInv, TypeOK
<1>2. BatchType'
  BY <1>0 DEF SInv, TypeOK, BatchType
<1>3. BatchInv'
  BY <1>0 DEF SInv, BatchInv
<1>4. ScenarioInv' /\ HostInv'
  BY <1>0 DEF SInv, AttemptInv, ScenarioInv, HostInv, scenarioVars, hostVars
<1>5. LogInv'
  BY <1>0, LogStays DEF SInv, AttemptInv, LogInv, scenarioVars, hostVars
<1>6. RunInv'
  BY <1>0 DEF SInv, AttemptInv, RunInv, VerdictIsTheOracles, Undisturbed, scenarioVars, hostVars
<1>7. QED
  BY <1>1, <1>2, <1>3, <1>4, <1>5, <1>6 DEF SInv, TypeOK, AttemptInv

LEMMA InitSInv == Init => SInv
<1> SUFFICES ASSUME Init PROVE SInv
  OBVIOUS
<1>1. /\ evidences = <<>> /\ Len(evidences) = 0 /\ digest = "none"
      /\ aggregate.outcome = "none" /\ aggregate.reportable = FALSE
  BY EmptySeq DEF Init
<1>2. BatchType /\ BatchInv
  BY <1>1, BatchAssumption, EmptySeq DEF BatchType, BatchInv
<1>3. QED
  BY <1>2, FreshAttempt DEF Init, SInv, TypeOK

LEMMA StepSInv == SInv /\ [Next]_vars => SInv'
<1> SUFFICES ASSUME SInv, [Next]_vars PROVE SInv'
  OBVIOUS
<1>0. TypeOK /\ AttemptInv
  BY DEF SInv
<1>1. ASSUME TypeOK', AttemptInv', UNCHANGED batchVars PROVE SInv'
  BY <1>1 DEF SInv, BatchInv, batchVars
<1>2. CASE Container
  <2>1. UNCHANGED batchVars
    BY <1>2 DEF Container, ContainerStarts, Load, Control, Act, Satisfied, Violated,
                AssertThrows, TestTimesOut, Noise, ContainerExits
  <2>2. TypeOK' /\ AttemptInv'
    BY <1>0, <1>2, ContainerStartsKeeps, LoadKeeps, ControlKeeps, ActKeeps, OracleKeeps,
       ViolatedKeeps, TestTimesOutKeeps, NoiseKeeps, ContainerExitsKeeps DEF Container
  <2>3. QED
    BY <1>1, <2>1, <2>2
<1>3. CASE ClientFails \/ TimerFires \/ RemoverRemoves \/ RemoverFails \/ ClientCloses \/ Classify
  <2>1. UNCHANGED batchVars
    BY <1>3 DEF ClientFails, TimerFires, RemoverRemoves, RemoverFails, ClientCloses, Classify
  <2>2. TypeOK' /\ AttemptInv'
    BY <1>0, <1>3, ClientFailsKeeps, TimerFiresKeeps, RemoverRemovesKeeps,
       RemoverFailsKeeps, ClientClosesKeeps, ClassifyKeeps
  <2>3. QED
    BY <1>1, <2>1, <2>2
<1>4. CASE AttemptOver
  BY <1>4, AttemptOverKeeps
<1>5. CASE Digest
  BY <1>5, DigestKeeps
<1>6. CASE Over \/ UNCHANGED vars
  <2>1. UNCHANGED <<scenarioVars, container, exitCode, log, lost, hostVars, batchVars>>
    BY <1>6 DEF Over, vars
  <2>2. ScenarioType' /\ LogType' /\ HostType' /\ BatchType'
    BY <1>0, <2>1, OthersStay DEF TypeOK
  <2>3. ScenarioInv' /\ HostInv'
    BY <1>0, <2>1 DEF AttemptInv, ScenarioInv, HostInv, scenarioVars, hostVars
  <2>4. LogInv'
    BY <1>0, <2>1, LogStays DEF AttemptInv, LogInv, scenarioVars, hostVars
  <2>5. RunInv'
    BY <1>0, <2>1 DEF AttemptInv, RunInv, VerdictIsTheOracles, Undisturbed, scenarioVars, hostVars
  <2>6. QED
    BY <1>1, <2>1, <2>2, <2>3, <2>4, <2>5 DEF TypeOK, AttemptInv
<1>7. QED
  BY <1>2, <1>3, <1>4, <1>5, <1>6 DEF Next

-----------------------------------------------------------------------------
(***************************************************************************)
(* The results.                                                            *)
(***************************************************************************)

\* Scenario, log, host and batch keep the relations the verdicts rest on, whatever the
\* interleaving of the container, the timer, the remover and the client.
THEOREM BatchInvariant == SafetySpec => []SInv
<1>1. Init => SInv
  BY InitSInv
<1>2. SInv /\ [Next]_vars => SInv'
  BY StepSInv
<1>3. QED
  BY <1>1, <1>2, PTL DEF SafetySpec

\* classifyRun says what the scenario's own oracle said, however much of the log was lost
\* and whatever ended the container.
THEOREM VerdictsAreTheOracles == SafetySpec => []VerdictIsTheOracles
<1>1. SInv => VerdictIsTheOracles
  BY DEF SInv, AttemptInv, RunInv
<1>2. QED
  BY <1>1, BatchInvariant, PTL

\* aggregateRuns, and the digest after it, report nothing but what was reproduced.  All of
\* what was reproduced undisturbed is reported, but for a scenario some of whose evidence
\* was cut, which counts as unrunnable or intermittent, and for a digest that is not made.
THEOREM ReportsAreReproductions == SafetySpec => []ReportIsReproduction
<1>1. SInv => ReportIsReproduction
  <2> SUFFICES ASSUME SInv PROVE ReportIsReproduction
    OBVIOUS
  <2>1. /\ evidences \in Seq(Evidences) /\ attempts \in Nat \ {0} /\ Len(evidences) \in Nat
        /\ \A n \in 1..Len(evidences) : Sound(evidences[n])
    BY BatchAssumption, LenProperties DEF SInv, TypeOK, BatchType, BatchInv
  <2>2. ASSUME Len(evidences) = attempts
        PROVE  /\ aggregate = Aggregate(evidences)
               /\ Aggregate(evidences).reportable <=>
                    /\ Len(evidences) >= 3
                    /\ \E signature \in Signatures : \A n \in 1..Len(evidences) :
                         /\ evidences[n].outcome = "candidate-failure"
                         /\ evidences[n].observed = signature
    <3>1. aggregate = Aggregate(evidences)
      BY <2>2 DEF SInv, BatchInv
    <3>2. Len(evidences) > 0
      BY <2>1, <2>2
    <3>3. QED
      BY <2>1, <3>1, <3>2, Reported
  <2>3. ReportedIsReproduced
    <3>1. ASSUME aggregate.reportable \/ digest = "listed"
          PROVE  aggregate.reportable /\ Len(evidences) = attempts
      BY <3>1 DEF SInv, BatchInv
    <3>2. QED
      BY <2>2, <3>1 DEF ReportedIsReproduced
  <2>4. ReproducedIsReported
    <3> SUFFICES ASSUME Len(evidences) = attempts, attempts >= 3,
                        NEW signature \in Signatures,
                        \A n \in 1..Len(evidences) :
                          evidences[n].observed = signature /\ evidences[n].undisturbed
                 PROVE  \/ aggregate.reportable /\ digest # "excluded"
                        \/ /\ \E n \in 1..Len(evidences) : evidences[n].cut
                           /\ aggregate.outcome \in {"unrunnable", "intermittent"}
      BY DEF ReproducedIsReported, Reproduced
    <3>1. \A n \in 1..Len(evidences) :
            \/ evidences[n].outcome = "candidate-failure"
            \/ evidences[n].outcome = "unrunnable" /\ evidences[n].cut
      BY <2>1 DEF Sound
    <3>2. CASE \A n \in 1..Len(evidences) : evidences[n].outcome = "candidate-failure"
      <4>1. aggregate.reportable
        BY <2>2, <3>2
      <4>2. QED
        BY <4>1 DEF SInv, BatchInv
    <3>3. CASE \E n \in 1..Len(evidences) : evidences[n].outcome # "candidate-failure"
      <4>1. PICK n \in 1..Len(evidences) : evidences[n].outcome = "unrunnable" /\ evidences[n].cut
        BY <3>1, <3>3
      <4>2. aggregate.outcome = AggregateOutcome(evidences)
        BY <2>2 DEF Aggregate
      <4>3. AggregateOutcome(evidences) \in {"unrunnable", "intermittent"}
        BY <2>1, <4>1, AllAlike DEF AggregateOutcome
      <4>4. QED
        BY <4>1, <4>2, <4>3
    <3>4. QED
      BY <3>2, <3>3
  <2>5. QED
    BY <2>3, <2>4 DEF ReportIsReproduction
<1>2. QED
  BY <1>1, BatchInvariant, PTL
=============================================================================
